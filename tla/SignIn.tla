------------------------------- MODULE SignIn -------------------------------
(***************************************************************************)
(* Sign-in: OAuth states, logins, sessions, workspaces and the memberships *)
(* a login adds.  Requests are served on threads over one memory; a step   *)
(* runs from one call to the next, as in CreditThreads and Billing, and a  *)
(* sync of any of them writes the whole memory to disk.                    *)
(*                                                                         *)
(* What a request stores is named after the request: its OAuth state, its  *)
(* user, its session, its workspace.  All users have addresses in one      *)
(* domain.  An addition and the sync that follows it at once are one step  *)
(* where nobody can know of what was added before the request is answered. *)
(*                                                                         *)
(* Left out: the audit entries, of which only the sync matters here, a     *)
(* user's settings other than their being there, the header                *)
(* X-KerisLab-User, roles other than the owner's, and a dict that changes  *)
(* under a scan inside one expression.                                     *)
(***************************************************************************)
EXTENDS Integers, FiniteSets

CONSTANTS
    Request,        \* each on a thread of its own
    NoRequest,
    Op,             \* what a request asks
    Mail,           \* the address a login is about
    About,          \* the login whose token it carries; of a callback, the start that
                    \* made its state; of a start or dev-login, what its client waits for
    Target,         \* the workspace whose domains it sets
    MaxCrashes,     \* bound: crashes of the process
    Expiring        \* bound: sessions that may reach their expiry

ASSUME SignInAssumption ==
    /\ NoRequest \notin Request
    /\ Op \in [Request -> {"start", "callback", "dev", "logout", "me", "make", "allow"}]
    /\ About \in [Request -> Request \cup {NoRequest}]
    /\ Target \in [Request -> Request \cup {NoRequest}]
    /\ DOMAIN Mail = Request
    /\ \A r \in Request : Op[r] \notin {"start", "dev"} => About[r] # NoRequest
    /\ \A r \in Request : Op[r] = "allow" => Target[r] # NoRequest
    /\ MaxCrashes \in Nat
    /\ Expiring \subseteq Request

VARIABLES
    mem,        \* the collections of the process
    disk,       \* what sync wrote last
    pc,         \* Request -> where its thread is
    user,       \* Request -> the user its thread works for
    seen,       \* Request -> the workspaces there were when its loop began
    todo,       \* Request -> the ones its loop has left
    at,         \* Request -> the one its loop is joining the user to
    expired,    \* sessions past their expires_at
    exchanged,  \* callbacks whose code was sent to the provider
    due,        \* Request -> workspaces that had answered to allow the domain before it began
    late,       \* requests that came with a token after it was revoked or had expired
    overlapped, \* what two requests looked up at once and both did not find
    torn,       \* users and workspaces that were half made when disk was written
    split,      \* the ones of which a crash has kept such a half
    crashes

world == <<expired, exchanged, split, crashes>>
local == <<user, seen, todo, at>>
history == <<due, late, overlapped>>
vars == <<mem, disk, pc, local, world, history, torn>>

Membership == [by : Request, user : Request, workspace : Request]

Collections ==
    [open : SUBSET Request, consumed : SUBSET Request,         \* OAuth states
     users : SUBSET Request, settings : SUBSET Request,
     workspaces : SUBSET Request, accounts : SUBSET Request,
     allowing : SUBSET Request,                                \* workspaces that allow the domain
     members : SUBSET Membership,
     sessions : SUBSET Request, revoked : SUBSET Request]

Init ==
    /\ mem = [open |-> {}, consumed |-> {}, users |-> {}, settings |-> {}, workspaces |-> {},
              accounts |-> {}, allowing |-> {}, members |-> {}, sessions |-> {}, revoked |-> {}]
    /\ disk = mem
    /\ pc = [r \in Request |-> "idle"]
    /\ user = [r \in Request |-> NoRequest]
    /\ seen = [r \in Request |-> {}]
    /\ todo = [r \in Request |-> {}]
    /\ at = [r \in Request |-> NoRequest]
    /\ expired = {} /\ exchanged = {} /\ split = {} /\ crashes = 0
    /\ due = [r \in Request |-> {}]
    /\ late = {} /\ overlapped = {} /\ torn = {}

Answered == {NoRequest} \cup {r \in Request : pc[r] = "done"}

\* A client names a state, a token or a workspace only after it was answered with it.
Ready(r) == pc[r] = "idle" /\ {About[r], Target[r]} \subseteq Answered

Goto(r, from, to) == pc[r] = from /\ pc' = [pc EXCEPT ![r] = to]

Halves(place) == {r \in Request : place[r] \in {"settings", "owner", "account"}}
Sync == disk' = mem' /\ torn' = Halves(pc')
NoSync == UNCHANGED <<disk, torn>>

-----------------------------------------------------------------------------
\* google_login, sso_login: OAuthStateService.create.
CreateState(r) ==
    /\ Op[r] = "start" /\ Ready(r)
    /\ Goto(r, "idle", "done")
    /\ mem' = [mem EXCEPT !.open = @ \cup {r}]
    /\ Sync
    /\ UNCHANGED <<local, world, history>>

\* What two threads looked up, r second, before the first acted on it at its place.
Together(x, first) == overlapped' = overlapped \cup {y \in {x} : first # {}}
At(place) == {q \in Request : pc[q] = place}

\* oidc_callback, and consume up to now_utc().
ReadState(r) ==
    /\ Op[r] = "callback" /\ Ready(r)
    /\ About[r] \in mem.open \ mem.consumed
    /\ Goto(r, "idle", "consume")
    /\ Together(About[r], {q \in At("consume") : About[q] = About[r]})
    /\ NoSync
    /\ UNCHANGED <<mem, local, world, due, late>>

\* A callback that names another provider than the state's, or a state used already,
\* is refused and the state is left as it is.
RefuseState(r) ==
    /\ Op[r] = "callback" /\ Ready(r)
    /\ \E provider \in {"same", "other"} :
           provider = "same" => About[r] \notin mem.open \ mem.consumed
    /\ Goto(r, "idle", "raised")
    /\ NoSync
    /\ UNCHANGED <<mem, local, world, history>>

\* Mutant: the mark is left to the next sync.
Consume_NoSync(r) ==
    /\ Goto(r, "consume", "exchange")
    /\ mem' = [mem EXCEPT !.consumed = @ \cup {About[r]}]
    /\ NoSync
    /\ UNCHANGED <<local, world, history>>

Consume(r) ==
    /\ Goto(r, "consume", "exchange")
    /\ mem' = [mem EXCEPT !.consumed = @ \cup {About[r]}]
    /\ Sync
    /\ UNCHANGED <<local, world, history>>

\* Mutant: a provider that does not answer is asked again, from a place of its own.
Exchange_Retries(r) ==
    /\ \E to \in {"login", "retry"} : Goto(r, "exchange", to)
    /\ exchanged' = exchanged \cup {r}
    /\ NoSync
    /\ UNCHANGED <<mem, local, expired, split, crashes, history>>

\* exchange_code and resolve_profile.  The provider may refuse, or not answer within
\* ten seconds, and its answer may be rejected: no address in it, or an audience, an
\* issuer or a nonce that is not the expected one.
Exchange(r) ==
    /\ \E to \in {"login", "raised"} : Goto(r, "exchange", to)
    /\ exchanged' = exchanged \cup {r}
    /\ NoSync
    /\ UNCHANGED <<mem, local, expired, split, crashes, history>>

-----------------------------------------------------------------------------
\* login_identity, after the callback has a profile or at once in a dev-login.
Users(mail) == {u \in mem.users : Mail[u] = mail}
BeginsLogin(r) == pc[r] = "login" \/ (Op[r] = "dev" /\ Ready(r))

\* Workspaces whose owner has been told that their domain is allowed.
Told == {w \in Request : \E q \in Request : Op[q] = "allow" /\ Target[q] = w /\ pc[q] = "done"}

FoundNoUser(r) ==
    /\ user' = [user EXCEPT ![r] = r]
    /\ Goto(r, pc[r], "add")
    /\ Together(Mail[r], {q \in At("add") : Mail[q] = Mail[r]})

\* Mutant: always a user of its own.
FindUser_AlwaysAdds(r) ==
    /\ BeginsLogin(r)
    /\ due' = [due EXCEPT ![r] = Told]
    /\ FoundNoUser(r)
    /\ NoSync
    /\ UNCHANGED <<mem, seen, todo, at, world, late>>

\* The login of a known user is recorded in the audit log, which syncs.
FindUser(r) ==
    /\ BeginsLogin(r)
    /\ due' = [due EXCEPT ![r] = Told]
    /\ UNCHANGED mem
    /\ \/ \E u \in Users(Mail[r]) :
             /\ user' = [user EXCEPT ![r] = u]
             /\ Goto(r, pc[r], "reconcile")
             /\ UNCHANGED overlapped
             /\ Sync
       \/ Users(Mail[r]) = {} /\ FoundNoUser(r) /\ NoSync
    /\ UNCHANGED <<seen, todo, at, world, late>>

AddUser(r) ==
    /\ Goto(r, "add", "settings")
    /\ mem' = [mem EXCEPT !.users = @ \cup {r}]
    /\ NoSync
    /\ UNCHANGED <<local, world, history>>

\* So is the login of a new one.
AddSettings(r) ==
    /\ Goto(r, "settings", "reconcile")
    /\ mem' = [mem EXCEPT !.settings = @ \cup {r}]
    /\ Sync
    /\ UNCHANGED <<local, world, history>>

-----------------------------------------------------------------------------
\* Mutant: an address that is known is not reconciled.
BeginReconcile_NewOnly(r) ==
    /\ Goto(r, "reconcile", "loop")
    /\ seen' = [seen EXCEPT ![r] = mem.workspaces]
    /\ todo' = [todo EXCEPT ![r] = IF user[r] = r THEN mem.workspaces ELSE {}]
    /\ NoSync
    /\ UNCHANGED <<mem, user, at, world, history>>

\* reconcile_domain_memberships: a loop over the workspaces ...
BeginReconcile(r) ==
    /\ Goto(r, "reconcile", "loop")
    /\ seen' = [seen EXCEPT ![r] = mem.workspaces]
    /\ todo' = [todo EXCEPT ![r] = mem.workspaces]
    /\ NoSync
    /\ UNCHANGED <<mem, user, at, world, history>>

IsMember(u, w) == \E m \in mem.members : m.user = u /\ m.workspace = w

\* ... of which each that allows the domain and lacks the user is joined ...
Lacks(r, w) == w \in mem.allowing /\ ~IsMember(user[r], w)

PassBy(r) ==
    /\ pc[r] = "loop"
    /\ mem.workspaces = seen[r]
    /\ \E w \in todo[r] :
           /\ ~Lacks(r, w)
           /\ todo' = [todo EXCEPT ![r] = @ \ {w}]
    /\ NoSync
    /\ UNCHANGED <<mem, pc, user, seen, at, world, history>>

VisitWorkspace(r) ==
    /\ mem.workspaces = seen[r]
    /\ Goto(r, "loop", "join")
    /\ \E w \in todo[r] :
           /\ Lacks(r, w)
           /\ todo' = [todo EXCEPT ![r] = @ \ {w}]
           /\ at' = [at EXCEPT ![r] = w]
           /\ Together(<<user[r], w>>, {q \in At("join") : user[q] = user[r] /\ at[q] = w})
    /\ NoSync
    /\ UNCHANGED <<mem, user, seen, world, due, late>>

\* ... and that is recorded, the membership being there already when the lookup of
\* the user's settings raises.
Join(r) ==
    LET known == user[r] \in mem.settings IN
    /\ Goto(r, "join", IF known THEN "loop" ELSE "raised")
    /\ mem' = [mem EXCEPT !.members = @ \cup
                  {[by |-> r, user |-> user[r], workspace |-> at[r]]}]
    /\ IF known THEN Sync ELSE NoSync
    /\ UNCHANGED <<local, world, history>>

\* A dict that has grown under a loop raises at the loop's next turn.
LoopRaises(r) ==
    /\ mem.workspaces # seen[r]
    /\ Goto(r, "loop", "raised")
    /\ NoSync
    /\ UNCHANGED <<mem, local, world, history>>

\* Synced if a membership was added, and for a new user in any case.
EndLoop(r) ==
    /\ mem.workspaces = seen[r]
    /\ todo[r] = {}
    /\ Goto(r, "loop", "session")
    /\ UNCHANGED mem
    /\ IF user[r] = r \/ \E m \in mem.members : m.by = r THEN Sync ELSE NoSync
    /\ UNCHANGED <<local, world, history>>

\* create_session, and the answer with its token.
CreateSession(r) ==
    /\ Goto(r, "session", "done")
    /\ mem' = [mem EXCEPT !.sessions = @ \cup {r}]
    /\ Sync
    /\ UNCHANGED <<local, world, history>>

-----------------------------------------------------------------------------
\* current_user_id: the session is looked up by its token, and looked at after now_utc().
Authenticated == {"me", "make", "allow"}
Gone(t) == t \in expired \/ \E q \in Request : Op[q] = "logout" /\ About[q] = t /\ pc[q] = "done"

FindSession(r) ==
    /\ Op[r] \in Authenticated /\ Ready(r)
    /\ Goto(r, "idle", IF About[r] \in mem.sessions THEN "found" ELSE "refused")
    /\ late' = late \cup {q \in {r} : Gone(About[r])}
    /\ NoSync
    /\ UNCHANGED <<mem, local, world, due, overlapped>>

\* last_seen_at is stored before the handler begins.
CheckSession(r) ==
    LET bad == About[r] \in mem.revoked \cup expired IN
    /\ Goto(r, "found", IF bad THEN "refused" ELSE "serve")
    /\ UNCHANGED mem
    /\ IF bad THEN NoSync ELSE Sync
    /\ UNCHANGED <<local, world, history>>

\* Mutant: the revocation is left to the next sync.
Logout_NoSync(r) ==
    /\ Op[r] = "logout" /\ Ready(r)
    /\ Goto(r, "idle", "done")
    /\ mem' = [mem EXCEPT !.revoked = @ \cup {About[r]}]
    /\ NoSync
    /\ UNCHANGED <<local, world, history>>

\* revoke_session_token
Logout(r) ==
    /\ Op[r] = "logout" /\ Ready(r)
    /\ Goto(r, "idle", "done")
    /\ mem' = [mem EXCEPT !.revoked = @ \cup {About[r]}]
    /\ Sync
    /\ UNCHANGED <<local, world, history>>

-----------------------------------------------------------------------------
\* The handlers.  auth_me reads the settings of its user.
Caller(r) == user[About[r]]

ReadMe(r) ==
    /\ Op[r] = "me"
    /\ Goto(r, "serve", IF Caller(r) \in mem.settings THEN "done" ELSE "raised")
    /\ NoSync
    /\ UNCHANGED <<mem, local, world, history>>

\* create_workspace: the workspace, its owner's membership, its account, its owner's
\* default, which raises without settings; then all is synced.
AddWorkspace(r) ==
    /\ Op[r] = "make"
    /\ Goto(r, "serve", "owner")
    /\ mem' = [mem EXCEPT !.workspaces = @ \cup {r}]
    /\ NoSync
    /\ UNCHANGED <<local, world, history>>

AddOwner(r) ==
    /\ Goto(r, "owner", "account")
    /\ mem' = [mem EXCEPT !.members = @ \cup
                  {[by |-> r, user |-> Caller(r), workspace |-> r]}]
    /\ NoSync
    /\ UNCHANGED <<local, world, history>>

\* Mutant: the default is set before the account is added.
AddAccount_Last(r) ==
    LET known == Caller(r) \in mem.settings IN
    /\ Goto(r, "account", IF known THEN "default" ELSE "raised")
    /\ mem' = IF known THEN [mem EXCEPT !.accounts = @ \cup {r}] ELSE mem
    /\ NoSync
    /\ UNCHANGED <<local, world, history>>

AddAccount(r) ==
    /\ Goto(r, "account", "default")
    /\ mem' = [mem EXCEPT !.accounts = @ \cup {r}]
    /\ NoSync
    /\ UNCHANGED <<local, world, history>>

SetDefault(r) ==
    LET known == Caller(r) \in mem.settings IN
    /\ Goto(r, "default", IF known THEN "done" ELSE "raised")
    /\ UNCHANGED mem
    /\ IF known THEN Sync ELSE NoSync
    /\ UNCHANGED <<local, world, history>>

\* update_workspace_sso: an owner adds the domain to the ones of the workspace.
AllowDomain(r) ==
    LET w == Target[r]
        owner == [by |-> w, user |-> Caller(r), workspace |-> w] \in mem.members IN
    /\ Op[r] = "allow"
    /\ Goto(r, "serve", IF owner THEN "done" ELSE "refused")
    /\ mem' = [mem EXCEPT !.allowing = @ \cup {x \in {w} : owner}]
    /\ IF owner THEN Sync ELSE NoSync
    /\ UNCHANGED <<local, world, history>>

-----------------------------------------------------------------------------
Expire(t) ==
    /\ t \in (mem.sessions \cap Expiring) \ expired
    /\ expired' = expired \cup {t}
    /\ NoSync
    /\ UNCHANGED <<mem, pc, local, exchanged, split, crashes, history>>

AtRest == {"idle", "done", "refused", "raised"}

\* The process dies, and a new one loads the disk.
Crash ==
    /\ crashes < MaxCrashes
    /\ crashes' = crashes + 1
    /\ mem' = disk
    /\ pc' = [r \in Request |-> IF pc[r] \in AtRest THEN pc[r] ELSE "crashed"]
    /\ split' = split \cup torn
    /\ UNCHANGED <<disk, local, expired, exchanged, history, torn>>

SignInStep(r) ==
    \/ CreateState(r) \/ ReadState(r) \/ RefuseState(r) \/ Consume(r) \/ Exchange(r)
    \/ FindUser(r) \/ AddUser(r) \/ AddSettings(r)
    \/ BeginReconcile(r) \/ PassBy(r) \/ VisitWorkspace(r) \/ Join(r)
    \/ LoopRaises(r) \/ EndLoop(r) \/ CreateSession(r)

SessionStep(r) ==
    \/ FindSession(r) \/ CheckSession(r) \/ Logout(r) \/ ReadMe(r)
    \/ AddWorkspace(r) \/ AddOwner(r) \/ AddAccount(r) \/ SetDefault(r) \/ AllowDomain(r)

Next ==
    \/ \E r \in Request : SignInStep(r) \/ SessionStep(r) \/ Expire(r)
    \/ Crash

Spec == Init /\ [][Next]_vars

-----------------------------------------------------------------------------
SignInTypeOK ==
    /\ mem \in Collections
    /\ disk \in Collections
    /\ pc \in [Request -> AtRest \cup
                   {"consume", "exchange", "login", "add", "settings", "reconcile", "loop",
                    "join", "session", "found", "serve", "owner", "account", "default",
                    "crashed"}]
    /\ user \in [Request -> Request \cup {NoRequest}]
    /\ seen \in [Request -> SUBSET Request] /\ todo \in [Request -> SUBSET Request]
    /\ at \in [Request -> Request \cup {NoRequest}]
    /\ expired \subseteq Request /\ exchanged \subseteq Request
    /\ due \in [Request -> SUBSET Request]
    /\ late \subseteq Request /\ torn \subseteq Request /\ split \subseteq Request
    /\ crashes \in 0..MaxCrashes

\* Safety (docs/06: "one-time OAuth state records"): the code of at most one callback
\* of a state is exchanged, before or after a crash, unless two callbacks both found
\* the state unused.
StateUsedOnce ==
    \A s \in Request \ overlapped :
        Cardinality({r \in exchanged : About[r] = s}) <= 1

\* Safety: an address has one user and a user one membership of a workspace, unless
\* two logins both found none.
OneOfEach ==
    /\ \A m \in {Mail[u] : u \in mem.users} \ overlapped : Cardinality(Users(m)) <= 1
    /\ \A m, n \in mem.members :
           m.user = n.user /\ m.workspace = n.workspace /\ m # n
           => <<m.user, m.workspace>> \in overlapped

\* Safety: a user has settings, and a workspace an owner and a credit account, also
\* one whose creation raised, whenever no thread is making it.  The exception is a
\* crash after another request's sync wrote the half of it that was there.
StoredIsWhole ==
    \A r \in Request \ (split \cup Halves(pc)) :
        /\ r \in mem.users => r \in mem.settings
        /\ r \in mem.workspaces =>
               /\ r \in mem.accounts
               /\ \E m \in mem.members : m.by = r /\ m.workspace = r

\* Safety: a request that comes with a token after its logout was answered, or after
\* it expired, is refused, before or after a crash.
LateIsRefused == \A r \in late : pc[r] \in {"found", "refused", "crashed"}

\* Safety: whoever was answered with a session is a member of every workspace whose
\* owner had been told, before that login began, that the domain is allowed; this
\* survives a crash.
SignedInIsMember ==
    \A r \in Request :
        Op[r] \in {"callback", "dev"} /\ pc[r] = "done"
        => \A w \in due[r] : IsMember(user[r], w)
=============================================================================
