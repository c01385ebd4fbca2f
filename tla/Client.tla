--------------------------------- MODULE Client ---------------------------------
(***************************************************************************)
(* One tab of the web client and the accounts of the server: registering,  *)
(* signing in and out, the session the server sees (a cookie, or else a    *)
(* token the client keeps), the user the client believes in, and what the  *)
(* pages show out of the cache of React Query.                             *)
(*                                                                         *)
(* Queries do not influence each other, so one key is followed at a time;  *)
(* Init chooses it.  A request is sent, answered by the server and         *)
(* received in three steps, with anything in between.  Answers of the      *)
(* server carry whose data they are and how old.                           *)
(***************************************************************************)
EXTENDS Pages

CONSTANTS
    Emails,      \* e-mail addresses that somebody may register
    Watched,     \* keys to follow
    Faults,      \* what may go wrong: "network", "expiry", "disabling"
    MaxSignIns, MaxEdits, MaxFaults, MaxLoads,  \* bounds: see spent,
    MaxEvents                                   \* and of all these together

ASSUME EmailsAssumption == {"nobody", "dead", "unknown"} \cap Emails = {}
ASSUME WatchedAssumption == Watched \subseteq Keys
ASSUME BoundsAssumption ==
    {MaxSignIns, MaxEdits, MaxFaults, MaxLoads, MaxEvents} \subseteq Nat

VARIABLES
    \* the server
    rows,       \* rows of users with an e-mail
    disabled,   \* accounts with is_active = false
    changes,    \* changes made to the data of a user that answer the key
    \* the browser
    cookies,    \* does the browser keep the cookie of the other origin?
    cookie,     \* whose session the cookie holds, or "nobody"
    token,      \* the same for localStorage; "dead" when it has expired
    user,       \* cached answer of /auth/me: an e-mail, "nobody" or "unknown"
    ask,        \* request for /auth/me
    auth,       \* request to register, sign in or sign out
    route,      \* where the router is
    \* React Query
    key,        \* the key followed
    cache,      \* its entry
    edit,       \* request of a page that changes data
    \* history
    owed,       \* changes[u] that a page must show to u
    lapsed,     \* the session has ended other than by signing out
    crossed,    \* somebody signed in or out while /auth/me was under way, or
                \* after it had already shown a user
    spent       \* sign-ins (of anybody), edits, faults and loads so far

server  == <<rows, disabled, changes>>
session == <<cookie, token, user, ask, auth, route>>
data    == <<cache, edit, owed>>
history == <<lapsed, crossed, spent>>
fixed   == <<cookies, key>>
vars    == <<server, session, data, history, fixed>>

Users    == Emails \cup {"nobody"}
Sessions == Emails \cup {"nobody", "dead"}
Answers  == [of : Emails, at : Nat]
Nothing  == [of |-> "nobody", at |-> 0]

NoAsk  == [stage |-> "idle", by |-> "nobody", got |-> "unknown"]
NoAuth == [op |-> "none", email |-> "nobody", stage |-> "idle", status |-> "none"]
NoEdit == [op |-> "none", page |-> "none", by |-> "nobody", at |-> 0,
           stage |-> "idle", status |-> "none", stays |-> TRUE]

\* An entry without data; "stray" is a request nobody waits for any longer.
NoEntry == [shows |-> Nothing, borrowed |-> FALSE, failed |-> FALSE, stage |-> "idle", by |-> "nobody", got |-> Nothing, status |-> "none",
            retried |-> FALSE, shared |-> FALSE, stray |-> FALSE]

\* authenticate: the cookie goes before the header.
CredsOf(c, t) == IF c # "nobody" THEN c ELSE t
Creds == CredsOf(cookie, token)

\* useAuth: status.
Loading      == user = "unknown" /\ ask.stage # "idle"
SignedIn     == user \in Emails
SignedOut    == ~SignedIn /\ ~Loading

\* ProtectedRoute: what is shown at a route.
PageFor(u, r) == IF u \in Emails /\ r \in Routes THEN r ELSE "none"
Shown == PageFor(user, route)
Reads(p) == p \in Routes /\ key \in Page[p].reads
Observed == Reads(Shown)

Budget(what, max) ==
    /\ spent[what] < max
    /\ spent.signIns + spent.edits + spent.faults + spent.loads < MaxEvents
    /\ spent' = [spent EXCEPT ![what] = @ + 1]

Init ==
    /\ rows \in [Emails -> {0, 1}] /\ disabled = {}
    /\ changes = [e \in Emails |-> 0]
    /\ cookies \in BOOLEAN
    /\ cookie = "nobody" /\ token = "nobody" /\ user = "unknown"
    /\ ask = [NoAsk EXCEPT !.stage = "sent"]
    /\ auth = NoAuth /\ route = "dashboard"
    /\ key \in Watched
    /\ cache = NoEntry /\ edit = NoEdit
    /\ owed = [e \in Emails |-> 0]
    /\ lapsed = FALSE /\ crossed = FALSE
    /\ spent = [signIns |-> 0, edits |-> 0, faults |-> 0, loads |-> 0]

---------------------------------------------------------------------------
\* The cache.  A query that fails is tried once more while it is observed.

Send(c, creds) ==
    [c EXCEPT !.stage = "sent", !.by = creds, !.got = Nothing, !.status = "none",
              !.retried = FALSE, !.shared = FALSE,
              !.stray = @ \/ c.stage \in {"sent", "answered"}]

\* A page that mounts makes do with a request under way, and with lasting data.
Mount(c, creds) ==
    IF c.stage # "idle" THEN [c EXCEPT !.shared = TRUE]
    ELSE IF c.shows # Nothing /\ key \in Lasting THEN c
    ELSE Send(c, creds)

\* invalidateQueries: a request under way is cancelled only if there are data.
\* The mark it leaves on an entry only matters to lasting data, and no hook
\* invalidates those.
Invalidate(c, creds, observed) ==
    IF ~observed THEN c
    ELSE IF c.stage # "idle" /\ c.shows = Nothing THEN [c EXCEPT !.shared = TRUE]
    ELSE Send(c, creds)

\* The entry c once the tab shows u the route r.
Turn(c, u, r, creds) ==
    LET p == PageFor(u, r) IN IF Reads(p) /\ p # Shown THEN Mount(c, creds) ELSE c

\* The guards: nobody sees a page, and a user does not see the sign-in page.
Redirect(u, r) ==
    IF u \notin Emails THEN "signin" ELSE IF r = "signin" THEN "dashboard" ELSE r

\* What the client does with a 401 (not of /auth/me): it clears the token.
Refused ==
    /\ token' = "nobody"
    /\ lapsed' = (lapsed \/ token \in Emails)

---------------------------------------------------------------------------
\* /auth/me: asked when the tab loads, and again when it reconnects in doubt.

Reconnect ==
    /\ user = "unknown" /\ ask.stage = "idle" /\ Budget("loads", MaxLoads)
    /\ ask' = [NoAsk EXCEPT !.stage = "sent", !.by = Creds]
    /\ UNCHANGED <<server, cookie, token, user, auth, route, data, lapsed, crossed, fixed>>

AnswerAsk ==
    /\ ask.stage = "sent"
    /\ ask' = [ask EXCEPT !.stage = "answered",
                 !.got = IF ask.by \in Emails \ disabled /\ rows[ask.by] > 0
                         THEN ask.by ELSE "nobody"]
    /\ UNCHANGED <<server, cookie, token, user, auth, route, data, history, fixed>>

\* An error leaves what the cache knows of the user.
ReceiveAsk ==
    /\ ask.stage = "answered"
    /\ ask' = NoAsk
    /\ user' = IF ask.got = "unknown" THEN user ELSE ask.got
    /\ route' = Redirect(user', route)
    /\ cache' = Turn(cache, user', route', Creds)
    /\ UNCHANGED <<server, cookie, token, auth, edit, owed, history, fixed>>

---------------------------------------------------------------------------
\* Registering and signing in, from the sign-in page.

StartAuth(op, e) ==
    /\ SignedOut /\ route = "signin" /\ auth.stage = "idle"
    /\ Budget("signIns", MaxSignIns)
    /\ auth' = [NoAuth EXCEPT !.op = op, !.email = e, !.stage = "sent"]
    /\ UNCHANGED <<server, cookie, token, user, ask, route, data, lapsed, crossed, fixed>>

Reply(status) == auth' = [auth EXCEPT !.stage = "answered", !.status = status]

\* login: findByEmail; the password may be wrong.
LogIn ==
    /\ auth.op = "login" /\ auth.stage = "sent"
    /\ \/ rows[auth.email] > 0 /\ Reply(IF auth.email \in disabled THEN "refused" ELSE "done")
       \/ Reply("unauthorized")
    /\ UNCHANGED <<server, cookie, token, user, ask, route, data, history, fixed>>

\* register: findByEmail, ...
LookUp ==
    /\ auth.op = "register" /\ auth.stage = "sent"
    /\ IF rows[auth.email] > 0 THEN Reply("refused")
       ELSE auth' = [auth EXCEPT !.stage = "hashing"]
    /\ UNCHANGED <<server, cookie, token, user, ask, route, data, history, fixed>>

\* ... and create, once bcrypt has returned; the index may refuse the row.
CanInsert_Blind(e) == TRUE
CanInsert(e) == rows[e] = 0

InsertUser ==
    /\ auth.stage = "hashing"
    /\ IF CanInsert(auth.email)
       THEN rows' = [rows EXCEPT ![auth.email] = @ + 1] /\ Reply("done")
       ELSE UNCHANGED rows /\ Reply("refused")
    /\ UNCHANGED <<disabled, changes, cookie, token, user, ask, route, data, history, fixed>>

LogOut ==
    /\ auth.op = "logout" /\ auth.stage = "sent"
    /\ Reply("done")
    /\ UNCHANGED <<server, cookie, token, user, ask, route, data, history, fixed>>

\* A session is taken from the answer: Set-Cookie, setAccessToken, setQueryData.
TakeToken_Login(op, e) == IF op = "login" THEN e ELSE "nobody"
TakeToken(op, e) == e

EnterSession ==
    /\ auth.op \in {"login", "register"}
    /\ cookie' = IF cookies THEN auth.email ELSE "nobody"
    /\ token' = TakeToken(auth.op, auth.email)
    /\ user' = auth.email
    /\ crossed' = (SignedIn \/ ask.stage # "idle")
    \* The page goes where the user came from, and so does GuestRoute, or to the dashboard.
    /\ route' \in {"dashboard"} \cup (IF auth.op = "login" THEN Stops(key) ELSE {})
    /\ cache' = Turn(cache, user', route', CredsOf(cookie', token'))

LeaveSession ==
    /\ auth.op = "logout"
    /\ cookie' = "nobody" /\ token' = "nobody" /\ user' = "nobody"
    /\ crossed' = (ask.stage # "idle")
    /\ route' = "signin"
    /\ UNCHANGED cache

ReceiveAuth ==
    /\ auth.stage = "answered"
    /\ auth' = NoAuth
    /\ \/ /\ auth.status = "done"
          /\ EnterSession \/ LeaveSession
          /\ lapsed' = FALSE /\ edit' = [edit EXCEPT !.stays = FALSE]
       \/ /\ auth.status = "unauthorized" /\ Refused
          /\ UNCHANGED <<cookie, user, route, cache, edit, crossed>>
       \/ /\ auth.status \in {"refused", "lost"}
          /\ UNCHANGED <<cookie, token, user, route, cache, edit, lapsed, crossed>>
    /\ UNCHANGED <<server, ask, owed, spent, fixed>>

\* UserMenu: sign out.
StartLogOut ==
    /\ SignedIn /\ route # "signin" /\ auth.stage = "idle"
    /\ auth' = [NoAuth EXCEPT !.op = "logout", !.stage = "sent"]
    /\ UNCHANGED <<server, cookie, token, user, ask, route, data, history, fixed>>

\* Another visitor registers.
OtherRegisters(e) ==
    /\ CanInsert(e) /\ Budget("signIns", MaxSignIns)
    /\ rows' = [rows EXCEPT ![e] = @ + 1]
    /\ UNCHANGED <<disabled, changes, session, data, lapsed, crossed, fixed>>

---------------------------------------------------------------------------
\* The query that is followed.

\* authenticate only verifies the token; the data are those of its user.
AnswerFetch ==
    /\ cache.stage = "sent"
    /\ cache' = IF cache.by \in Emails
                THEN [cache EXCEPT !.stage = "answered", !.status = "done",
                                   !.got = [of |-> cache.by, at |-> changes[cache.by]]]
                ELSE [cache EXCEPT !.stage = "answered", !.status = "unauthorized"]
    /\ UNCHANGED <<server, session, edit, owed, history, fixed>>

Settled(c) == [c EXCEPT !.stage = "idle", !.by = "nobody", !.got = Nothing,
                        !.status = "none", !.retried = FALSE, !.shared = FALSE]

ReceiveFetch ==
    /\ cache.stage = "answered"
    /\ IF cache.status = "done"
       THEN cache' = [Settled(cache) EXCEPT !.shows = cache.got, !.failed = FALSE,
                                            !.borrowed = cache.shared]
       ELSE IF Observed /\ ~cache.retried
       THEN cache' = [cache EXCEPT !.stage = "waiting"]
       ELSE cache' = [Settled(cache) EXCEPT !.failed = TRUE]
    /\ IF cache.status = "unauthorized" THEN Refused ELSE UNCHANGED <<token, lapsed>>
    /\ UNCHANGED <<server, cookie, user, ask, auth, route, edit, owed, crossed, spent, fixed>>

\* The second attempt reads the session anew.
Retry ==
    /\ cache.stage = "waiting"
    /\ cache' = IF Observed
                THEN [Send(cache, Creds) EXCEPT !.retried = TRUE, !.shared = cache.shared]
                ELSE [Settled(cache) EXCEPT !.failed = TRUE]
    /\ UNCHANGED <<server, session, edit, owed, history, fixed>>

\* A cancelled request is still received by the interceptor.
StrayAnswer ==
    /\ cache.stray
    /\ cache' = [cache EXCEPT !.stray = FALSE]
    /\ Refused \/ UNCHANGED <<token, lapsed>>
    /\ UNCHANGED <<server, cookie, user, ask, auth, route, edit, owed, crossed, spent, fixed>>

---------------------------------------------------------------------------
\* Pages.

GoTo(r) ==
    /\ SignedIn /\ r # route
    /\ route' = r
    /\ cache' = Turn(cache, user, r, Creds)
    /\ edit' = [edit EXCEPT !.stays = FALSE]
    /\ UNCHANGED <<server, cookie, token, user, ask, auth, owed, history, fixed>>

StartEdit(o) ==
    /\ Shown \in Routes /\ o \in EditsOf(Shown, key) /\ edit.stage = "idle"
    /\ Budget("edits", MaxEdits)
    /\ edit' = [NoEdit EXCEPT !.op = o, !.page = Shown, !.by = Creds, !.stage = "sent"]
    /\ UNCHANGED <<server, session, cache, owed, lapsed, crossed, fixed>>

AnswerEdit ==
    /\ edit.stage = "sent"
    /\ IF edit.by \in Emails
       THEN /\ changes' = IF key \in Changes(edit.op)
                          THEN [changes EXCEPT ![edit.by] = @ + 1] ELSE changes
            /\ edit' = [edit EXCEPT !.stage = "answered", !.status = "done",
                          !.at = IF key \in Changes(edit.op) THEN changes'[edit.by] ELSE 0]
       ELSE /\ UNCHANGED changes
            /\ edit' = [edit EXCEPT !.stage = "answered", !.status = "unauthorized"]
    /\ UNCHANGED <<rows, disabled, session, cache, owed, history, fixed>>

\* onSuccess of the hook, and then the handler of the page, wherever the user is.
ReceiveEdit ==
    /\ edit.stage = "answered"
    /\ edit' = NoEdit
    /\ IF edit.status = "done"
       THEN /\ owed' = IF edit.stays /\ key \in Changes(edit.op)
                       THEN [owed EXCEPT ![edit.by] = edit.at] ELSE owed
            /\ LET next == Page[edit.page].edits[edit.op]
                   away == next # edit.page
               IN  route' = IF away THEN Redirect(user, next) ELSE route
            /\ cache' = Turn(IF Invalidates(edit.op, key)
                             THEN Invalidate(cache, Creds, Observed) ELSE cache,
                             user, route', Creds)
            /\ UNCHANGED <<token, lapsed>>
       ELSE /\ IF edit.status = "unauthorized" THEN Refused ELSE UNCHANGED <<token, lapsed>>
            /\ UNCHANGED <<owed, route, cache>>
    /\ UNCHANGED <<server, cookie, user, ask, auth, crossed, spent, fixed>>

---------------------------------------------------------------------------
\* The tab is reloaded: what is under way is abandoned.

Load ==
    /\ Budget("loads", MaxLoads)
    /\ user' = "unknown" /\ auth' = NoAuth /\ edit' = NoEdit /\ cache' = NoEntry
    /\ ask' = [NoAsk EXCEPT !.stage = "sent", !.by = Creds]
    /\ lapsed' = FALSE /\ crossed' = FALSE
    /\ UNCHANGED <<server, cookie, token, route, owed, fixed>>

\* A request that fails without an answer, before or after it took effect.
Lose ==
    /\ "network" \in Faults /\ Budget("faults", MaxFaults)
    /\ \/ /\ ask.stage \in {"sent", "answered"}
          /\ ask' = [ask EXCEPT !.stage = "answered", !.got = "unknown"]
          /\ UNCHANGED <<auth, cache, edit>>
       \/ /\ auth.stage \in {"sent", "hashing", "answered"}
          /\ auth' = [auth EXCEPT !.stage = "answered", !.status = "lost"]
          /\ UNCHANGED <<ask, cache, edit>>
       \/ /\ cache.stage \in {"sent", "answered"}
          /\ cache' = [cache EXCEPT !.stage = "answered", !.status = "lost"]
          /\ UNCHANGED <<ask, auth, edit>>
       \/ /\ edit.stage \in {"sent", "answered"}
          /\ edit' = [edit EXCEPT !.stage = "answered", !.status = "lost"]
          /\ UNCHANGED <<ask, auth, cache>>
    /\ UNCHANGED <<server, cookie, token, user, route, owed, lapsed, crossed, fixed>>

\* A session expires: the browser drops the cookie, and no token made with it
\* is good any longer, wherever it is.
Expired(s) == IF s \in Emails THEN "dead" ELSE s

Expire ==
    /\ "expiry" \in Faults /\ Creds \in Emails /\ Budget("faults", MaxFaults)
    /\ cookie' = "nobody" /\ token' = Expired(token)
    /\ lapsed' = TRUE
    /\ ask' = IF ask.stage = "sent" THEN [ask EXCEPT !.by = Expired(@)] ELSE ask
    /\ cache' = IF cache.stage = "sent" THEN [cache EXCEPT !.by = Expired(@)] ELSE cache
    /\ edit' = IF edit.stage = "sent" THEN [edit EXCEPT !.by = Expired(@)] ELSE edit
    /\ UNCHANGED <<server, user, auth, route, owed, crossed, fixed>>

Disable(e) ==
    /\ "disabling" \in Faults /\ rows[e] > 0 /\ e \notin disabled
    /\ Budget("faults", MaxFaults)
    /\ disabled' = disabled \cup {e}
    /\ UNCHANGED <<rows, changes, session, data, lapsed, crossed, fixed>>

---------------------------------------------------------------------------
AskStep  == Reconnect \/ AnswerAsk \/ ReceiveAsk
AuthStep ==
    \/ \E e \in Emails : StartAuth("login", e) \/ StartAuth("register", e)
    \/ LogIn \/ LookUp \/ InsertUser \/ StartLogOut \/ LogOut \/ ReceiveAuth
    \/ \E e \in Emails : OtherRegisters(e)
FetchStep == AnswerFetch \/ ReceiveFetch \/ Retry \/ StrayAnswer
PageStep ==
    \/ \E r \in Stops(key) : GoTo(r)
    \/ \E o \in Edits : StartEdit(o)
    \/ AnswerEdit \/ ReceiveEdit
WorldStep == Load \/ Lose \/ Expire \/ \E e \in Emails : Disable(e)

Next == AskStep \/ AuthStep \/ FetchStep \/ PageStep \/ WorldStep

Spec == Init /\ [][Next]_vars

---------------------------------------------------------------------------
Stages   == {"idle", "sent", "answered", "waiting", "hashing"}
Statuses == {"none", "done", "unauthorized", "refused", "lost"}

Asks  == [stage : Stages, by : Sessions, got : Users \cup {"unknown"}]
Auths == [op : {"none", "login", "register", "logout"}, email : Users,
          stage : Stages, status : Statuses]
Forms == [op : Edits \cup {"none"}, page : Routes \cup {"none"}, by : Sessions,
          at : Nat, stage : Stages, status : Statuses, stays : BOOLEAN]
Entries == [shows : Answers \cup {Nothing}, borrowed : BOOLEAN, failed : BOOLEAN,
            stage : Stages, by : Sessions, got : Answers \cup {Nothing},
            status : Statuses, retried : BOOLEAN, shared : BOOLEAN, stray : BOOLEAN]

\* Every variable has its type.
TypeOK ==
    /\ rows \in [Emails -> Nat] /\ disabled \subseteq Emails
    /\ changes \in [Emails -> Nat] /\ owed \in [Emails -> Nat]
    /\ cookies \in BOOLEAN /\ cookie \in Users /\ token \in Sessions
    /\ user \in Users \cup {"unknown"} /\ route \in Routes \cup {"signin"}
    /\ ask \in Asks /\ auth \in Auths /\ edit \in Forms
    /\ key \in Keys /\ cache \in Entries
    /\ lapsed \in BOOLEAN /\ crossed \in BOOLEAN
    /\ spent \in [signIns : Nat, edits : Nat, faults : Nat, loads : Nat]

\* However registrations race, an e-mail address has one account (the index
\* users_email_unique_idx, behind the check of register, auth.service.ts:22).
OneAccountPerEmail == \A e \in Emails : rows[e] <= 1

\* Whom a page greets is whose session the server sees: through lost answers,
\* reloads, and cookies the browser may not keep.  Except when the session has
\* expired or a late 401 has cleared the token, or when a sign-in and /auth/me
\* may have overtaken one another.
PageHasItsSession == SignedIn /\ ~lapsed /\ ~crossed => Creds = user

\* A page that is not waiting shows its user's own data, and every change that
\* was acknowledged on it, or on the page that led to it.  Except when its last
\* request has failed, or when it made do with one that was under way before
\* it asked (no data were there to cancel it for).
SettledPageIsCurrent ==
    Observed /\ cache.stage = "idle" /\ cache.shows # Nothing
      /\ ~cache.failed /\ ~cache.borrowed /\ ~crossed
    => /\ key \notin Lasting => cache.shows.of = user
       /\ cache.shows.at >= owed[user]
=============================================================================
