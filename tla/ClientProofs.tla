------------------------------ MODULE ClientProofs ------------------------------
(***************************************************************************)
(* Theorems about Client, for any addresses, keys, faults and bounds.      *)
(***************************************************************************)
EXTENDS Client, TLAPS

---------------------------------------------------------------------------
\* The tables.

\* No request changes what is cached for ever.
LEMMA LastingNeverChanges ==
    ASSUME NEW o \in Edits, NEW k \in Lasting PROVE k \notin Changes(o)
  BY DEF Edits, Hook, Lasting, Strategies, Compatibility, DateRange, Changes, Answer,
         Datasets, Dataset, Summary, Overview, Sources, Backtests, Detail, Equity,
         Trades, Paged, Analyses, Analysis, AnalysisRuns, Metrics, Dashboards, Dashboard

LEMMA Reflexive == ASSUME NEW k PROVE Matches(k, k)
  BY DEF Matches

\* The hook of a request that leaves its page open invalidates what the page
\* shows and the request changes.
LEMMA HooksCoverPages ==
    ASSUME NEW p \in Routes, NEW o \in DOMAIN Page[p].edits, Page[p].edits[o] = p,
           NEW k \in Page[p].reads, k \in Changes(o)
    PROVE  Invalidates(o, k)
  <1> USE DEF Reading, NoEdits
  <1> DEFINE Named(op, q, ks) == o = op /\ p = q /\ k \in ks
  <1>1. \/ Named("deleteDataset", "datasets", {Datasets})
        \/ Named("deleteAnalysis", "overview", {Overview})
        \/ Named("executeAnalysis", "overview", {Overview})
        \/ Named("deleteAnalysis", "analyses", {Paged(Analyses)})
        \/ Named("executeAnalysis", "analysisDetail", {AnalysisRuns, Overview})
        \/ Named("createMetric", "metrics", {Paged(Metrics)})
        \/ Named("deleteMetric", "metrics", {Paged(Metrics)})
        \/ Named("deleteDashboard", "dashboards", {Paged(Dashboards)})
        \/ Named("createWidget", "dashboardDetail", {Dashboard})
        \/ Named("deleteWidget", "dashboardDetail", {Dashboard})
        \/ Named("deleteBacktest", "backtesting", {Backtests})
    BY SMTT(60) DEF Routes, Page, DashboardPage, DatasetsPage, DatasetUploadPage,
         DatasetWorkspacePage, AnalysisDashboardPage, DataMartOverviewPage,
         QueryBuilderPage, AnalysesPage, AnalysisDetailPage, MetricsPage,
         DashboardsPage, DashboardDetailPage, ComparisonPage, BacktestingPage,
         NewBacktestPage, BacktestResultPage, Changes, Answer,
         Datasets, Dataset, Summary, Overview, Sources, Backtests, Detail, Equity,
         Trades, Paged, Analyses, Analysis, AnalysisRuns, Metrics, Dashboards,
         Dashboard, Analytics, Comparison, Strategies, Compatibility, DateRange
  <1>2. /\ Matches(Analyses, Paged(Analyses)) /\ Matches(Metrics, Paged(Metrics))
        /\ Matches(Dashboards, Paged(Dashboards))
    BY DEF Matches, Paged, Analyses, Metrics, Dashboards
  <1> QED
    BY <1>1, <1>2, Reflexive
    DEF Invalidates, Hook, OfDatasets, OfBacktests, OfAnalyses, OfRuns, OfMetrics,
        OfDashboards, OfWidgets

---------------------------------------------------------------------------
\* The invariant.

\* The browser holds no other session than that of u.
Own(u) == cookie \in {u, "nobody"} /\ token \in {u, "nobody", "dead"}

TokensInv == cookie \in Emails => token \in {cookie, "nobody", "dead"}

AuthInv ==
    /\ auth.op \in {"login", "register"} => auth.email \in Emails
    /\ auth.stage = "hashing" => auth.op = "register"

SessionInv == SignedIn /\ ~crossed => Own(user) /\ (~lapsed => Creds = user)

\* While /auth/me is under way nobody is signed in, and its answer will be
\* about the session of the browser.
AskInv ==
    /\ ask.stage \in {"idle", "sent", "answered"}
    /\ ask.stage # "answered" => ask.got = "unknown"
    /\ ask.got \in Emails => ask.got = ask.by
    /\ ask.stage # "idle" /\ ~crossed =>
         /\ ~SignedIn
         /\ ask.by \in Emails => Own(ask.by) /\ (~lapsed => ask.by = Creds)

\* Nothing is owed that the server does not have.
DebtInv ==
    /\ \A e \in Emails : owed[e] <= changes[e]
    /\ key \in Lasting => \A e \in Emails : changes[e] = 0
    /\ edit.by \in Emails => edit.at <= changes[edit.by]

EditInv ==
    /\ edit.stage \in {"idle", "sent", "answered"}
    /\ edit.stage = "sent" => edit.status = "none"
    /\ edit.stage = "answered" /\ edit.status = "done" => edit.by \in Emails
    /\ edit.stage # "idle" =>
         /\ edit.page \in Routes /\ edit.op \in DOMAIN Page[edit.page].edits
         /\ edit.op \in Edits
         /\ edit.stays /\ ~crossed =>
              SignedIn /\ route = edit.page /\ (edit.by \in Emails => edit.by = user)

\* An entry c is right for u, who is owed the changes o: what is under way is
\* for u and recent enough, and so is what has come.
Right(c, u, o) ==
    /\ c.stage # "idle" /\ ~c.shared =>
         /\ c.by \in Emails => c.by = u
         /\ c.stage = "answered" /\ c.status = "done" =>
              c.got.of = u /\ c.got.at >= o
    /\ c.stage = "idle" /\ c.shows # Nothing /\ ~c.failed /\ ~c.borrowed =>
         /\ key \notin Lasting => c.shows.of = u
         /\ c.shows.at >= o

CacheInv == Observed /\ ~crossed => Right(cache, user, owed[user])

IInv ==
    /\ TypeOK /\ OneAccountPerEmail /\ TokensInv /\ AuthInv /\ SessionInv
    /\ AskInv /\ DebtInv /\ EditInv /\ CacheInv

---------------------------------------------------------------------------
\* The cache.

LEMMA SendType ==
    ASSUME NEW c \in Entries, NEW creds \in Sessions PROVE Send(c, creds) \in Entries
  <1>1. Nothing \in Answers \cup {Nothing} OBVIOUS
  <1> QED BY <1>1 DEF Send, Entries, Stages, Statuses

LEMMA SendRight ==
    ASSUME NEW c \in Entries, NEW creds \in Sessions
    PROVE  /\ Send(c, creds) \in Entries
           /\ \A u, o : (creds \in Emails => creds = u) => Right(Send(c, creds), u, o)
  <1>1. /\ Send(c, creds).stage = "sent" /\ Send(c, creds).by = creds
    BY DEF Send, Entries
  <1> QED BY <1>1, SendType DEF Right

LEMMA MountRight ==
    ASSUME NEW c \in Entries, NEW creds \in Sessions
    PROVE  /\ Mount(c, creds) \in Entries
           /\ \A u : \A o \in Nat : (creds \in Emails => creds = u) /\ (key \in Lasting => o = 0)
                => Right(Mount(c, creds), u, o)
  <1>1. CASE c.stage # "idle"
    BY <1>1 DEF Mount, Entries, Right
  <1>2. CASE c.stage = "idle" /\ c.shows # Nothing /\ key \in Lasting
    BY <1>2 DEF Mount, Entries, Right, Answers
  <1>3. CASE c.stage = "idle" /\ ~(c.shows # Nothing /\ key \in Lasting)
    <2>1. Mount(c, creds) = Send(c, creds)
      BY <1>3 DEF Mount
    <2> QED BY <2>1, SendRight
  <1> QED BY <1>1, <1>2, <1>3

LEMMA InvalidateRight ==
    ASSUME NEW c \in Entries, NEW creds \in Sessions, NEW observed \in BOOLEAN
    PROVE  /\ Invalidate(c, creds, observed) \in Entries
           /\ ~observed => Invalidate(c, creds, observed) = c
           /\ observed => \A u, o : (creds \in Emails => creds = u)
                => Right(Invalidate(c, creds, observed), u, o)
  <1>1. CASE ~observed
    BY <1>1 DEF Invalidate
  <1>2. CASE observed /\ c.stage # "idle" /\ c.shows = Nothing
    BY <1>2 DEF Invalidate, Entries, Right
  <1>3. CASE observed /\ ~(c.stage # "idle" /\ c.shows = Nothing)
    <2>1. Invalidate(c, creds, observed) = Send(c, creds)
      BY <1>3 DEF Invalidate
    <2> QED BY <1>3, <2>1, SendRight
  <1> QED BY <1>1, <1>2, <1>3

\* Turning to another page that reads the key mounts the query; turning to any
\* other page, or to none, leaves it.
LEMMA TurnRight ==
    ASSUME NEW c \in Entries, NEW u, NEW r, NEW creds \in Sessions
    PROVE  /\ Turn(c, u, r, creds) \in Entries
           /\ PageFor(u, r) = Shown => Turn(c, u, r, creds) = c
           /\ \A o \in Nat :
                Reads(PageFor(u, r)) /\ PageFor(u, r) # Shown
                  /\ (creds \in Emails => creds = u) /\ (key \in Lasting => o = 0)
                => Right(Turn(c, u, r, creds), u, o)
  BY MountRight DEF Turn

LEMMA CredsType == ASSUME TypeOK PROVE Creds \in Sessions
  BY DEF TypeOK, Creds, CredsOf, Sessions, Users

---------------------------------------------------------------------------
\* The steps.

LEMMA Blank ==
    /\ NoAsk \in Asks /\ NoAsk.stage = "idle" /\ NoAsk.by = "nobody" /\ NoAsk.got = "unknown"
    /\ NoAuth \in Auths /\ NoAuth.stage = "idle" /\ NoAuth.op = "none"
    /\ NoEdit \in Forms /\ NoEdit.stage = "idle" /\ NoEdit.by = "nobody" /\ NoEdit.at = 0
    /\ NoEdit.status = "none" /\ NoEdit.stays = TRUE
    /\ NoEntry \in Entries /\ NoEntry.stage = "idle" /\ NoEntry.shows = Nothing
  BY DEF NoAsk, NoAuth, NoEdit, NoEntry, Asks, Auths, Forms, Entries, Users, Sessions,
         Stages, Statuses

LEMMA FrameAccounts == ASSUME OneAccountPerEmail, UNCHANGED rows PROVE OneAccountPerEmail'
  BY DEF OneAccountPerEmail

LEMMA FrameTokens == ASSUME TokensInv, UNCHANGED <<cookie, token>> PROVE TokensInv'
  BY DEF TokensInv

LEMMA FrameAuth == ASSUME AuthInv, UNCHANGED auth PROVE AuthInv'
  BY DEF AuthInv

LEMMA FrameSession ==
    ASSUME SessionInv, UNCHANGED <<user, cookie, token, lapsed, crossed>> PROVE SessionInv'
  BY DEF SessionInv, SignedIn, Own, Creds, CredsOf

LEMMA FrameAsk ==
    ASSUME AskInv, UNCHANGED <<ask, user, cookie, token, lapsed, crossed>> PROVE AskInv'
  BY DEF AskInv, SignedIn, Own, Creds, CredsOf

LEMMA FrameDebt ==
    ASSUME DebtInv, UNCHANGED <<owed, changes, key, edit>> PROVE DebtInv'
  BY DEF DebtInv

LEMMA FrameEdit ==
    ASSUME EditInv, UNCHANGED <<edit, user, route, crossed>> PROVE EditInv'
  BY DEF EditInv, SignedIn

LEMMA FrameCache ==
    ASSUME CacheInv, UNCHANGED <<cache, user, route, key, owed, crossed>> PROVE CacheInv'
  BY DEF CacheInv, Observed, Reads, Shown, PageFor, Right

\* For steps that change the entry but not the page.
LEMMA FrameShown ==
    ASSUME UNCHANGED <<user, route, key>> PROVE Shown' = Shown /\ Observed' = Observed
  BY DEF Observed, Reads, Shown, PageFor

LEMMA Pageless == "none" \notin Routes /\ "signin" \notin Routes
  BY DEF Routes, Page

LEMMA ReadersAreUsers ==
    ASSUME NEW u, NEW r, Reads(PageFor(u, r))
    PROVE  u \in Emails /\ r \in Routes /\ PageFor(u, r) = r /\ key \in Page[r].reads
  BY Pageless DEF Reads, PageFor

LEMMA StopsAreRoutes == ASSUME NEW r \in Stops(key) PROVE r \in Routes
  BY DEF Stops, Routes, Page

LEMMA HandlersLeadToPages ==
    ASSUME NEW p \in Routes, NEW o \in DOMAIN Page[p].edits
    PROVE  Page[p].edits[o] \in Routes /\ o \in Edits
  BY SMTT(60) DEF Routes, Page, DashboardPage, DatasetsPage, DatasetUploadPage,
       DatasetWorkspacePage, AnalysisDashboardPage, DataMartOverviewPage,
       QueryBuilderPage, AnalysesPage, AnalysisDetailPage, MetricsPage,
       DashboardsPage, DashboardDetailPage, ComparisonPage, BacktestingPage,
       NewBacktestPage, BacktestResultPage, Reading, NoEdits, Edits, Hook

\* A session of its own is all the server can see.
LEMMA OwnCreds ==
    ASSUME NEW u \in Emails, Own(u) PROVE Creds \in Emails => Creds = u
  BY EmailsAssumption DEF Own, Creds, CredsOf

LEMMA NothingOwed ==
    ASSUME TypeOK, DebtInv, key \in Lasting, NEW e \in Emails PROVE owed[e] = 0
  <1>1. owed[e] \in Nat /\ owed[e] <= changes[e] /\ changes[e] = 0
    BY DEF TypeOK, DebtInv
  <1> QED BY <1>1

\* A step that may turn to another page.
LEMMA TurnKeeps ==
    ASSUME NEW c \in Entries, NEW creds \in Sessions, UNCHANGED key,
           cache' = Turn(c, user', route', creds),
           owed' \in [Emails -> Nat],
           ~crossed' /\ user' \in Emails => (creds \in Emails => creds = user'),
           key \in Lasting /\ user' \in Emails => owed'[user'] = 0,
           ~crossed' /\ Observed /\ PageFor(user', route') = Shown
             => Right(c, user', owed'[user'])
    PROVE  cache' \in Entries /\ CacheInv'
  <1>1. cache' \in Entries BY TurnRight
  <1>2. SUFFICES ASSUME Observed', ~crossed' PROVE Right(cache', user', owed'[user'])
    BY <1>1 DEF CacheInv, Right
  <1>3. Reads(PageFor(user', route')) BY <1>2 DEF Observed, Reads, Shown, PageFor
  <1>4. user' \in Emails BY <1>3, ReadersAreUsers
  <1>5. CASE PageFor(user', route') = Shown
    BY <1>2, <1>3, <1>5, TurnRight DEF Observed
  <1>6. CASE PageFor(user', route') # Shown
    BY <1>2, <1>3, <1>4, <1>6, TurnRight
  <1> QED BY <1>5, <1>6

LEMMA RefusedKeeps ==
    ASSUME IInv, Refused, UNCHANGED <<ask, user, cookie, crossed>>
    PROVE  token' \in Sessions /\ lapsed' \in BOOLEAN /\ TokensInv' /\ SessionInv' /\ AskInv'
  <1>1. token' = "nobody" /\ lapsed' = (lapsed \/ token \in Emails) BY DEF Refused
  <1>2. token' \in Sessions /\ lapsed' \in BOOLEAN BY <1>1 DEF IInv, TypeOK, Sessions
  <1>3. TokensInv' BY <1>1 DEF TokensInv
  <1>4. \A u \in Emails : Own(u) => Own(u)' BY <1>1 DEF Own
  <1>5. \A u \in Emails : ~lapsed' /\ Creds = u => Creds' = u
    BY <1>1 DEF Creds, CredsOf
  <1>6. SessionInv' BY <1>1, <1>4, <1>5 DEF IInv, SessionInv, SignedIn
  <1>7. AskInv' BY <1>1, <1>4, <1>5 DEF IInv, AskInv, SignedIn
  <1> QED BY <1>2, <1>3, <1>6, <1>7

LEMMA InitInv == ASSUME Init PROVE IInv
  <1>1. TypeOK
    <2>1. ask \in Asks BY Blank DEF Init, Asks, Stages
    <2>2. route \in Routes BY DEF Init, Routes, Page
    <2>3. spent \in [signIns : Nat, edits : Nat, faults : Nat, loads : Nat] BY DEF Init
    <2>4. rows \in [Emails -> Nat] /\ changes \in [Emails -> Nat] /\ owed \in [Emails -> Nat]
      BY DEF Init
    <2> QED BY <2>1, <2>2, <2>3, <2>4, Blank, WatchedAssumption
      DEF Init, TypeOK, Users, Sessions
  <1>2. OneAccountPerEmail BY DEF Init, OneAccountPerEmail
  <1>3. TokensInv /\ AuthInv BY EmailsAssumption, Blank DEF Init, TokensInv, AuthInv
  <1>4. SessionInv /\ AskInv
    <2>1. ask.stage = "sent" /\ ask.by = "nobody" /\ ask.got = "unknown"
      BY Blank DEF Init, Asks
    <2> QED BY <2>1, EmailsAssumption DEF Init, SessionInv, AskInv, SignedIn, Creds, CredsOf
  <1>5. DebtInv /\ EditInv BY EmailsAssumption, Blank DEF Init, DebtInv, EditInv
  <1>6. CacheInv
    <2>1. Shown = "none" BY EmailsAssumption DEF Init, Shown, PageFor
    <2>2. "none" \notin Routes BY DEF Routes, Page
    <2> QED BY <2>1, <2>2 DEF CacheInv, Observed, Reads
  <1> QED BY <1>1, <1>2, <1>3, <1>4, <1>5, <1>6 DEF IInv

LEMMA KeepsReconnect ==
    ASSUME IInv, Reconnect PROVE IInv'
  <1>1. UNCHANGED <<rows, disabled, changes, cookies, cookie, token, user, auth,
                   route, key, cache, edit, owed, lapsed, crossed>>
    BY DEF Reconnect, Budget, server, session, data, history, fixed
  <1>2. ask' = [NoAsk EXCEPT !.stage = "sent", !.by = Creds] /\ user = "unknown"
    BY DEF Reconnect
  <1>3. /\ ask' \in Asks /\ ask'.stage = "sent" /\ ask'.by = Creds /\ ask'.got = "unknown"
    BY <1>2, CredsType, Blank DEF IInv, Asks, Stages
  <1>4. spent' \in [signIns : Nat, edits : Nat, faults : Nat, loads : Nat]
    BY DEF Reconnect, Budget, IInv, TypeOK
  <1>5. TypeOK' BY <1>1, <1>2, <1>3, <1>4 DEF IInv, TypeOK
  <1>6. OneAccountPerEmail' BY <1>1, FrameAccounts DEF IInv
  <1>7. TokensInv' BY <1>1, FrameTokens DEF IInv
  <1>8. AuthInv' BY <1>1, FrameAuth DEF IInv
  <1>9. SessionInv' BY <1>1, FrameSession DEF IInv
  <1>10. AskInv'
    <2>1. Creds' = Creds BY <1>1 DEF Creds, CredsOf
    <2>2. Creds \in Emails => Own(Creds) BY EmailsAssumption DEF IInv, TypeOK, Users, Sessions, TokensInv, Own, Creds, CredsOf
    <2> QED BY <1>1, <1>2, <1>3, <1>4, <2>1, <2>2, EmailsAssumption DEF AskInv, SignedIn, Own
  <1>11. DebtInv' BY <1>1, FrameDebt DEF IInv
  <1>12. EditInv' BY <1>1, FrameEdit DEF IInv
  <1>13. CacheInv' BY <1>1, FrameCache DEF IInv
  <1> QED BY <1>5, <1>6, <1>7, <1>8, <1>9, <1>10, <1>11, <1>12, <1>13 DEF IInv

LEMMA KeepsAnswerAsk ==
    ASSUME IInv, AnswerAsk PROVE IInv'
  <1>1. UNCHANGED <<rows, disabled, changes, cookies, cookie, token, user, auth,
                   route, key, cache, edit, owed, lapsed, crossed, spent>>
    BY DEF AnswerAsk, server, session, data, history, fixed
  <1>2. /\ ask' \in Asks /\ ask'.stage = "answered" /\ ask'.by = ask.by
        /\ ask'.got \in {ask.by, "nobody"} /\ (ask'.got \in Emails => ask'.got = ask.by)
    BY EmailsAssumption DEF AnswerAsk, IInv, TypeOK, Asks, Stages, Users, Sessions
  <1>3. ask.stage = "sent" BY DEF AnswerAsk
  <1>4. TypeOK' BY <1>1, <1>2, <1>3 DEF IInv, TypeOK
  <1>5. OneAccountPerEmail' BY <1>1, FrameAccounts DEF IInv
  <1>6. TokensInv' BY <1>1, FrameTokens DEF IInv
  <1>7. AuthInv' BY <1>1, FrameAuth DEF IInv
  <1>8. SessionInv' BY <1>1, FrameSession DEF IInv
  <1>9. AskInv'
    BY <1>1, <1>2, <1>3 DEF IInv, AskInv, SignedIn, Own, Creds, CredsOf
  <1>10. DebtInv' BY <1>1, FrameDebt DEF IInv
  <1>11. EditInv' BY <1>1, FrameEdit DEF IInv
  <1>12. CacheInv' BY <1>1, FrameCache DEF IInv
  <1> QED BY <1>4, <1>5, <1>6, <1>7, <1>8, <1>9, <1>10, <1>11, <1>12 DEF IInv

LEMMA KeepsStartAuth ==
    ASSUME IInv, NEW op \in {"login", "register"}, NEW e \in Emails, StartAuth(op, e) PROVE IInv'
  <1>1. UNCHANGED <<rows, disabled, changes, cookies, cookie, token, user, ask,
                   route, key, cache, edit, owed, lapsed, crossed>>
    BY DEF StartAuth, Budget, server, session, data, history, fixed
  <1>2. auth' = [NoAuth EXCEPT !.op = op, !.email = e, !.stage = "sent"] BY DEF StartAuth
  <1>3. auth' \in Auths /\ auth'.op = op /\ auth'.email = e /\ auth'.stage = "sent"
    BY <1>2, Blank DEF Auths, Stages, Users
  <1>4. spent' \in [signIns : Nat, edits : Nat, faults : Nat, loads : Nat]
    BY DEF StartAuth, Budget, IInv, TypeOK
  <1>5. TypeOK' BY <1>1, <1>2, <1>3, <1>4 DEF IInv, TypeOK
  <1>6. OneAccountPerEmail' BY <1>1, FrameAccounts DEF IInv
  <1>7. TokensInv' BY <1>1, FrameTokens DEF IInv
  <1>8. AuthInv'
    BY <1>1, <1>2, <1>3, <1>4 DEF AuthInv
  <1>9. SessionInv' BY <1>1, FrameSession DEF IInv
  <1>10. AskInv' BY <1>1, FrameAsk DEF IInv
  <1>11. DebtInv' BY <1>1, FrameDebt DEF IInv
  <1>12. EditInv' BY <1>1, FrameEdit DEF IInv
  <1>13. CacheInv' BY <1>1, FrameCache DEF IInv
  <1> QED BY <1>5, <1>6, <1>7, <1>8, <1>9, <1>10, <1>11, <1>12, <1>13 DEF IInv

LEMMA KeepsLogIn ==
    ASSUME IInv, LogIn PROVE IInv'
  <1>1. UNCHANGED <<rows, disabled, changes, cookies, cookie, token, user, ask,
                   route, key, cache, edit, owed, lapsed, crossed, spent>>
    BY DEF LogIn, server, session, data, history, fixed
  <1>2. PICK s \in Statuses : auth' = [auth EXCEPT !.stage = "answered", !.status = s]
    BY DEF LogIn, Reply, Statuses
  <1>3. auth' \in Auths /\ auth'.op = auth.op /\ auth'.email = auth.email /\ auth'.stage = "answered"
    BY <1>2 DEF IInv, TypeOK, Auths, Stages
  <1>4. TypeOK' BY <1>1, <1>2, <1>3 DEF IInv, TypeOK
  <1>5. OneAccountPerEmail' BY <1>1, FrameAccounts DEF IInv
  <1>6. TokensInv' BY <1>1, FrameTokens DEF IInv
  <1>7. AuthInv'
    BY <1>1, <1>2, <1>3 DEF IInv, AuthInv
  <1>8. SessionInv' BY <1>1, FrameSession DEF IInv
  <1>9. AskInv' BY <1>1, FrameAsk DEF IInv
  <1>10. DebtInv' BY <1>1, FrameDebt DEF IInv
  <1>11. EditInv' BY <1>1, FrameEdit DEF IInv
  <1>12. CacheInv' BY <1>1, FrameCache DEF IInv
  <1> QED BY <1>4, <1>5, <1>6, <1>7, <1>8, <1>9, <1>10, <1>11, <1>12 DEF IInv

LEMMA KeepsLookUp ==
    ASSUME IInv, LookUp PROVE IInv'
  <1>1. UNCHANGED <<rows, disabled, changes, cookies, cookie, token, user, ask,
                   route, key, cache, edit, owed, lapsed, crossed, spent>>
    BY DEF LookUp, server, session, data, history, fixed
  <1>2. auth.op = "register" BY DEF LookUp
  <1>3. auth' \in Auths /\ auth'.op = auth.op /\ auth'.email = auth.email
    BY DEF LookUp, Reply, IInv, TypeOK, Auths, Stages, Statuses
  <1>4. TypeOK' BY <1>1, <1>2, <1>3 DEF IInv, TypeOK
  <1>5. OneAccountPerEmail' BY <1>1, FrameAccounts DEF IInv
  <1>6. TokensInv' BY <1>1, FrameTokens DEF IInv
  <1>7. AuthInv'
    BY <1>1, <1>2, <1>3 DEF IInv, AuthInv
  <1>8. SessionInv' BY <1>1, FrameSession DEF IInv
  <1>9. AskInv' BY <1>1, FrameAsk DEF IInv
  <1>10. DebtInv' BY <1>1, FrameDebt DEF IInv
  <1>11. EditInv' BY <1>1, FrameEdit DEF IInv
  <1>12. CacheInv' BY <1>1, FrameCache DEF IInv
  <1> QED BY <1>4, <1>5, <1>6, <1>7, <1>8, <1>9, <1>10, <1>11, <1>12 DEF IInv

LEMMA KeepsInsertUser ==
    ASSUME IInv, InsertUser PROVE IInv'
  <1>1. UNCHANGED <<disabled, changes, cookies, cookie, token, user, ask, route,
                   key, cache, edit, owed, lapsed, crossed, spent>>
    BY DEF InsertUser, server, session, data, history, fixed
  <1>2. auth.stage = "hashing" /\ auth.email \in Emails BY DEF InsertUser, IInv, AuthInv
  <1>3. auth' \in Auths /\ auth'.op = auth.op /\ auth'.email = auth.email /\ auth'.stage = "answered"
    BY DEF InsertUser, Reply, IInv, TypeOK, Auths, Stages, Statuses
  <1>4. rows' = rows \/ (rows[auth.email] = 0 /\ rows' = [rows EXCEPT ![auth.email] = @ + 1])
    BY DEF InsertUser, CanInsert
  <1>5. rows' \in [Emails -> Nat] BY <1>2, <1>4 DEF IInv, TypeOK
  <1>6. TypeOK' BY <1>1, <1>2, <1>3, <1>4, <1>5 DEF IInv, TypeOK
  <1>7. OneAccountPerEmail'
    BY <1>2, <1>4 DEF IInv, TypeOK, OneAccountPerEmail
  <1>8. TokensInv' BY <1>1, FrameTokens DEF IInv
  <1>9. AuthInv'
    BY <1>1, <1>2, <1>3, <1>4, <1>5 DEF IInv, AuthInv
  <1>10. SessionInv' BY <1>1, FrameSession DEF IInv
  <1>11. AskInv' BY <1>1, FrameAsk DEF IInv
  <1>12. DebtInv' BY <1>1, FrameDebt DEF IInv
  <1>13. EditInv' BY <1>1, FrameEdit DEF IInv
  <1>14. CacheInv' BY <1>1, FrameCache DEF IInv
  <1> QED BY <1>6, <1>7, <1>8, <1>9, <1>10, <1>11, <1>12, <1>13, <1>14 DEF IInv

LEMMA KeepsLogOut ==
    ASSUME IInv, LogOut PROVE IInv'
  <1>1. UNCHANGED <<rows, disabled, changes, cookies, cookie, token, user, ask,
                   route, key, cache, edit, owed, lapsed, crossed, spent>>
    BY DEF LogOut, server, session, data, history, fixed
  <1>2. auth' \in Auths /\ auth'.op = auth.op /\ auth'.email = auth.email /\ auth'.stage = "answered"
    BY DEF LogOut, Reply, IInv, TypeOK, Auths, Stages, Statuses
  <1>3. TypeOK' BY <1>1, <1>2 DEF IInv, TypeOK
  <1>4. OneAccountPerEmail' BY <1>1, FrameAccounts DEF IInv
  <1>5. TokensInv' BY <1>1, FrameTokens DEF IInv
  <1>6. AuthInv'
    BY <1>1, <1>2 DEF IInv, AuthInv
  <1>7. SessionInv' BY <1>1, FrameSession DEF IInv
  <1>8. AskInv' BY <1>1, FrameAsk DEF IInv
  <1>9. DebtInv' BY <1>1, FrameDebt DEF IInv
  <1>10. EditInv' BY <1>1, FrameEdit DEF IInv
  <1>11. CacheInv' BY <1>1, FrameCache DEF IInv
  <1> QED BY <1>3, <1>4, <1>5, <1>6, <1>7, <1>8, <1>9, <1>10, <1>11 DEF IInv

LEMMA KeepsStartLogOut ==
    ASSUME IInv, StartLogOut PROVE IInv'
  <1>1. UNCHANGED <<rows, disabled, changes, cookies, cookie, token, user, ask,
                   route, key, cache, edit, owed, lapsed, crossed, spent>>
    BY DEF StartLogOut, server, session, data, history, fixed
  <1>2. auth' = [NoAuth EXCEPT !.op = "logout", !.stage = "sent"] BY DEF StartLogOut
  <1>3. auth' \in Auths /\ auth'.op = "logout" /\ auth'.stage = "sent"
    BY <1>2, Blank DEF Auths, Stages
  <1>4. TypeOK' BY <1>1, <1>2, <1>3 DEF IInv, TypeOK
  <1>5. OneAccountPerEmail' BY <1>1, FrameAccounts DEF IInv
  <1>6. TokensInv' BY <1>1, FrameTokens DEF IInv
  <1>7. AuthInv'
    BY <1>1, <1>2, <1>3 DEF AuthInv
  <1>8. SessionInv' BY <1>1, FrameSession DEF IInv
  <1>9. AskInv' BY <1>1, FrameAsk DEF IInv
  <1>10. DebtInv' BY <1>1, FrameDebt DEF IInv
  <1>11. EditInv' BY <1>1, FrameEdit DEF IInv
  <1>12. CacheInv' BY <1>1, FrameCache DEF IInv
  <1> QED BY <1>4, <1>5, <1>6, <1>7, <1>8, <1>9, <1>10, <1>11, <1>12 DEF IInv

LEMMA KeepsOtherRegisters ==
    ASSUME IInv, NEW e \in Emails, OtherRegisters(e) PROVE IInv'
  <1>1. UNCHANGED <<disabled, changes, cookies, cookie, token, user, ask, auth,
                   route, key, cache, edit, owed, lapsed, crossed>>
    BY DEF OtherRegisters, Budget, server, session, data, history, fixed
  <1>2. rows[e] = 0 /\ rows' = [rows EXCEPT ![e] = @ + 1] BY DEF OtherRegisters, CanInsert
  <1>3. spent' \in [signIns : Nat, edits : Nat, faults : Nat, loads : Nat]
    BY DEF OtherRegisters, Budget, IInv, TypeOK
  <1>4. TypeOK' BY <1>1, <1>2, <1>3 DEF IInv, TypeOK
  <1>5. OneAccountPerEmail'
    BY <1>2 DEF IInv, TypeOK, OneAccountPerEmail
  <1>6. TokensInv' BY <1>1, FrameTokens DEF IInv
  <1>7. AuthInv' BY <1>1, FrameAuth DEF IInv
  <1>8. SessionInv' BY <1>1, FrameSession DEF IInv
  <1>9. AskInv' BY <1>1, FrameAsk DEF IInv
  <1>10. DebtInv' BY <1>1, FrameDebt DEF IInv
  <1>11. EditInv' BY <1>1, FrameEdit DEF IInv
  <1>12. CacheInv' BY <1>1, FrameCache DEF IInv
  <1> QED BY <1>4, <1>5, <1>6, <1>7, <1>8, <1>9, <1>10, <1>11, <1>12 DEF IInv

LEMMA KeepsDisable ==
    ASSUME IInv, NEW e \in Emails, Disable(e) PROVE IInv'
  <1>1. UNCHANGED <<rows, changes, cookies, cookie, token, user, ask, auth,
                   route, key, cache, edit, owed, lapsed, crossed>>
    BY DEF Disable, Budget, server, session, data, history, fixed
  <1>2. disabled' \subseteq Emails BY DEF Disable, IInv, TypeOK
  <1>3. spent' \in [signIns : Nat, edits : Nat, faults : Nat, loads : Nat]
    BY DEF Disable, Budget, IInv, TypeOK
  <1>4. TypeOK' BY <1>1, <1>2, <1>3 DEF IInv, TypeOK
  <1>5. OneAccountPerEmail' BY <1>1, FrameAccounts DEF IInv
  <1>6. TokensInv' BY <1>1, FrameTokens DEF IInv
  <1>7. AuthInv' BY <1>1, FrameAuth DEF IInv
  <1>8. SessionInv' BY <1>1, FrameSession DEF IInv
  <1>9. AskInv' BY <1>1, FrameAsk DEF IInv
  <1>10. DebtInv' BY <1>1, FrameDebt DEF IInv
  <1>11. EditInv' BY <1>1, FrameEdit DEF IInv
  <1>12. CacheInv' BY <1>1, FrameCache DEF IInv
  <1> QED BY <1>4, <1>5, <1>6, <1>7, <1>8, <1>9, <1>10, <1>11, <1>12 DEF IInv

LEMMA KeepsAnswerFetch ==
    ASSUME IInv, AnswerFetch PROVE IInv'
  <1>1. UNCHANGED <<rows, disabled, changes, cookies, cookie, token, user, ask,
                   auth, route, key, edit, owed, lapsed, crossed, spent>>
    BY DEF AnswerFetch, server, session, data, history, fixed
  <1>2. cache.stage = "sent" BY DEF AnswerFetch
  <1>3. /\ cache' \in Entries /\ cache'.stage = "answered" /\ cache'.by = cache.by
        /\ cache'.shared = cache.shared
        /\ cache'.status = "done" =>
             cache.by \in Emails /\ cache'.got = [of |-> cache.by, at |-> changes[cache.by]]
    BY DEF AnswerFetch, IInv, TypeOK, Entries, Answers, Stages, Statuses
  <1>4. TypeOK' BY <1>1, <1>2, <1>3 DEF IInv, TypeOK
  <1>5. OneAccountPerEmail' BY <1>1, FrameAccounts DEF IInv
  <1>6. TokensInv' BY <1>1, FrameTokens DEF IInv
  <1>7. AuthInv' BY <1>1, FrameAuth DEF IInv
  <1>8. SessionInv' BY <1>1, FrameSession DEF IInv
  <1>9. AskInv' BY <1>1, FrameAsk DEF IInv
  <1>10. DebtInv' BY <1>1, FrameDebt DEF IInv
  <1>11. EditInv' BY <1>1, FrameEdit DEF IInv
  <1>12. CacheInv'
    <2>1. Observed' = Observed BY <1>1, FrameShown
    <2>2. Observed => user \in Emails BY DEF Observed, Reads, Shown, PageFor, Routes, Page
    <2> QED BY <1>1, <1>2, <1>3, <2>1, <2>2 DEF IInv, TypeOK, DebtInv, CacheInv, Right
  <1> QED BY <1>4, <1>5, <1>6, <1>7, <1>8, <1>9, <1>10, <1>11, <1>12 DEF IInv

LEMMA KeepsReceiveAsk ==
    ASSUME IInv, ReceiveAsk PROVE IInv'
  <1>1. UNCHANGED <<rows, disabled, changes, cookies, cookie, token, auth, key,
                   edit, owed, lapsed, crossed, spent>>
    BY DEF ReceiveAsk, server, session, data, history, fixed
  <1>2. /\ ask.stage = "answered" /\ ask' = NoAsk
        /\ user' = IF ask.got = "unknown" THEN user ELSE ask.got
        /\ route' = Redirect(user', route) /\ cache' = Turn(cache, user', route', Creds)
    BY DEF ReceiveAsk
  <1>3. ask' \in Asks /\ ask'.stage = "idle" /\ ask'.got = "unknown" BY <1>2, Blank
  <1>4. user' \in Users \cup {"unknown"} BY <1>2 DEF IInv, TypeOK, Asks
  <1>5. route' \in Routes \cup {"signin"} BY <1>2 DEF Redirect, IInv, TypeOK, Routes, Page
  <1>6. ASSUME ~crossed PROVE ~SignedIn /\ (user' \in Emails => user' = ask.by /\ Own(user') /\ (~lapsed => Creds = user'))
    BY <1>2, <1>6, EmailsAssumption DEF IInv, AskInv, SignedIn
  <1>7. Creds \in Sessions BY CredsType DEF IInv
  <1>8. cache' \in Entries /\ CacheInv'
    <2>1. owed' \in [Emails -> Nat] BY <1>1 DEF IInv, TypeOK
    <2>2. ~crossed' /\ user' \in Emails => (Creds \in Emails => Creds = user')
      BY <1>1, <1>6, OwnCreds
    <2>3. key \in Lasting /\ user' \in Emails => owed'[user'] = 0
      BY <1>1, NothingOwed DEF IInv
    <2>4. Observed => SignedIn BY ReadersAreUsers DEF Observed, Shown, SignedIn
    <2> QED BY <1>1, <1>2, <1>6, <1>7, <2>1, <2>2, <2>3, <2>4, TurnKeeps DEF IInv, TypeOK
  <1>9. TypeOK' BY <1>1, <1>2, <1>3, <1>4, <1>5, <1>6, <1>7, <1>8 DEF IInv, TypeOK
  <1>10. OneAccountPerEmail' BY <1>1, FrameAccounts DEF IInv
  <1>11. TokensInv' BY <1>1, FrameTokens DEF IInv
  <1>12. AuthInv' BY <1>1, FrameAuth DEF IInv
  <1>13. SessionInv'
    BY <1>1, <1>6 DEF SessionInv, SignedIn, Own, Creds, CredsOf
  <1>14. AskInv'
    BY <1>3, EmailsAssumption DEF AskInv
  <1>15. DebtInv' BY <1>1, FrameDebt DEF IInv
  <1>16. EditInv'
    <2>1. ~crossed => ~SignedIn BY <1>6
    <2> QED BY <1>1, <2>1 DEF IInv, EditInv
  <1>17. CacheInv'
    BY <1>8
  <1> QED BY <1>9, <1>10, <1>11, <1>12, <1>13, <1>14, <1>15, <1>16, <1>17 DEF IInv

LEMMA KeepsGoTo ==
    ASSUME IInv, NEW r \in Stops(key), GoTo(r) PROVE IInv'
  <1>1. UNCHANGED <<rows, disabled, changes, cookies, cookie, token, user, ask,
                   auth, key, owed, lapsed, crossed, spent>>
    BY DEF GoTo, server, session, data, history, fixed
  <1>2. /\ SignedIn /\ route' = r /\ cache' = Turn(cache, user', route', Creds)
        /\ edit' = [edit EXCEPT !.stays = FALSE]
    BY <1>1 DEF GoTo
  <1>3. /\ edit' \in Forms /\ edit'.stays = FALSE /\ edit'.stage = edit.stage /\ edit'.by = edit.by
        /\ edit'.at = edit.at /\ edit'.status = edit.status /\ edit'.op = edit.op /\ edit'.page = edit.page
    BY <1>2 DEF IInv, TypeOK, Forms
  <1>4. route' \in Routes \cup {"signin"} BY <1>2, StopsAreRoutes
  <1>5. Creds \in Sessions BY CredsType DEF IInv
  <1>6. cache' \in Entries /\ CacheInv'
    <2>1. owed' \in [Emails -> Nat] BY <1>1 DEF IInv, TypeOK
    <2>2. ~crossed' /\ user' \in Emails => (Creds \in Emails => Creds = user')
      BY <1>1, <1>2, OwnCreds DEF IInv, SessionInv, SignedIn
    <2>3. key \in Lasting /\ user' \in Emails => owed'[user'] = 0
      BY <1>1, NothingOwed DEF IInv
    <2>4. ~crossed' /\ Observed => Right(cache, user', owed'[user'])
      BY <1>1 DEF IInv, CacheInv
    <2> QED BY <1>1, <1>2, <1>5, <2>1, <2>2, <2>3, <2>4, TurnKeeps DEF IInv, TypeOK
  <1>7. TypeOK' BY <1>1, <1>2, <1>3, <1>4, <1>5, <1>6 DEF IInv, TypeOK
  <1>8. OneAccountPerEmail' BY <1>1, FrameAccounts DEF IInv
  <1>9. TokensInv' BY <1>1, FrameTokens DEF IInv
  <1>10. AuthInv' BY <1>1, FrameAuth DEF IInv
  <1>11. SessionInv' BY <1>1, FrameSession DEF IInv
  <1>12. AskInv' BY <1>1, FrameAsk DEF IInv
  <1>13. DebtInv'
    BY <1>1, <1>3 DEF IInv, DebtInv
  <1>14. EditInv'
    BY <1>1, <1>3 DEF IInv, EditInv
  <1>15. CacheInv'
    BY <1>6
  <1> QED BY <1>7, <1>8, <1>9, <1>10, <1>11, <1>12, <1>13, <1>14, <1>15 DEF IInv

LEMMA KeepsReceiveFetch ==
    ASSUME IInv, ReceiveFetch PROVE IInv'
  <1>1. UNCHANGED <<rows, disabled, changes, cookies, cookie, user, ask, auth,
                   route, key, edit, owed, crossed, spent>>
    BY DEF ReceiveFetch, server, session, data, history, fixed
  <1>2. cache.stage = "answered" /\ (Refused \/ UNCHANGED <<token, lapsed>>) BY DEF ReceiveFetch
  <1>3. token' \in Sessions /\ lapsed' \in BOOLEAN /\ TokensInv' /\ SessionInv' /\ AskInv'
    <2>1. CASE Refused
      <3>1. UNCHANGED <<ask, user, cookie, crossed>> BY <1>1
      <3> QED BY <2>1, <3>1, RefusedKeeps
    <2>2. CASE UNCHANGED <<token, lapsed>>
      <3>1. UNCHANGED <<ask, user, cookie, crossed, token, lapsed>> BY <1>1, <2>2
      <3>2. TokensInv' BY <3>1, FrameTokens DEF IInv
      <3>3. SessionInv' BY <3>1, FrameSession DEF IInv
      <3>4. AskInv' BY <3>1, FrameAsk DEF IInv
      <3> QED BY <3>1, <3>2, <3>3, <3>4 DEF IInv, TypeOK
    <2> QED BY <2>1, <2>2, <1>2
  <1>4. \/ /\ cache.status = "done"
           /\ cache' = [Settled(cache) EXCEPT !.shows = cache.got, !.failed = FALSE,
                                              !.borrowed = cache.shared]
        \/ cache' = [cache EXCEPT !.stage = "waiting"]
        \/ cache' = [Settled(cache) EXCEPT !.failed = TRUE]
    BY DEF ReceiveFetch
  <1>5. cache' \in Entries /\ (Right(cache, user, owed[user]) => Right(cache', user, owed[user]))
    <2>0. cache \in Entries /\ Settled(cache) \in Entries
      BY DEF IInv, TypeOK, Settled, Entries, Sessions, Stages, Statuses
    <2>1. CASE /\ cache.status = "done"
               /\ cache' = [Settled(cache) EXCEPT !.shows = cache.got, !.failed = FALSE,
                                                  !.borrowed = cache.shared]
      <3>1. cache' \in Entries BY <2>0, <2>1 DEF Entries
      <3>2. /\ cache'.stage = "idle" /\ cache'.shows = cache.got
            /\ cache'.borrowed = cache.shared
        BY <2>0, <2>1 DEF Settled, Entries
      <3> QED BY <1>2, <2>0, <2>1, <3>1, <3>2 DEF Right, Entries
    <2>2. CASE cache' = [cache EXCEPT !.stage = "waiting"]
      BY <2>0, <2>2, <1>2 DEF Entries, Stages, Right
    <2>3. CASE cache' = [Settled(cache) EXCEPT !.failed = TRUE]
      BY <2>0, <2>3 DEF Entries, Settled, Right
    <2> QED BY <1>4, <2>1, <2>2, <2>3
  <1>6. TypeOK' BY <1>1, <1>2, <1>3, <1>4, <1>5 DEF IInv, TypeOK
  <1>7. OneAccountPerEmail' BY <1>1, FrameAccounts DEF IInv
  <1>8. TokensInv'
    BY <1>3
  <1>9. AuthInv' BY <1>1, FrameAuth DEF IInv
  <1>10. SessionInv'
    BY <1>3
  <1>11. AskInv'
    BY <1>3
  <1>12. DebtInv' BY <1>1, FrameDebt DEF IInv
  <1>13. EditInv' BY <1>1, FrameEdit DEF IInv
  <1>14. CacheInv'
    BY <1>1, <1>5, FrameShown DEF IInv, CacheInv, Right
  <1> QED BY <1>6, <1>7, <1>8, <1>9, <1>10, <1>11, <1>12, <1>13, <1>14 DEF IInv

LEMMA KeepsRetry ==
    ASSUME IInv, Retry PROVE IInv'
  <1>1. UNCHANGED <<rows, disabled, changes, cookies, cookie, token, user, ask,
                   auth, route, key, edit, owed, lapsed, crossed, spent>>
    BY DEF Retry, server, session, data, history, fixed
  <1>2. Creds \in Sessions /\ cache \in Entries BY CredsType DEF IInv, TypeOK
  <1>3. \/ cache' = [Send(cache, Creds) EXCEPT !.retried = TRUE, !.shared = cache.shared]
        \/ cache' = [Settled(cache) EXCEPT !.failed = TRUE]
    BY DEF Retry
  <1>4. /\ cache' \in Entries
        /\ \/ cache'.stage = "sent" /\ cache'.by = Creds
           \/ cache'.stage = "idle" /\ cache'.failed
    <2>1. Send(cache, Creds) \in Entries /\ Settled(cache) \in Entries
      BY <1>2, SendType DEF Settled, Entries, Sessions, Stages, Statuses
    <2>2. Send(cache, Creds).stage = "sent" /\ Send(cache, Creds).by = Creds
          /\ Settled(cache).stage = "idle"
      BY <1>2 DEF Send, Settled, Entries
    <2> QED BY <1>2, <1>3, <2>1, <2>2 DEF Entries
  <1>5. TypeOK' BY <1>1, <1>2, <1>3, <1>4 DEF IInv, TypeOK
  <1>6. OneAccountPerEmail' BY <1>1, FrameAccounts DEF IInv
  <1>7. TokensInv' BY <1>1, FrameTokens DEF IInv
  <1>8. AuthInv' BY <1>1, FrameAuth DEF IInv
  <1>9. SessionInv' BY <1>1, FrameSession DEF IInv
  <1>10. AskInv' BY <1>1, FrameAsk DEF IInv
  <1>11. DebtInv' BY <1>1, FrameDebt DEF IInv
  <1>12. EditInv' BY <1>1, FrameEdit DEF IInv
  <1>13. CacheInv'
    <2>1. Observed => SignedIn BY ReadersAreUsers DEF Observed, Shown, SignedIn
    <2>2. SignedIn /\ ~crossed => (Creds \in Emails => Creds = user)
      BY OwnCreds DEF IInv, SessionInv, SignedIn
    <2> QED BY <1>1, <1>4, <2>1, <2>2, FrameShown DEF CacheInv, Right
  <1> QED BY <1>5, <1>6, <1>7, <1>8, <1>9, <1>10, <1>11, <1>12, <1>13 DEF IInv

LEMMA KeepsStrayAnswer ==
    ASSUME IInv, StrayAnswer PROVE IInv'
  <1>1. UNCHANGED <<rows, disabled, changes, cookies, cookie, user, ask, auth,
                   route, key, edit, owed, crossed, spent>>
    BY DEF StrayAnswer, server, session, data, history, fixed
  <1>2. cache' = [cache EXCEPT !.stray = FALSE] /\ (Refused \/ UNCHANGED <<token, lapsed>>) BY DEF StrayAnswer
  <1>3. token' \in Sessions /\ lapsed' \in BOOLEAN /\ TokensInv' /\ SessionInv' /\ AskInv'
    <2>1. CASE Refused
      <3>1. UNCHANGED <<ask, user, cookie, crossed>> BY <1>1
      <3> QED BY <2>1, <3>1, RefusedKeeps
    <2>2. CASE UNCHANGED <<token, lapsed>>
      <3>1. UNCHANGED <<ask, user, cookie, crossed, token, lapsed>> BY <1>1, <2>2
      <3>2. TokensInv' BY <3>1, FrameTokens DEF IInv
      <3>3. SessionInv' BY <3>1, FrameSession DEF IInv
      <3>4. AskInv' BY <3>1, FrameAsk DEF IInv
      <3> QED BY <3>1, <3>2, <3>3, <3>4 DEF IInv, TypeOK
    <2> QED BY <2>1, <2>2, <1>2
  <1>4. cache' \in Entries /\ (Right(cache, user, owed[user]) => Right(cache', user, owed[user]))
    BY <1>2 DEF IInv, TypeOK, Entries, Right
  <1>5. TypeOK' BY <1>1, <1>2, <1>3, <1>4 DEF IInv, TypeOK
  <1>6. OneAccountPerEmail' BY <1>1, FrameAccounts DEF IInv
  <1>7. TokensInv'
    BY <1>3
  <1>8. AuthInv' BY <1>1, FrameAuth DEF IInv
  <1>9. SessionInv'
    BY <1>3
  <1>10. AskInv'
    BY <1>3
  <1>11. DebtInv' BY <1>1, FrameDebt DEF IInv
  <1>12. EditInv' BY <1>1, FrameEdit DEF IInv
  <1>13. CacheInv'
    BY <1>1, <1>4, FrameShown DEF IInv, CacheInv, Right
  <1> QED BY <1>5, <1>6, <1>7, <1>8, <1>9, <1>10, <1>11, <1>12, <1>13 DEF IInv

LEMMA KeepsStartEdit ==
    ASSUME IInv, NEW o \in Edits, StartEdit(o) PROVE IInv'
  <1>1. UNCHANGED <<rows, disabled, changes, cookies, cookie, token, user, ask,
                   auth, route, key, cache, owed, lapsed, crossed>>
    BY DEF StartEdit, Budget, server, session, data, history, fixed
  <1>2. /\ Shown \in Routes /\ o \in DOMAIN Page[Shown].edits
        /\ edit' = [NoEdit EXCEPT !.op = o, !.page = Shown, !.by = Creds, !.stage = "sent"]
    BY DEF StartEdit, EditsOf
  <1>3. Creds \in Sessions BY CredsType DEF IInv
  <1>4. /\ edit' \in Forms /\ edit'.op = o /\ edit'.page = Shown /\ edit'.by = Creds /\ edit'.at = 0
        /\ edit'.stage = "sent" /\ edit'.status = "none" /\ edit'.stays = TRUE
    BY <1>2, <1>3, Blank DEF Forms, Stages
  <1>5. user \in Emails /\ Shown = route BY <1>2, Pageless DEF Shown, PageFor
  <1>6. ~crossed => (Creds \in Emails => Creds = user) BY <1>5, OwnCreds DEF IInv, SessionInv, SignedIn
  <1>7. spent' \in [signIns : Nat, edits : Nat, faults : Nat, loads : Nat]
    BY DEF StartEdit, Budget, IInv, TypeOK
  <1>8. TypeOK' BY <1>1, <1>2, <1>3, <1>4, <1>5, <1>6, <1>7 DEF IInv, TypeOK
  <1>9. OneAccountPerEmail' BY <1>1, FrameAccounts DEF IInv
  <1>10. TokensInv' BY <1>1, FrameTokens DEF IInv
  <1>11. AuthInv' BY <1>1, FrameAuth DEF IInv
  <1>12. SessionInv' BY <1>1, FrameSession DEF IInv
  <1>13. AskInv' BY <1>1, FrameAsk DEF IInv
  <1>14. DebtInv'
    BY <1>1, <1>4 DEF IInv, DebtInv, TypeOK
  <1>15. EditInv'
    BY <1>1, <1>2, <1>4, <1>5, <1>6 DEF EditInv, SignedIn
  <1>16. CacheInv' BY <1>1, FrameCache DEF IInv
  <1> QED BY <1>8, <1>9, <1>10, <1>11, <1>12, <1>13, <1>14, <1>15, <1>16 DEF IInv

LEMMA KeepsAnswerEdit ==
    ASSUME IInv, AnswerEdit PROVE IInv'
  <1>1. UNCHANGED <<rows, disabled, cookies, cookie, token, user, ask, auth,
                   route, key, cache, owed, lapsed, crossed, spent>>
    BY DEF AnswerEdit, server, session, data, history, fixed
  <1>2. edit.stage = "sent" /\ edit.op \in Edits /\ edit \in Forms BY DEF AnswerEdit, IInv, EditInv, TypeOK
  <1>3. /\ edit' \in Forms /\ edit'.stage = "answered" /\ edit'.by = edit.by /\ edit'.op = edit.op
        /\ edit'.page = edit.page /\ edit'.stays = edit.stays
        /\ (edit'.status = "done" => edit.by \in Emails)
    <2>1. CASE edit.by \in Emails
      <3> DEFINE at == IF key \in Changes(edit.op) THEN changes'[edit.by] ELSE 0
      <3>1. edit' = [edit EXCEPT !.stage = "answered", !.status = "done", !.at = at]
        BY <2>1 DEF AnswerEdit
      <3>2. at \in Nat
        <4>1. changes' = changes \/ changes' = [changes EXCEPT ![edit.by] = @ + 1]
          BY <2>1 DEF AnswerEdit
        <4> QED BY <2>1, <4>1 DEF IInv, TypeOK
      <3> HIDE DEF at
      <3> QED BY <1>2, <2>1, <3>1, <3>2 DEF Forms, Stages, Statuses
    <2>2. CASE edit.by \notin Emails
      <3>1. edit' = [edit EXCEPT !.stage = "answered", !.status = "unauthorized"]
        BY <2>2 DEF AnswerEdit
      <3> QED BY <1>2, <2>2, <3>1 DEF Forms, Stages, Statuses
    <2> QED BY <2>1, <2>2
  <1>4. \/ changes' = changes
        \/ /\ key \in Changes(edit.op) /\ edit.by \in Emails
           /\ changes' = [changes EXCEPT ![edit.by] = @ + 1]
    BY DEF AnswerEdit
  <1>5. changes' \in [Emails -> Nat] /\ \A e \in Emails : changes[e] <= changes'[e]
    BY <1>4 DEF IInv, TypeOK
  <1>6. edit.by \in Emails => edit'.at <= changes'[edit.by]
    <2>1. SUFFICES ASSUME edit.by \in Emails PROVE edit'.at <= changes'[edit.by]
      OBVIOUS
    <2>2. edit'.at = IF key \in Changes(edit.op) THEN changes'[edit.by] ELSE 0
      BY <1>2, <2>1 DEF AnswerEdit, Forms
    <2> QED BY <1>5, <2>1, <2>2
  <1>7. TypeOK' BY <1>1, <1>2, <1>3, <1>4, <1>5, <1>6 DEF IInv, TypeOK
  <1>8. OneAccountPerEmail' BY <1>1, FrameAccounts DEF IInv
  <1>9. TokensInv' BY <1>1, FrameTokens DEF IInv
  <1>10. AuthInv' BY <1>1, FrameAuth DEF IInv
  <1>11. SessionInv' BY <1>1, FrameSession DEF IInv
  <1>12. AskInv' BY <1>1, FrameAsk DEF IInv
  <1>13. DebtInv'
    <2>1. \A e \in Emails : owed[e] <= changes'[e]
      BY <1>5 DEF IInv, TypeOK, DebtInv
    <2>2. key \in Lasting => changes' = changes
      BY <1>2, <1>4, LastingNeverChanges
    <2> QED BY <1>1, <1>3, <1>6, <2>1, <2>2 DEF IInv, DebtInv
  <1>14. EditInv'
    BY <1>1, <1>2, <1>3 DEF IInv, EditInv, SignedIn
  <1>15. CacheInv' BY <1>1, FrameCache DEF IInv
  <1> QED BY <1>7, <1>8, <1>9, <1>10, <1>11, <1>12, <1>13, <1>14, <1>15 DEF IInv

LEMMA KeepsReceiveEdit ==
    ASSUME IInv, ReceiveEdit PROVE IInv'
  <1>1. UNCHANGED <<rows, disabled, changes, cookies, cookie, user, ask, auth,
                   key, crossed, spent>>
    BY DEF ReceiveEdit, server, session, data, history, fixed
  <1>2. /\ edit.stage = "answered" /\ edit' = NoEdit /\ edit \in Forms
        /\ edit.page \in Routes /\ edit.op \in Edits /\ edit.op \in DOMAIN Page[edit.page].edits
        /\ (edit.status = "done" => edit.by \in Emails)
    BY DEF ReceiveEdit, IInv, EditInv, TypeOK
  <1>3. Refused \/ UNCHANGED <<token, lapsed>> BY DEF ReceiveEdit
  <1>4. token' \in Sessions /\ lapsed' \in BOOLEAN /\ TokensInv' /\ SessionInv' /\ AskInv'
    <2>1. CASE Refused
      <3>1. UNCHANGED <<ask, user, cookie, crossed>> BY <1>1
      <3> QED BY <2>1, <3>1, RefusedKeeps
    <2>2. CASE UNCHANGED <<token, lapsed>>
      <3>1. UNCHANGED <<ask, user, cookie, crossed, token, lapsed>> BY <1>1, <2>2
      <3>2. TokensInv' BY <3>1, FrameTokens DEF IInv
      <3>3. SessionInv' BY <3>1, FrameSession DEF IInv
      <3>4. AskInv' BY <3>1, FrameAsk DEF IInv
      <3> QED BY <3>1, <3>2, <3>3, <3>4 DEF IInv, TypeOK
    <2> QED BY <2>1, <2>2, <1>3
  <1>5. CASE edit.status # "done"
    <2>1. UNCHANGED <<owed, route, cache>> BY <1>5 DEF ReceiveEdit
    <2>2. DebtInv' BY <1>1, <1>2, <2>1, Blank, EmailsAssumption DEF IInv, DebtInv
    <2>3. EditInv' BY <1>2, Blank DEF EditInv
    <2>4. CacheInv' BY <1>1, <2>1, FrameCache DEF IInv
    <2>5. TypeOK' BY <1>1, <1>2, <1>4, <2>1, Blank DEF IInv, TypeOK
    <2> QED BY <1>1, <1>4, <2>2, <2>3, <2>4, <2>5, FrameAccounts, FrameAuth DEF IInv
  <1>6. CASE edit.status = "done"
    <2> DEFINE next == Page[edit.page].edits[edit.op]
    <2> DEFINE c == IF Invalidates(edit.op, key)
                    THEN Invalidate(cache, Creds, Observed) ELSE cache
    <2>1. /\ owed' = IF edit.stays /\ key \in Changes(edit.op)
                     THEN [owed EXCEPT ![edit.by] = edit.at] ELSE owed
          /\ route' = IF next # edit.page THEN Redirect(user, next) ELSE route
          /\ cache' = Turn(c, user', route', Creds)
      BY <1>1, <1>6 DEF ReceiveEdit
    <2>2. edit.by \in Emails /\ next \in Routes BY <1>2, <1>6, HandlersLeadToPages
    <2>3. route' \in Routes \cup {"signin"}
      BY <2>1, <2>2 DEF Redirect, IInv, TypeOK, Routes, Page
    <2>4. owed' \in [Emails -> Nat] /\ \A e \in Emails : owed'[e] <= changes[e]
      BY <1>2, <2>1, <2>2 DEF IInv, TypeOK, DebtInv, Forms
    <2>5. DebtInv' BY <1>1, <1>2, <2>4, Blank, EmailsAssumption DEF IInv, DebtInv
    <2>6. EditInv' BY <1>2, Blank DEF EditInv
    <2>7. Creds \in Sessions /\ cache \in Entries /\ Observed \in BOOLEAN
      BY CredsType DEF IInv, TypeOK, Observed, Reads
    <2>8. c \in Entries BY <2>7, InvalidateRight
    <2>9. ~crossed' /\ user' \in Emails => (Creds \in Emails => Creds = user')
      BY <1>1, OwnCreds DEF IInv, SessionInv, SignedIn
    <2>10. key \in Lasting /\ user' \in Emails => owed'[user'] = 0
      BY <1>1, <2>4 DEF IInv, DebtInv, TypeOK
    <2>11. ASSUME ~crossed', Observed, PageFor(user', route') = Shown
           PROVE  Right(c, user', owed'[user'])
      <3>1. user \in Emails /\ route \in Routes /\ Shown = route /\ key \in Page[route].reads
        BY <2>11, ReadersAreUsers DEF Observed, Shown
      <3>2. CASE Invalidates(edit.op, key)
        BY <1>1, <2>7, <2>9, <2>11, <3>1, <3>2, InvalidateRight
      <3>3. CASE ~Invalidates(edit.op, key)
        <4>1. c = cache BY <3>3
        <4>2. owed' = owed
          <5>1. SUFFICES ASSUME edit.stays, key \in Changes(edit.op) PROVE FALSE
            BY <2>1
          <5>2. route = edit.page BY <1>1, <1>2, <2>11, <5>1 DEF IInv, EditInv
          <5>3. CASE next = edit.page
            BY <1>2, <3>1, <3>3, <5>1, <5>2, <5>3, HooksCoverPages
          <5>4. CASE next # edit.page
            <6>1. route' = next BY <2>1, <2>2, <3>1, <5>4, Pageless DEF Redirect
            <6>2. PageFor(user', route') = next BY <1>1, <2>2, <3>1, <6>1 DEF PageFor
            <6> QED BY <2>11, <3>1, <5>2, <5>4, <6>2
          <5> QED BY <5>3, <5>4
        <4> QED BY <1>1, <2>11, <4>1, <4>2 DEF IInv, CacheInv
      <3> QED BY <3>2, <3>3
    <2>12. cache' \in Entries /\ CacheInv'
      <3>1. UNCHANGED key BY <1>1
      <3> HIDE DEF c
      <3> QED BY <2>1, <2>4, <2>7, <2>8, <2>9, <2>10, <2>11, <3>1, TurnKeeps
    <2>13. TypeOK' BY <1>1, <1>2, <1>4, <2>3, <2>4, <2>12, Blank DEF IInv, TypeOK
    <2> QED BY <1>1, <1>4, <2>5, <2>6, <2>12, <2>13, FrameAccounts, FrameAuth DEF IInv
  <1> QED BY <1>5, <1>6

LEMMA KeepsReceiveAuth ==
    ASSUME IInv, ReceiveAuth PROVE IInv'
  <1>1. UNCHANGED <<rows, disabled, changes, cookies, ask, key, owed, spent>>
    BY DEF ReceiveAuth, server, session, data, history, fixed
  <1>2. auth.stage = "answered" /\ auth' = NoAuth /\ edit \in Forms /\ cache \in Entries
    BY DEF ReceiveAuth, IInv, TypeOK
  <1>3. CASE auth.status = "done" /\ EnterSession /\ lapsed' = FALSE /\ edit' = [edit EXCEPT !.stays = FALSE]
    <2> DEFINE e == auth.email
    <2>1. /\ e \in Emails /\ cookie' \in {e, "nobody"} /\ token' = e /\ user' = e
          /\ crossed' = (SignedIn \/ ask.stage # "idle")
          /\ route' \in {"dashboard"} \cup Stops(key)
          /\ cache' = Turn(cache, user', route', CredsOf(cookie', token'))
      BY <1>3 DEF EnterSession, TakeToken, IInv, AuthInv
    <2>2. route' \in Routes BY <2>1, StopsAreRoutes DEF Routes, Page
    <2>3. /\ edit' \in Forms /\ edit'.stays = FALSE /\ edit'.stage = edit.stage
          /\ edit'.by = edit.by /\ edit'.at = edit.at /\ edit'.status = edit.status
          /\ edit'.op = edit.op /\ edit'.page = edit.page
      BY <1>2, <1>3 DEF Forms
    <2>4. CredsOf(cookie', token') = e /\ Creds' = e /\ e \in Sessions
      BY <2>1, EmailsAssumption DEF Creds, CredsOf, Sessions
    <2>5. TokensInv' BY <2>1, EmailsAssumption DEF TokensInv
    <2>6. AuthInv' BY <1>2, Blank DEF AuthInv
    <2>7. SessionInv' BY <2>1, <2>4 DEF SessionInv, Own
    <2>8. AskInv' BY <1>1, <2>1 DEF IInv, AskInv
    <2>9. DebtInv' BY <1>1, <2>3 DEF IInv, DebtInv
    <2>10. EditInv' BY <1>1, <2>3 DEF IInv, EditInv
    <2>11. cache' \in Entries /\ CacheInv'
      <3>1. ~crossed' => ~Observed
        BY <2>1, ReadersAreUsers DEF Observed, Shown, SignedIn
      <3>2. owed' \in [Emails -> Nat] /\ (key \in Lasting => owed'[user'] = 0)
        BY <1>1, <2>1, NothingOwed DEF IInv, TypeOK
      <3>3. UNCHANGED key BY <1>1
      <3> QED BY <1>2, <2>1, <2>4, <3>1, <3>2, <3>3, TurnKeeps
    <2>12. TypeOK'
      <3>1. crossed' \in BOOLEAN BY <2>1 DEF SignedIn
      <3> QED BY <1>1, <1>2, <1>3, <2>1, <2>2, <2>3, <2>11, <3>1, Blank
        DEF IInv, TypeOK, Users, Sessions
    <2> QED BY <1>1, <2>5, <2>6, <2>7, <2>8, <2>9, <2>10, <2>11, <2>12, FrameAccounts DEF IInv
  <1>4. CASE auth.status = "done" /\ LeaveSession /\ lapsed' = FALSE /\ edit' = [edit EXCEPT !.stays = FALSE]
    <2>1. /\ cookie' = "nobody" /\ token' = "nobody" /\ user' = "nobody"
          /\ crossed' = (ask.stage # "idle") /\ route' = "signin" /\ UNCHANGED cache
      BY <1>4 DEF LeaveSession
    <2>2. ~SignedIn' BY <2>1, EmailsAssumption DEF SignedIn
    <2>3. /\ edit' \in Forms /\ edit'.stays = FALSE /\ edit'.stage = edit.stage
          /\ edit'.by = edit.by /\ edit'.at = edit.at /\ edit'.status = edit.status
          /\ edit'.op = edit.op /\ edit'.page = edit.page
      BY <1>2, <1>4 DEF Forms
    <2>4. TokensInv' /\ AuthInv' /\ SessionInv'
      BY <1>2, <2>1, <2>2, Blank, EmailsAssumption DEF TokensInv, AuthInv, SessionInv
    <2>5. AskInv' BY <1>1, <2>1 DEF IInv, AskInv
    <2>6. DebtInv' BY <1>1, <2>3 DEF IInv, DebtInv
    <2>7. EditInv' BY <1>1, <2>3 DEF IInv, EditInv
    <2>8. CacheInv'
      BY <2>2, Pageless DEF CacheInv, Observed, Reads, Shown, PageFor, SignedIn
    <2>9. TypeOK' BY <1>1, <1>2, <1>4, <2>1, <2>3, Blank DEF IInv, TypeOK, Users, Sessions
    <2> QED BY <1>1, <2>4, <2>5, <2>6, <2>7, <2>8, <2>9, FrameAccounts DEF IInv
  <1>5. CASE UNCHANGED <<cookie, user, route, cache, edit, crossed>> /\ (Refused \/ UNCHANGED <<token, lapsed>>)
    <2>1. token' \in Sessions /\ lapsed' \in BOOLEAN /\ TokensInv' /\ SessionInv' /\ AskInv'
      <3>1. UNCHANGED <<ask, user, cookie, crossed>> BY <1>1, <1>5
      <3>2. CASE Refused BY <3>1, <3>2, RefusedKeeps
      <3>3. CASE UNCHANGED <<token, lapsed>>
        <4>1. TokensInv' BY <3>1, <3>3, FrameTokens DEF IInv
        <4>2. SessionInv' BY <3>1, <3>3, FrameSession DEF IInv
        <4>3. AskInv' BY <3>1, <3>3, FrameAsk DEF IInv
        <4> QED BY <3>3, <4>1, <4>2, <4>3 DEF IInv, TypeOK
      <3> QED BY <1>5, <3>2, <3>3
    <2>2. AuthInv' BY <1>2, Blank DEF AuthInv
    <2>3. DebtInv' /\ EditInv' /\ CacheInv'
      BY <1>1, <1>5, FrameDebt, FrameEdit, FrameCache DEF IInv
    <2>4. TypeOK' BY <1>1, <1>2, <1>5, <2>1, Blank DEF IInv, TypeOK
    <2> QED BY <1>1, <2>1, <2>2, <2>3, <2>4, FrameAccounts DEF IInv
  <1> QED BY <1>3, <1>4, <1>5 DEF ReceiveAuth

LEMMA KeepsLoad ==
    ASSUME IInv, Load PROVE IInv'
  <1>1. UNCHANGED <<rows, disabled, changes, cookies, cookie, token, route, key,
                   owed>>
    BY DEF Load, Budget, server, session, data, history, fixed
  <1>2. /\ user' = "unknown" /\ auth' = NoAuth /\ edit' = NoEdit /\ cache' = NoEntry
        /\ ask' = [NoAsk EXCEPT !.stage = "sent", !.by = Creds]
        /\ lapsed' = FALSE /\ crossed' = FALSE
    BY DEF Load
  <1>3. /\ ask' \in Asks /\ ask'.stage = "sent" /\ ask'.by = Creds /\ ask'.got = "unknown"
    BY <1>2, CredsType, Blank DEF IInv, Asks, Stages
  <1>4. spent' \in [signIns : Nat, edits : Nat, faults : Nat, loads : Nat]
    BY DEF Load, Budget, IInv, TypeOK
  <1>5. ~SignedIn' BY <1>2, EmailsAssumption DEF SignedIn
  <1>6. TypeOK'
    BY <1>1, <1>2, <1>3, <1>4, Blank DEF IInv, TypeOK
  <1>7. TypeOK'
    BY <1>6
  <1>8. OneAccountPerEmail' BY <1>1, FrameAccounts DEF IInv
  <1>9. TokensInv' BY <1>1, FrameTokens DEF IInv
  <1>10. AuthInv'
    BY <1>2, Blank DEF AuthInv
  <1>11. SessionInv'
    BY <1>5 DEF SessionInv
  <1>12. AskInv'
    <2>1. Creds' = Creds BY <1>1 DEF Creds, CredsOf
    <2>2. Creds \in Emails => Own(Creds) BY EmailsAssumption DEF IInv, TypeOK, Users, Sessions, TokensInv, Own, Creds, CredsOf
    <2>3. Creds \in Emails => Own(Creds)' BY <1>1, <2>1, <2>2 DEF Own
    <2> QED BY <1>3, <1>5, <2>1, <2>3, EmailsAssumption DEF AskInv, Own
  <1>13. DebtInv'
    BY <1>1, <1>2, Blank, EmailsAssumption DEF IInv, DebtInv
  <1>14. EditInv'
    BY <1>2, Blank DEF EditInv
  <1>15. CacheInv'
    BY <1>5, Pageless DEF CacheInv, Observed, Reads, Shown, PageFor, SignedIn
  <1> QED BY <1>7, <1>8, <1>9, <1>10, <1>11, <1>12, <1>13, <1>14, <1>15 DEF IInv

LEMMA KeepsLose ==
    ASSUME IInv, Lose PROVE IInv'
  <1>1. UNCHANGED <<rows, disabled, changes, cookies, cookie, token, user, route,
                   key, owed, lapsed, crossed>>
    BY DEF Lose, Budget, server, session, data, history, fixed
  <1>2. ask \in Asks /\ auth \in Auths /\ cache \in Entries /\ edit \in Forms BY DEF IInv, TypeOK
  <1>3. spent' \in [signIns : Nat, edits : Nat, faults : Nat, loads : Nat]
    BY DEF Lose, Budget, IInv, TypeOK
  <1>4. CASE /\ ask.stage \in {"sent", "answered"} /\ UNCHANGED <<auth, cache, edit>>
           /\ ask' = [ask EXCEPT !.stage = "answered", !.got = "unknown"]
    <2>1. /\ ask' \in Asks /\ ask'.stage = "answered" /\ ask'.got = "unknown"
          /\ ask'.by = ask.by
      BY <1>2, <1>4 DEF Asks, Stages
    <2>2. AskInv'
      BY <1>1, <1>4, <2>1, EmailsAssumption DEF IInv, AskInv, SignedIn, Own, Creds, CredsOf
    <2>3. TypeOK' BY <1>1, <1>3, <1>4, <2>1 DEF IInv, TypeOK
    <2> QED BY <1>1, <1>4, <2>2, <2>3, FrameAccounts, FrameTokens, FrameAuth, FrameSession,
         FrameDebt, FrameEdit, FrameCache DEF IInv
  <1>5. CASE /\ auth.stage \in {"sent", "hashing", "answered"} /\ UNCHANGED <<ask, cache, edit>>
           /\ auth' = [auth EXCEPT !.stage = "answered", !.status = "lost"]
    <2>1. /\ auth' \in Auths /\ auth'.op = auth.op /\ auth'.email = auth.email
          /\ auth'.stage = "answered"
      BY <1>2, <1>5 DEF Auths, Stages, Statuses
    <2>2. AuthInv' BY <2>1 DEF IInv, AuthInv
    <2>3. TypeOK' BY <1>1, <1>3, <1>5, <2>1 DEF IInv, TypeOK
    <2> QED BY <1>1, <1>5, <2>2, <2>3, FrameAccounts, FrameTokens, FrameAsk, FrameSession,
         FrameDebt, FrameEdit, FrameCache DEF IInv
  <1>6. CASE /\ cache.stage \in {"sent", "answered"} /\ UNCHANGED <<ask, auth, edit>>
           /\ cache' = [cache EXCEPT !.stage = "answered", !.status = "lost"]
    <2>1. /\ cache' \in Entries /\ cache'.stage = "answered" /\ cache'.status = "lost"
          /\ cache'.by = cache.by /\ cache'.shared = cache.shared
      BY <1>2, <1>6 DEF Entries, Stages, Statuses
    <2>2. CacheInv'
      BY <1>1, <1>6, <2>1, FrameShown DEF IInv, CacheInv, Right
    <2>3. TypeOK' BY <1>1, <1>3, <1>6, <2>1 DEF IInv, TypeOK
    <2> QED BY <1>1, <1>6, <2>2, <2>3, FrameAccounts, FrameTokens, FrameAsk, FrameAuth,
         FrameSession, FrameDebt, FrameEdit DEF IInv
  <1>7. CASE /\ edit.stage \in {"sent", "answered"} /\ UNCHANGED <<ask, auth, cache>>
           /\ edit' = [edit EXCEPT !.stage = "answered", !.status = "lost"]
    <2>1. /\ edit' \in Forms /\ edit'.stage = "answered" /\ edit'.status = "lost"
          /\ edit'.by = edit.by /\ edit'.at = edit.at /\ edit'.op = edit.op
          /\ edit'.page = edit.page /\ edit'.stays = edit.stays
      BY <1>2, <1>7 DEF Forms, Stages, Statuses
    <2>2. DebtInv' BY <1>1, <2>1 DEF IInv, DebtInv
    <2>3. EditInv' BY <1>1, <1>7, <2>1 DEF IInv, EditInv, SignedIn
    <2>4. TypeOK' BY <1>1, <1>3, <1>7, <2>1 DEF IInv, TypeOK
    <2> QED BY <1>1, <1>7, <2>2, <2>3, <2>4, FrameAccounts, FrameTokens, FrameAsk, FrameAuth,
         FrameSession, FrameCache DEF IInv
  <1> QED BY <1>4, <1>5, <1>6, <1>7 DEF Lose

LEMMA KeepsExpire ==
    ASSUME IInv, Expire PROVE IInv'
  <1>1. UNCHANGED <<rows, disabled, changes, cookies, user, auth, route, key,
                   owed, crossed>>
    BY DEF Expire, Budget, server, session, data, history, fixed
  <1>2. ask \in Asks /\ cache \in Entries /\ edit \in Forms /\ token \in Sessions BY DEF IInv, TypeOK
  <1>3. spent' \in [signIns : Nat, edits : Nat, faults : Nat, loads : Nat]
    BY DEF Expire, Budget, IInv, TypeOK
  <1>4. \A s \in Sessions : Expired(s) \in Sessions /\ Expired(s) \notin Emails
    BY EmailsAssumption DEF Expired, Sessions
  <1>5. cookie' = "nobody" /\ token' = Expired(token) /\ lapsed' = TRUE BY DEF Expire
  <1>6. /\ ask' \in Asks /\ ask'.stage = ask.stage /\ ask'.got = ask.got
        /\ ask'.by = ask.by \/ (ask.stage = "sent" /\ ask'.by \notin Emails)
    <2>1. ask' = ask \/ (ask.stage = "sent" /\ ask' = [ask EXCEPT !.by = Expired(ask.by)])
      BY DEF Expire
    <2>2. ask.by \in Sessions BY <1>2 DEF Asks
    <2> QED BY <1>2, <1>4, <2>1, <2>2 DEF Asks
  <1>7. /\ cache' \in Entries
        /\ \/ cache' = cache
           \/ cache.stage = "sent" /\ cache'.stage = "sent" /\ cache'.by \notin Emails
    <2>1. \/ cache' = cache
          \/ cache.stage = "sent" /\ cache' = [cache EXCEPT !.by = Expired(cache.by)]
      BY DEF Expire
    <2>2. cache.by \in Sessions BY <1>2 DEF Entries
    <2> QED BY <1>2, <1>4, <2>1, <2>2 DEF Entries
  <1>8. /\ edit' \in Forms /\ edit'.stage = edit.stage /\ edit'.status = edit.status
        /\ edit'.at = edit.at /\ edit'.op = edit.op /\ edit'.page = edit.page
        /\ edit'.stays = edit.stays
        /\ edit'.by = edit.by \/ (edit.stage = "sent" /\ edit'.by \notin Emails)
    <2>1. \/ edit' = edit
          \/ edit.stage = "sent" /\ edit' = [edit EXCEPT !.by = Expired(edit.by)]
      BY DEF Expire
    <2>2. edit.by \in Sessions BY <1>2 DEF Forms
    <2> QED BY <1>2, <1>4, <2>1, <2>2 DEF Forms
  <1>9. \A u \in Emails : Own(u) => Own(u)'
    BY <1>2, <1>5, EmailsAssumption DEF Own, Expired
  <1>10. TypeOK'
    BY <1>1, <1>2, <1>3, <1>4, <1>5, <1>6, <1>7, <1>8 DEF IInv, TypeOK, Users
  <1>11. OneAccountPerEmail' BY <1>1, FrameAccounts DEF IInv
  <1>12. TokensInv'
    BY <1>5, EmailsAssumption DEF TokensInv
  <1>13. AuthInv' BY <1>1, FrameAuth DEF IInv
  <1>14. SessionInv'
    BY <1>1, <1>5, <1>9 DEF IInv, SessionInv, SignedIn
  <1>15. AskInv'
    BY <1>1, <1>5, <1>6, <1>9, EmailsAssumption DEF IInv, AskInv, SignedIn
  <1>16. DebtInv'
    BY <1>1, <1>8 DEF IInv, DebtInv
  <1>17. EditInv'
    BY <1>1, <1>8 DEF IInv, EditInv, SignedIn
  <1>18. CacheInv'
    BY <1>1, <1>7, FrameShown DEF IInv, CacheInv, Right
  <1> QED BY <1>10, <1>11, <1>12, <1>13, <1>14, <1>15, <1>16, <1>17, <1>18 DEF IInv

---------------------------------------------------------------------------
\* The theorems.

LEMMA FixedKeeps == ASSUME IInv, UNCHANGED vars PROVE IInv'
  <1>1. UNCHANGED <<rows, disabled, changes, cookies, cookie, token, user, ask, auth, route,
                    key, cache, edit, owed, lapsed, crossed, spent>>
    BY DEF vars, server, session, data, history, fixed
  <1>2. TypeOK' BY <1>1 DEF IInv, TypeOK
  <1> QED BY <1>1, <1>2, FrameAccounts, FrameTokens, FrameAuth, FrameSession, FrameAsk,
       FrameDebt, FrameEdit, FrameCache DEF IInv

LEMMA NextKeeps == ASSUME IInv, Next PROVE IInv'
  <1>1. CASE AskStep
    BY <1>1, KeepsReconnect, KeepsAnswerAsk, KeepsReceiveAsk DEF AskStep
  <1>2. CASE AuthStep
    <2>1. "login" \in {"login", "register"} /\ "register" \in {"login", "register"} OBVIOUS
    <2> QED BY <1>2, <2>1, KeepsStartAuth, KeepsLogIn, KeepsLookUp, KeepsInsertUser,
         KeepsStartLogOut, KeepsLogOut, KeepsReceiveAuth, KeepsOtherRegisters DEF AuthStep
  <1>3. CASE FetchStep
    BY <1>3, KeepsAnswerFetch, KeepsReceiveFetch, KeepsRetry, KeepsStrayAnswer DEF FetchStep
  <1>4. CASE PageStep
    BY <1>4, KeepsGoTo, KeepsStartEdit, KeepsAnswerEdit, KeepsReceiveEdit DEF PageStep
  <1>5. CASE WorldStep
    BY <1>5, KeepsLoad, KeepsLose, KeepsExpire, KeepsDisable DEF WorldStep
  <1> QED BY <1>1, <1>2, <1>3, <1>4, <1>5 DEF Next

\* The inductive invariant holds throughout.
THEOREM Invariance == Spec => []IInv
  <1>1. IInv /\ [Next]_vars => IInv' BY NextKeeps, FixedKeeps
  <1> QED BY <1>1, InitInv, PTL DEF Spec

\* Every variable keeps its type (Client.TypeOK).
THEOREM TypeCorrect == Spec => []TypeOK
  <1>1. IInv => TypeOK BY DEF IInv
  <1> QED BY <1>1, Invariance, PTL

\* However many visitors register and in whatever order their requests are
\* served, an address has one account (register, auth.service.ts:22).
THEOREM OneAccount == Spec => []OneAccountPerEmail
  <1>1. IInv => OneAccountPerEmail BY DEF IInv
  <1> QED BY <1>1, Invariance, PTL

\* The user a page greets is the one the server sees (AuthProvider.tsx:34).
THEOREM PageSession == Spec => []PageHasItsSession
  <1>1. IInv => PageHasItsSession BY DEF IInv, SessionInv, PageHasItsSession
  <1> QED BY <1>1, Invariance, PTL

\* A page that is not waiting is current, whatever the tables of Pages hold
\* for the key (useAnalyses.ts:53 and the other hooks).
THEOREM PageCurrent == Spec => []SettledPageIsCurrent
  <1>1. IInv => SettledPageIsCurrent BY DEF IInv, CacheInv, Right, SettledPageIsCurrent
  <1> QED BY <1>1, Invariance, PTL
=============================================================================
