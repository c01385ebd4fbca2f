--------------------------------- MODULE Pages ---------------------------------
(***************************************************************************)
(* What the pages of the web client read and write: the keys under which   *)
(* React Query caches what a page shows, the requests by which a page      *)
(* changes data, the keys each of these requests invalidates (the hooks),  *)
(* and the answers of the server that it changes.                          *)
(*                                                                         *)
(* One dataset, backtest, analysis, metric and dashboard ("id") stand for  *)
(* all; the paging arguments at the end of a key are "page".               *)
(***************************************************************************)
EXTENDS Naturals, Sequences

---------------------------------------------------------------------------
\* Keys.

Datasets      == <<"datasets">>
Dataset       == <<"datasets", "id">>
Analytics     == <<"dataset", "id", "analytics">>
Summary       == <<"dashboard", "summary">>
Overview      == <<"datamart", "overview">>
Sources       == <<"datamart", "sources">>
Comparison    == <<"datamart", "comparison", "id", "id">>
Analyses      == <<"datamart", "analyses">>
Analysis      == Analyses \o <<"id">>
AnalysisRuns  == Analysis \o <<"runs">>
Metrics       == <<"datamart", "metrics">>
Dashboards    == <<"datamart", "dashboards">>
Dashboard     == Dashboards \o <<"id">>
Strategies    == <<"backtesting", "strategies">>
Compatibility == <<"backtesting", "compatibility", "id">>
DateRange     == <<"backtesting", "dateRange", "id">>
Backtests     == <<"backtesting", "list">>
Detail        == <<"backtesting", "detail", "id">>
Equity        == Detail \o <<"equity">>
Trades        == Detail \o <<"trades", "page">>

\* A list is cached under its key and the arguments of its page.
Paged(k) == k \o <<"page">>

\* Data with staleTime: Infinity, which a page never asks for twice.
Lasting == {Strategies, Compatibility, DateRange}

\* invalidateQueries matches by prefix.
Matches(prefix, k) ==
    Len(prefix) <= Len(k) /\ \A i \in 1..Len(prefix) : prefix[i] = k[i]

---------------------------------------------------------------------------
\* Requests that change data: the keys their hooks invalidate, ...

OfDatasets   == {Datasets, Summary}
OfBacktests  == {Backtests, Summary}
OfAnalyses_Overview == {Overview}
OfAnalyses   == {Analyses, Overview}
OfRuns       == {AnalysisRuns, Overview}
OfMetrics    == {Metrics, Overview}
OfDashboards == {Dashboards, Overview}
OfWidgets    == {Dashboard}
OfDownloads  == {Summary}

Hook ==
    [uploadDataset   |-> OfDatasets,   deleteDataset   |-> OfDatasets,
     createBacktest  |-> OfBacktests,  deleteBacktest  |-> OfBacktests,
     createAnalysis  |-> OfAnalyses,   deleteAnalysis  |-> OfAnalyses,
     executeAnalysis |-> OfRuns,
     createMetric    |-> OfMetrics,    deleteMetric    |-> OfMetrics,
     createDashboard |-> OfDashboards, deleteDashboard |-> OfDashboards,
     createWidget    |-> OfWidgets,    deleteWidget    |-> OfWidgets,
     downloadDataset |-> OfDownloads]

Edits == DOMAIN Hook

Invalidates(o, k) == \E prefix \in Hook[o] : Matches(prefix, k)

\* ... and the queries whose answer they change.  A run also moves the time an
\* analysis was last run at; a page that shows that time beside the analysis
\* goes to the result of the run, or shows it instead.
Answer ==
    [uploadDataset   |-> {Datasets, Dataset, Summary, Overview, Sources},
     deleteDataset   |-> {Datasets, Dataset, Summary, Overview, Sources},
     createBacktest  |-> {Backtests},
     deleteBacktest  |-> {Backtests, Detail, Equity, Trades},
     createAnalysis  |-> {Paged(Analyses), Overview},
     deleteAnalysis  |-> {Paged(Analyses), Analysis, AnalysisRuns, Overview},
     executeAnalysis |-> {AnalysisRuns, Overview},
     createMetric    |-> {Paged(Metrics), Overview},
     deleteMetric    |-> {Paged(Metrics), Overview},
     createDashboard |-> {Paged(Dashboards), Overview},
     deleteDashboard |-> {Paged(Dashboards), Dashboard, Overview},
     createWidget    |-> {Dashboard}, deleteWidget |-> {Dashboard},
     downloadDataset |-> {}]

Changes(o) == Answer[o]

---------------------------------------------------------------------------
\* Pages: the queries a page observes, and its requests, each with the page
\* that its handler goes to when the request has succeeded.

Reading(keys, edits) == [reads |-> keys, edits |-> edits]
NoEdits == [o \in {} |-> "none"]

DashboardPage == Reading({Summary}, NoEdits)

DatasetsPage == Reading({Datasets}, [deleteDataset |-> "datasets"])

DatasetUploadPage == Reading({}, [uploadDataset |-> "analysisDashboard"])

DatasetWorkspacePage == Reading({Dataset, Analytics},
    [deleteDataset |-> "datasets", downloadDataset |-> "datasetWorkspace"])

AnalysisDashboardPage == Reading({Dataset, Analytics}, [deleteDataset |-> "datasets"])

DataMartOverviewPage == Reading({Overview},
    [deleteAnalysis |-> "overview", executeAnalysis |-> "overview"])

QueryBuilderPage == Reading({Sources}, [createAnalysis |-> "queryBuilder"])

AnalysesPage == Reading({Paged(Analyses)},
    [deleteAnalysis |-> "analyses", executeAnalysis |-> "analysisDetail"])

AnalysisDetailPage == Reading({Analysis, AnalysisRuns, Overview},
    [deleteAnalysis |-> "analyses", executeAnalysis |-> "analysisDetail"])

MetricsPage == Reading({Paged(Metrics), Sources},
    [createMetric |-> "metrics", deleteMetric |-> "metrics"])

DashboardsPage == Reading({Paged(Dashboards)},
    [createDashboard |-> "dashboardDetail", deleteDashboard |-> "dashboards"])

DashboardDetailPage == Reading({Dashboard, Paged(Analyses), Paged(Metrics)},
    [createWidget    |-> "dashboardDetail",
     deleteWidget    |-> "dashboardDetail",
     deleteDashboard |-> "dashboards"])

ComparisonPage == Reading({Sources, Comparison}, NoEdits)

BacktestingPage == Reading({Backtests}, [deleteBacktest |-> "backtesting"])

NewBacktestPage == Reading({Datasets, Strategies, Compatibility, DateRange},
    [createBacktest |-> "backtestResult"])

BacktestResultPage == Reading({Detail, Equity, Trades}, [deleteBacktest |-> "backtesting"])

\* The routes behind the guard.
Page ==
    [dashboard |-> DashboardPage, datasets |-> DatasetsPage,
     datasetUpload |-> DatasetUploadPage, datasetWorkspace |-> DatasetWorkspacePage,
     analysisDashboard |-> AnalysisDashboardPage, overview |-> DataMartOverviewPage,
     queryBuilder |-> QueryBuilderPage, analyses |-> AnalysesPage,
     analysisDetail |-> AnalysisDetailPage, metrics |-> MetricsPage,
     dashboards |-> DashboardsPage, dashboardDetail |-> DashboardDetailPage,
     comparison |-> ComparisonPage, backtesting |-> BacktestingPage,
     newBacktest |-> NewBacktestPage, backtestResult |-> BacktestResultPage]

Routes == DOMAIN Page

Keys == UNION {Page[p].reads : p \in Routes}

\* The pages and requests that concern a key; a page that neither shows it nor
\* changes it is any other page to it.
Concerns(o, k) == k \in Changes(o) \/ Invalidates(o, k)
EditsOf(p, k)  == {o \in DOMAIN Page[p].edits : Concerns(o, k)}
Stops(k) == {p \in Routes : k \in Page[p].reads \/ EditsOf(p, k) # {}} \cup {"dashboard"}
=============================================================================
