# coralogix-unused-metrics-finder in TLA+

The program asks a Coralogix tenant which series it ingests and which queries
its dashboards, alerts and SLOs run, and lists the series that no query uses.
A wrong answer in one direction is expensive: a metric listed as unused, and
then dropped by the generated collector fragment, is lost. These modules state
what the lists mean, model the code that makes them, and check and prove that
it does.

Paths below are relative to `src/`.

## 1. Inventory

| Part | Code | State | Operations | What is hard |
|---|---|---|---|---|
| Series phase | `internal/scan/scan.go` 200-297 | semaphore, errgroup, catalog, failures, truncation counter | one goroutine per metric: acquire, fetch, classify, merge or note, release; `Wait`; the failure fraction | interleaving, cancellation that hides its cause, partial failure, limits |
| Scan pipeline | `internal/scan/scan.go` | resources, usage per series, three lists of selector issues, used and unused | read dashboards, alerts, SLOs, names; series phase; correlate; partition | what is not known must not be called unused; loops over maps |
| Selectors | `internal/promqlextract` | none | extract selectors from JSON, name of a selector, match against a series | selectors without a name, missing labels, negative matchers |
| Collector fragment | `internal/report/otel.go` | none | metrics to drop, labels to strip | a catalog that is incomplete |
| API client | `internal/coralogix/client.go` | none | GET, pages of alerts, typed errors | which failure is whose |
| cx client | `internal/cxcli/client.go` | none | run `cx`, retry definitions | retries, one error type for everything |
| Billing | `internal/metricusage`, `scan.go` 382-453 | usage by series, failures | pages of variations, workers, split of units | partial failure, integer division |
| Command line | `cmd/coralogix-unused-metrics-finder/main.go`, `scan.go` 38-95 | flags | refuse, debug query, run, report | what a report claims must be what was asked of the service; calendar arithmetic |
| Report writer | `internal/report`, `scan.go` 454-497 | files | gate, write, withhold cost files | coverage gate, failure between two files or two bytes, files of earlier runs |
| Report formats | `internal/report` | none | sums by metric, sections of the PDF, fragment | the same figures are added up by separate code |
| Web UI jobs | `webui/main.go` | registry, jobs, directories | run, status, download, preview, prune | three locks and a file system none of them guards |
| Interning | `internal/strintern` | sharded table | intern a string or a label set | double-checked locking |
| Status line | `internal/status` | last line drawn, last percentage logged | set, bar, clear | several goroutines draw a count after they let go of the mutex |
| Warnings | `internal/scan/warnings.go` | ordered list of entries | add, fold, list | folding must lose no subject |
| Others | `internal/region`, `internal/cxteams`, `internal/gen`, `index.html` | | host table, team name, generated code, page | |

How they interact: the command line and the web UI both build a `scan.Source`
(the API client, or the cx client) and call `scan.Run`; `Run` calls the source
from one goroutine per metric in the series phase and from its own goroutine
elsewhere; `Run` returns a `Report`; `Report.Write` makes the files, the
collector fragment among them. In the web UI this happens in one goroutine per
job, while HTTP handlers and the prune loop share the job registry with it.

`PROJECT.json` lists under `hazards` what a test would hardly reach, each at its
line, with the properties that would catch it.

## 2. Modules

```
SeriesSource      what a source answers, and what the two clients make of it
  SeriesCatalog     the series phase, one metric at a time        (abstract)
  SeriesFetch       the series phase with its goroutines           (detailed)
    SeriesFetchProofs
Selector          PromQL selectors and the series they pick
  OtelPlan          the collector fragment
Warnings          the ordered, folded list of warnings
Scan              scan.Run: SeriesSource, OtelPlan, Warnings, on SeriesCatalog
  Presentation      the sections of the PDF and the fragment's processors
  ScanBodies        a scan whose definitions are JSON, walked by
    Extract           ExtractFromJSON
  ScanProofs        about all three
LabelSets         the strings each goroutine wants to intern
  Intern            the string table
  Progress          the table, the counter and the status line together
    ProgressProofs
JobRegistry       the web UI's jobs
  JobRegistryProofs
CxDefinitions     the cx client's list, gets and retries
  Definitions       both clients on one tenant, with
    AlertPages        the token loop of the API client
    DefinitionsProofs
VariationPages    the pages of one metric's billing rows
Enrich            the billing workers and the split of units
  Rollups           from billed rows to the sums of the report (with OtelPlan)
    BillingProofs     about Rollups with Enrich, and about VariationPages
ReportFiles       the coverage gate and the files of a report
  CommandLine       the flags, and the window they ask for, with
    BillingWindow     calendar arithmetic
    ReportFilesProofs
Sums              lemmas on sums over finite sets, for the proofs
MC...             an instance for TLC of each module that has a run
```

### SeriesSource

The server is external: `Answers` lists how a request can end. `ApiError` is
what `FetchSeriesForMetric` of the API client makes of it (`isSeriesAnalysisLimit`
first, then `isTimeout` unless the context is done), `CliError` what the cx
client does. `RowSets(m)` are the rows a successful answer can hold: all, or
any `Limit` of them. A series carries its metric's name, so the sets of two
metrics are disjoint (`SeriesAssumption`).

### SeriesFetch and SeriesCatalog

| Model | Code (`scan.go`) |
|---|---|
| `pc[m]` | where the goroutine of metric `m` is (216-265) |
| `slots` | tokens in `sem` |
| `callerDone`, `cancelled` | `ctx.Err() != nil`, `gctx.Err() != nil` |
| `groupErr` | the first error the errgroup kept |
| `catalog`, `failures`, `truncatedCount` | the variables `mu` guards |
| `verdict` | what `Run` does after `Wait` (266-297) |
| `Acquire`, `GiveUp` | the two cases of the `select` |
| `ReceiveRows`, `ReceiveError` | the fetch |
| `StopForCaller`, `Reject`, `Skip` | `ctx.Err()`, then `classifySeriesFetchFailure` |
| `Note`, `Absorb` | the two critical sections |
| `Release`, `Exit` | the deferred receive, then `errgroup.Go` |
| `Decide` | `Wait` and the failure fraction |

`SeriesCatalog` is what the phase promises without its goroutines: each metric
is settled once, by a merge or by a failure, and a report needs all of them
settled and at most half failed. `SeriesFetch` implements it with `settled`
refined to the metrics that were merged or noted with no error to return.

### Scan, Selector, OtelPlan, Warnings

`Scan` is `Run` from its first request to the lists. `Fetch == INSTANCE
SeriesCatalog` is its series phase, one of whose steps is one step of the
scan. A definition is a model value with a kind and a set of selectors; a
selector is a name and a set of matchers as the PromQL parser returns them; a
series is a function from label names to values, which its canonical text
determines. One resource of the correlation loop is one step, in any order.
The set `usage[s]` stands for the three sets of a `usage` entry: a definition
knows its kind. `Catalogued` is what the catalog request lists: all dashboards,
except that the cx command, which is broken on some tenants, may list none there
and not fail (`CatalogAssumption`). `Selector` keeps the code's `MatchesSeries` beside PromQL's own
meaning, `Selects`, so that the properties of `Scan` compare the code's lists
with what the server's queries would select.

`Warnings` is `warningSet`: `AddFor` folds what has the same context, noun and
first line. Of a message, the first line is kept as far as it decides what
folds: the client's own errors, and those of the transport, name the definition
or the metric in that line (`FirstLine`), so they do not fold with each other.

### ScanBodies, Extract and Presentation

`Extract` is the walk over a definition's JSON. A text is what the walk and the
parser can tell of it: its length, whether it has a bracket, whether it parses,
and which selectors it then has. `ExtractFromJSON` is a recursive function over
`Values`, the JSON values of the tenant with all that is inside them, each of
a depth (`DepthOf`) that `encoding/json` can read. `BodyAssumption` in `ScanBodies`
ties the selectors that `Scan` correlates to the JSON they come from.
`CandidatesCount` compares the walk with `TextsIn`, which finds
all texts of a value level by level.

`Presentation` derives from a finished scan what its readers see: the
processors of the fragment, the settings, and the PDF's sections, each of which
shows the first so many lines and counts the rest. Which lines are first is left
open.

### JobRegistry

One step is one critical section or one file operation. `registered` is the
map under `reg.mu`; `status`, `dirSet` and `files` are the fields of a job;
`run` is the line its `runScan` is at; `onDisk` and `content` are its
directory. A prune holds `reg.mu` (`pruning`), reads one job after the other
and removes directories as it goes: `Submit` and `Lookup` wait for it, `runScan`
does not. A file that is open when its directory is removed is written to its
end and lost. The scan itself either succeeds or fails.
`InTime` says that a job is over before it reaches its TTL: `DirsAreReclaimed`
holds of each such job, and `jobs_orphan` shows what happens to the others.

### Intern and Progress

In `Intern` one step is one critical section of `Table.String`: `Hit` and `Miss`
the look under the read lock, `Store` the second look and the insertion under
the write lock. A copy is named after the goroutine that decoded it; `held[w]`
is what `Table.Labels` put into the maps of `w`. Strings never meet, so shards
do not matter. `Run` reads `Len` after `Wait`; it is left out.

`Progress` is a worker of the series phase as its strings and its status line
see it. Its fetch ends in rows (`Answered`), in a failure that skips the metric
(`Note`), or it leaves: cancelled while it waits for a token or for the answer,
or rejected (`Leave`). Which of these a fetch may end in is the matter of
`SeriesFetch`; here any may, so that every mixture is covered. With rows, it
interns the labels (`Table == INSTANCE Intern`) and enters the critical section
(`Merge`). Then, without the mutex, it adds to the counter (`Count`) and draws
the number it gave (`Draw`); one that leaves does neither. When all have returned
(`Waited`), `Run` sets the next text (`Correlate`), or returns an error if one has
left or too many failed (`Abort`); it clears the line on its way out, with an
error or after the rest of its work (`Abort`, `Return`). `interactive` is whether
the writer is a terminal, where a draw overwrites `screen`; elsewhere a draw adds
a line to `log` unless its percentage is the last one's. `Percentages` has both
outcomes of the floating-point quotient, which may be a hair below a whole
number and is truncated; the first bar is missing from a log if the last bar of
the dashboards was at 0 percent, too.

### CxDefinitions, AlertPages, Definitions

In `CxDefinitions`, `Ids` are the ids `decodeIDList` keeps (an item that is listed
without one is dropped); `next` is the command `FetchAllAlertDefs` or `FetchSLOs`
is at (0 is the list); `attempt`, `delay` and the pause are `runRetrying`'s.
`waited` adds up the pauses, so that a property can speak of them. `Proceed`
starts the next command with fresh locals. A failed command is one of four
steps, in the order of the code: the caller's context is done
(`StopForCaller`), the error is permanent (`FailPermanently`), no attempt is
left (`GiveUp`), or else a pause (`Pause`, `Resume`). The tenant is external:
commands fail as they like and definitions are deleted at any time (`Delete`);
then their get cannot succeed.

`AlertPages` is the loop of the API client's `FetchAllAlertDefs`. The server is
external: a token stands for a place in the order of all alerts, a page may be
shorter than asked for, and the last one may or may not carry a token. A token
moves on; a server that repeats one would keep the loop, and the memory it
fills, going, and the code has no guard against that. `Definitions` puts both
clients on one tenant, whose user deletes alerts under both.

### VariationPages, Enrich, Rollups

`VariationPages` is the loop of `FetchVariationUnits`. A request has one offset
and cuts the rows of every day at it; `added[d][i]` is how often row `i` of day
`d` went into the sums. `Enrich` is `EnrichCatalog`: `pc`, `tokens` and
`groupErr` are as in `SeriesFetch`; `attempted`, `failures` and `bySeries` are
what the mutex guards (`bySeries` has only the series that got something); the
whole of `FetchVariationUnits` is `Receive` or `ReceiveError`. The question
whether the caller has cancelled (`StopForCaller`, `Blame`) and the note in the
list (`Note`) are two steps, as in the code. Units are integers, like the bytes,
samples and cardinalities; `unit_usage` itself is a float.

`Rollups` follows the units further at both ends. Before `Enrich`: the rows of
each day, whose label names come with a value or without, are added up by
`VariationKey`. After it: `CostRows`, `UnusedByMetric`, `AllByMetric` and the
`Headline` of the PDF, which are added up by four functions from three lists.

### ReportFiles, BillingWindow, CommandLine

A run is the outcome of its billing: asked for or not, lookups attempted and
succeeded, whether any series got a figure (`Outcomes` keeps what `Enrich`
guarantees: no more successes than attempts, no figure without a success).
`Gate` is the `switch` of `Run`; `CostReportable` the test `Report` makes for
itself; `CoverageNote` the words about it in the PDF's settings; `Notice` those of `main`
on stderr. The last two go by the coverage alone, so they agree with the warnings
where something was billed (`ReasonsAgree`); where nothing was, stderr may say
"withheld" when the warnings say that there is no usable data. `Write` goes through nine files. Each is created (`Create`), filled
through a buffer that may lose bytes at any time (`LoseBytes`) and says so only
when it is asked, at the end (`Flush`, `WriteFails`), and closed (`Close`); the
writers differ in whether a row can fail to encode and whether they look at the
error of `Close` (`Writers`, `CloseUnseen`). `dir[i]` says which run made file
`i` and how far it got. The team prefix of the names is the same for all runs.

`BillingWindow` is `billingWindowUTC` on numbered days. `CommandLine` puts `run`
of `main.go` around all of this: a command, from the set `Commands`, is refused
(`Refuse`), fails before it has a report (`FailEarly`), asks for one metric and
prints the answer (`Debug`), or scans and writes (`Run`, the steps of
`ReportFiles`, `Exit`). `claim` is the window in the report's metadata, `query`
the window that the service was asked of.

## 3. Runs

| Run | Instance | Shows |
|---|---|---|
| `fetch_api` | 3 metrics (over, at and below a limit of 1), 2 tokens, API, cancellable caller | the root cause of an abort is kept, failures are metrics' own, gaps are counted, at least half is known, a rejected request aborts, `SeriesCatalog` is implemented, and the phase ends |
| `fetch_cli_reject` | 2 metrics, cx | finding: a rejected request is skipped |
| `scan` | API, 3 metrics (one cut by the limit), 3 dashboards, 1 alert, 2 SLOs, all 8 choices of skipped kinds | the lists are exact, every gap has its warning, the fragment is safe, every query a definition holds counts, the PDF accounts for all metrics, the scan ends |
| `query_unread` | the same | finding: a query that is a bare metric name is never parsed |
| `jobs` | 2 jobs, 2 files, 1 request | replies and downloads are complete, links work until the TTL, failed jobs leave nothing, the directory of a job that ends within its TTL is reclaimed |
| `jobs_orphan` | 2 jobs, any age | finding: a job pruned while it runs leaks its directory |
| `progress` | 3 goroutines that answer, skip or leave, 2 strings, a bar of 2 percent points | one copy per string, a log has no count twice and says completion only when it is true, nobody draws over `Run`, and `Run` returns, also with an error |
| `definitions` | 3 alerts, 3 attempts, pages of 2, any deletions | all definitions or an error, an error only after all attempts, each alert once, reading ends |
| `variation_pages` | 2 days of up to 7 rows each, pages of 2, a 4-bit offset | each row counts once, the loop ends |
| `enrich` | 4 metrics, 2 of them without series, 2 tokens, 6 billed rows | attempts add up, cancellations are nobody's failure, the sums of the report are those of the bill and agree with each other, the pass ends |
| `report_files` | 2 commands into one directory, 6 coverages, 3 dates | what is listed is complete, cost files are covered, `Run`, `Report`, the PDF and `main` give the same reason, the claimed window is the one queried |
| `report_unexplained` | the same | finding: the PDF's table of top unused metrics shows zeros for missing figures, and figures that are withheld |

Bounds, and why they are enough:

* The series phase treats metrics alike. Three goroutines on two tokens give
  one that waits while one fails and another merges; the metrics differ in how
  their series compare with the limit (2, 1 and 0 with `Limit = 1`). One
  failure of three is less and two are more than half; that exactly half is
  handled right, and all of it for the cx client, is left to the proofs.
* The scan's instance has a selector of each kind the loop tells apart: with a
  name and without one, named by an equality on `__name__`, internal (`cx_`),
  of a metric the catalog lacks, of one whose series none matches, with a
  negative and with an empty matcher; definitions without an id; and metrics
  that fill or exceed the limit. The definitions are nested JSON, with a query
  in an array in an object, a bare name and a text that does not parse;
  their values are nested up to four levels (`MCValues`). `FoldedShown` and
  `PdfTopRows` are 1 (5 and 25 in the code), so that two of a kind are folded
  or cut.
* Two jobs let a prune meet one that runs and one that is over. Handlers only
  read, and each keeps its own state, so one request is as good as many.
* Three goroutines that want a string: one hits while two have missed it. A bar
  that counts to 2 gives two of the four counts the same percentage, and
  the last one a percentage of its own. With three, one can leave while another
  skips and the third answers, and two skipped are more than half.
* Three attempts are the least with two different pauses; three alerts put one
  before and one after any that fails, and give pages of 2 a full page and a
  short one.
* Two days of 0 to 7 rows with pages of 2 give a day that is empty, ends on a
  page boundary, or ends before or after the other by one page or several.
* In `Enrich` one metric has a used series that shares a variation of 5 units
  with two unused ones (a remainder), a series of a wider label set and a row
  nothing matches; one is wholly unused and billed under two spellings of the
  same names; with two metrics without series, an early return that kept its
  token would use up both.
* With ten lookups, nine are exactly the threshold and eight are below it; with
  one or none the fraction is 0, 1 or undefined. Two runs suffice for files an
  earlier run left: `Create` overwrites whatever is there. The dates are the
  31st after a leap February, the first of a January, and a day in the year after
  2100, which is no leap year although four divides it; the
  windows are 7 days, 1, 13 and 241 months, none, and negative ones; every
  combination of region, key and profile is among the commands.

Nothing counts without bound: the counters are bounded by the number of
metrics, runs by `MaxRuns`, rows by `MaxRows`. `JobRegistry` stops once all jobs
are pruned, therefore `CHECK_DEADLOCK FALSE`; the other modules have an explicit
`Over` step.

Fairness: weak fairness of every goroutine and of `Decide` in `SeriesFetch`
(the Go scheduler runs what is runnable; the HTTP client and each `cx`
invocation have a timeout, so a fetch ends), of `Advance` in `Scan` (requests
are bounded and `Run` is sequential; that the series phase ends is what
`fetch_api` shows), of each goroutine and of what follows `Wait` in `Progress`
(the same timeouts end its fetches) and `Enrich`, of the cx command and of the page request in `Definitions` and of
the one goroutine of `VariationPages` (each command has a timeout, each call is
answered or fails), and of each job, the ageing of a job and the prune in
`JobRegistry` (the ticker fires and time goes by). No property uses strong
fairness, and no step that an outside party takes (a caller's cancellation, a
deletion, a request) is fair.

Four runs end in a violation, each a disagreement between the code and what
the repository says of it, quoted in `PROJECT.json` under `findings`. What else
was met while modelling and has no run:

* `Run` goes on without a dashboard whose fetch failed, although
  `internal/cxcli/client.go:48` says that "a definition cannot be skipped"
  (`FalseUnusedIsExplained` shows that a warning names it).
* On some tenants `cx dashboards catalog` answers with an empty list
  (`cxcli/client.go` 259-260), and `README.md:114` says that "dashboard correlation
  is then skipped for that run". Unlike with `--skip-dashboards`, no warning says
  so (`scan.go` 121-129), and what only dashboards use is called unused without a
  word: with `CliMode = TRUE` and `Catalogued = {}` TLC finds
  `FalseUnusedIsExplained` violated. The run `scan` is over the API.
* A `cx get` whose output is not JSON is wrapped, with its id, into text that no
  id can be read from (`cxcli/client.go` 386-394); such a definition is dropped
  without a word, and the number of scanned alerts or SLOs includes it
  (`scan.go` 157-162, 507).
* Below the coverage threshold only the two cost files are left out, while the
  other files keep `unit_usage` columns, although `README.md:150` says that
  "cost figures" are withheld; and `README.md:161` speaks of a subset match of
  label names where `metricusage/client.go:323` compares for equality.
* Failures whose first line has the definition's id or the URL in it do not fold,
  although `README.md:84` speaks of one entry per root cause.
* `--billing-months` above 240 is accepted: the metadata keep the number, the
  PDF names a window nobody was asked for, and a warning says that billing
  failed. The debugging query has no such limit.
* `main.go` 284-287 advises `--billing-allow-partial` even where it was given, if
  nothing was billed, and says "withheld" on stderr where the warnings say that
  there is no usable data.
* The bar may step back, and stop at a smaller count: a goroutine that counted
  first may draw last (`scan.go` 261-262). No text promises otherwise.
* Of a metric cut at the series limit the fragment knows only a part, and may drop
  it or strip a label that a series beyond the limit is used with. `README.md:189`
  says so; `DropsAreSafe` and `StripsKeepUsedSeries` are about metrics that
  could be answered in full.

Each property of a passing run has a mutant: an operator next to the one it
replaces, marked `Fault:`, that breaks it the way a slip in the code would.

## 4. Proofs

`SeriesFetchProofs` proves, for every finite set of metrics, every set of
series, limit and number of tokens, and for both sources unless said
otherwise, the safety properties of the series phase, including the refinement:

| Theorem | Property |
|---|---|
| `TypeCorrect` | `TypeOK` |
| `SlotsAccounted` | `SlotsMatchHolders`: tokens are held by those who work |
| `RootCause` | `RootCauseKept` |
| `MetricsSettledOnce` | `SettledOnce`: no metric is both merged and failed |
| `FailuresAreOwn` | `FailureIsOwn` |
| `ApiRejectionFailsRun` (API only) | `RejectionFailsRun` |
| `ReportKnowsHalf` | `HalfIsKnown` |
| `ReportCountsGaps` | `GapsAreCounted` |
| `QuietAfter` | `QuietAfterWait`: nobody writes after `Wait` |
| `FetchImplementsCatalog` | `ImplementsCatalog` |

The assumptions are `SeriesAssumption` (finitely many metrics with finitely many
series each, no series of two metrics, a positive limit) and
`WorkersAssumption` (a positive number of tokens).

The properties speak of the moment of the report and say nothing of the way
there, so none is inductive. The invariant is

* `SlotInv`: types, and the tokens counted by the goroutines past the
  semaphore. Types alone are not inductive: `Release` could go below zero.
* `StopInv`: who may hold a cancellation error, and that one that is kept by
  the group comes from the caller or after another error.
* `SettleInv`: what each place implies for its metric (`PlaceInv`), that the
  catalog has only series of merged metrics (`CatalogInv`), that a noted
  cancellation means the group has an error (`OwnInv`), what the verdict
  implies (`VerdictInv`), and how a rejected request travels (`RejectInv`).
* `RowsInv`: the rows held are ones the source may answer.
* `CountInv`: the failure list is as long as the set of failed metrics, and the
  truncation counter is the number of merged answers that fill the limit.

Each part is shown to be kept by every action; each theorem then follows from
the parts at the report. For the refinement, `Note` and `Absorb` are the
abstract `Fail` and `Absorb`, `Decide` is `Report` or `Abort`, and every other step
leaves the abstract variables alone.

`ScanProofs` proves of `Run`, for every tenant, every choice of skipped kinds and
both sources, unless said otherwise:

| Theorem | Property |
|---|---|
| `UsageExact` | `UsageIsExact` |
| `UnknownLeftAlone` | `UnknownIsNotUnused` |
| `DropsSafe` | `DropsAreSafe` |
| `StripsSafe` | `StripsKeepUsedSeries` |
| `SelectorsHaveOneFate` | `SelectorsAccounted` |
| `FalseUnusedExplained` (catalog works) | `FalseUnusedIsExplained` |
| `KnownUnusedExplained` | the same, of the definitions `Run` gets to know |
| `GapsWarned` (catalog works) | `GapsAreWarned` |
| `KnownGapsWarned` | the same, of the dashboards the catalog lists |
| `PdfAccounts` | `PdfAccountsForAll` |
| `CandidatesAreRead` | `CandidatesCount` |

The catalog works (`CatalogWorks`) over the API always (`ApiListsAll`), and over
cx unless it lists nothing. Where it lists nothing, `FalseUnusedIsExplained` and
`GapsAreWarned` may be false (see the end of section 3), and the two `Known` theorems say
what is left of them: an alert or an SLO is still either read or explained.

The theorems down to `KnownUnusedExplained` rest on one fact about the operators,
`MatchIsSelect`: the code's `MatchesSeries` is PromQL's `Selects` for a selector
with a name. The invariant has five layers:

* `Fetched`: what is in the catalog, and that a metric is whole, cut or failed.
* `Correlated`: after some definitions, `usage` (`UsageSoFar`) and the lists of
  issues (`IssuesSoFar`) are those of exactly these definitions, there are none
  before (`NoIssues`), and used and unused partition the catalog at the end.
* `Reading`: the warnings are well formed and only grow, and a definition
  of `Known` (all identified ones but the dashboards no catalog lists) that was
  passed over has an entry that explains it. A property of the end alone
  would not survive the folding on the way.
* `Warned`: at every phase, the warnings say which kinds have been skipped so far
  (`SkipsSaid`), the dashboards with an entry are exactly those passed and not
  read, each at one place of one entry (`MissesSaid`), and a metric failed once
  (`FailsOnce`). Entries of one context have different first lines (`KeysApart`),
  so `AddFor` finds at most one to fold into.
* `CutsCounted`: the metrics that were answered and are not there in full are no
  more than the truncation counter.

`PhaseIsCatalog` says that a scan, seen through the results of its series phase, is
a behaviour of `SeriesCatalog`; with `FetchImplementsCatalog`, what is proved of the
scan rests on nothing that its goroutines do not provide.

`PdfAccounts` adds that the PDF's breakdown of failures by kind sums up to their
number, which is an instance of `SumByClass` (below). `CandidatesAreRead` is
about data that nests: `ExtractSteps` unfolds the walk at any value, which needs
that the recursive definition has a solution (`WalkExists`, by the least depth
for which it had none), and `LevelsAreWalked` follows a text up from the level it
is found on.

`JobRegistryProofs` proves, for any number of jobs, files and requests,
`DoneListsFiles` (`RepliesListFiles`), `ServedIsWhole` (`NothingServedEarly`),
`FailedLeavesNothing` (`FailuresCleanUp`) and `LinksWorkUntilTtl` (`LinksHold`).
The invariant is `Typed /\ Staged /\ Informed /\ Kept`: what each line of
`runScan` implies for its job and directory; what a request has seen of a job
still being so; and that only an expired job is being removed.
`TimelyJobsLeaveNothing` is the other side of the finding of `jobs_orphan`, and the
safety half of `DirsAreReclaimed`: of a job that is over before its TTL, no
directory outlives the entry. It needs, of such a job, that what the prune has
read of it is final (`Reclaiming`).

The other modules:

| Theorem | Property | The invariant adds |
|---|---|---|
| `ProgressProofs!SameCopy` | `OneCopy` | every copy handed out is the table's |
| `ProgressProofs!CopiesStay` | `SetOnce`: a copy is never replaced | types |
| `ProgressProofs!LineTellsTruth` | `LineIsTrue` | each goroutine that counted has a number of its own and one has the latest; the log has at most a 0 and numbers that were drawn, the last among them once it was; all have drawn or left when `Run` goes on |
| `DefinitionsProofs!NoDefinitionSkipped` | `AllOrNothing` | before the k-th command the first k - 1 definitions are there, in order |
| `DefinitionsProofs!AttemptsExhausted` | `ErrorIsEarned` | a pause is taken only with an attempt left; pauses so far and the next one differ by the base delay |
| `DefinitionsProofs!EachOnItsOwn` | behaviours of the two clients on one tenant are behaviours of `CxDefinitions` | none: a page of the other client is a stutter, a deletion is its own |
| `DefinitionsProofs!BothKeepPromises` | `AllOrNothing` and `ErrorIsEarned` of the composition | follows from the three before |
| `DefinitionsProofs!AlertsReadOnce` | `EveryAlertOnce` | `Paged`: the list is in order, goes no further than the token, and has every alert before it that still exists |
| `BillingProofs!RowsCountOnce` | `EachRowOnce` | while the loop runs exactly the rows before the offset are added, and the offset is a page away from the wrap |
| `BillingProofs!FailuresOfResult` | `CancellationNotBlamed` | the group's error comes from the caller, and a cancellation is a cause only once the caller has cancelled |
| `BillingProofs!CoverageIsExact` | `AttemptsAddUp` | the count of attempts is the number of metrics that tried, the figures are those of metrics that merged, and each place says which of the two its metric has done |
| `BillingProofs!SavingsAreOne` | `SavingsAgree` | types only: it holds in every state, since two tables group the same series by the same names |
| `BillingProofs!TotalsAreBilled` | `TotalsAddUp` | `Priced`: every figure there is comes from a merge, with the share its metric's bill gives it |
| `ReportFilesProofs!FilesListedAreWhole` | `ListedIsWhole` | all files before the current one are whole and listed, or withheld; the current one, once created, is this run's |
| `ReportFilesProofs!CostFilesAreCovered` | `CostIsCovered` | cost files are listed only of a run that may show cost |
| `ReportFilesProofs!OneReasonIsGiven` | `ReasonsAgree` | the warnings are `Gate` of the outcome |
| `ReportFilesProofs!CommandsAreRuns` | every behaviour of `CommandLine` is one of `ReportFiles` | none: each step of a command is one of a run or leaves it alone |

| `ReportFilesProofs!WindowsAreQueried` | `WindowIsQueried` | nothing but the invariant of a run: each command sets both windows at once, and the steps of a run leave them alone |

`CommandsAreRuns` carries the theorems on files, cost and reasons, which are
about a run, over to the command line that `report_files` checks.
`WindowsAreQueried` rests on the calendar: `YearLength` and `NextMonth` (the days
`DayNumber` counts are as long as `DaysIn` says, leap years included),
`DaysBackAre` and `DaysOfMonth` (what lies between the two ends of a window).

`Sums` makes the proofs about figures possible. The community modules define
sums by recursion over finite sets; `SumSteps` unfolds one, and from it follow
that a sum depends on no order (`SumTake`), and what a sum over a union of two
sets (`SumDisjoint`), by classes (`SumByClass`), under another name
(`SumRenamed`), of two functions (`SumPlus`) and of bounded terms (`SumAtMost`,
`SumConstant`) is. `SavingsAreOne` is `SumByClass` with the metric of a series as its
class, twice; `TotalsAreBilled` puts the bill of each variation between what its
parts add up to and that plus one less than their number. Induction is not
available as a rule: each lemma takes the least number, or a smallest subset, for
which it would fail (`LeastNumber`, `SmallestSubset`), and contradicts it.

The assumptions are named in the modules: finitely many metrics, series and
goroutines, one owner per series (`EnrichAssumption`), parsed selectors and known
kinds (`ScanAssumption`), a catalog of all dashboards or, over cx, of none
(`CatalogAssumption`), a list of ids and a number of attempts of any size
(`CxAssumption`), no more successes than lookups (`ReportAssumption`), and fewer
rows than the 32-bit offset can count less a page (`PageAssumption`): beyond that
the offset wraps and `EachRowOnce` is false. Of the data: a finite catalog of
series with a name that is not the report's word for a missing one, and finitely
many billed rows of natural units (`RollupAssumption`), that what `Enrich` divides
is what the rows add up to (`EnrichedAssumption`), JSON values less deep than
what they are in (`ValueAssumption`), flags that are numbers and dates of a
calendar (`CommandAssumption`, which also says that the value for no window is
none).

Every safety property of a passing run is proved. Only model-checked: liveness
(`Terminates`, `ScanEnds`, `DirsAreReclaimed`, `WorkEnds`, `ReadingEnds`,
`PagesEnd`, `EnrichEnds`), which TLAPS does not handle under fairness; and the
four runs that end in a violation, which are counterexamples.

## 5. Not modelled

* The texts of messages, warnings and files, their layout, number formats and
  encoding. That a float which is no number has no JSON is there, as a row that
  fails to encode; the float `unit_usage` itself is not, nor are sums of floats.
* The PromQL parser: external, by the selectors it returns.
* URLs, headers and JSON decoding. Metric names and dashboards are one request
  or one retried command each, and steps of `Scan` only.
* The dump of `--debug-billing-metric`, except for the window it asks about.
* `internal/region` is a table of host names (`CommandLine` keeps whether a region
  is in it); `internal/cxteams` makes a prefix of file names with one call;
  the diagnostics quote a curl command; `internal/gen` is generated; the web
  page polls and shows.
* The rows of the current day, which may grow while their pages are read, and
  what the collector does with series that lose a label: both are outside the
  program, and are listed under `hazards` with that note.

## 6. Plan

All modules planned are there: the series phase and its refinement; selectors,
extraction, the collector fragment, warnings and the scan; the web UI's jobs;
interning with the status line; both clients' definitions; billing from rows to
sums; the files of a report under the command line and its window. What could
follow:

1. Floats in place of the integer units of `Enrich` and `Rollups`, with a bound on
   the rounding of a sum.
2. The steps that the liveness arguments rest on, as far as they are safety: that
   whoever waits for a token or a lock finds a holder that can move, and that each
   step brings a measure down.
3. A day that grows between two pages in `VariationPages`, once it is known in
   which order the service adds rows.
