# Verification of the payoff engine and its screens

TLA+ models of `convex-hedge-payoff`: a Python engine that serves option Chains
and the P&L of Strategies out of a derived tree of Parquet files, and a Next.js
site that keeps its whole state in the address bar. Each module is translated
from the code named in `PROJECT.json`'s `map`; TLC checks it on small instances
and TLAPS proves the results listed below for every value of its constants.

Run, in this directory: `tlc -config AnalyseScreen.cfg MCAnalyseScreen` (and the
other pairs of the table below), `tlapm AnalyseScreenProofs.tla` (and the other
`*Proofs` modules).

## 1. The system

| Component | State it keeps | Operations | Talks to |
|---|---|---|---|
| Build (`scripts/build_runtime.py`) | the runtime tree: Chain and Summary per day, one Payoff artifact, one manifest | `main` over dates, `check` | reads the dataset, writes the tree |
| Container entry (`docker/engine-entry.sh`) | none; reads whether the manifest's file exists | build, check, exec uvicorn | the tree, Docker's restart |
| Store, catalog (`store.py`, `catalog.py`) | process-lifetime caches of the manifest; an optional S3 mirror, which outlives the process | `scan`, `pairs`, `resolve`, `fetch` | the tree |
| Chain (`chain.py`) | none beyond caches | as-of snapshot, summary, `resolve_legs` | store |
| Strategy (`strategy.py`) | caches of corners and domain | P&L at Expiry, metrics, Breakevens, curve, table, Greeks | store, pricing |
| Derivation (`seed.py`, `forward.py`, `derive.py`) | caches of a date's bars, fits and volatilities | clock, Forward per minute, volatility per print | called by the build |
| Pricing (`pricing.py`) | none; the solver's loop over an array | Black-76, Greeks, `implied_vol` | called by the derivation and by Strategy |
| HTTP surface (`api.py`, `models.py`) | none | `/session`, `/chain`, `/summary`, `/analyse`, `/presets` | chain, strategy, catalog |
| Presets (`presets.py`) | none | five builders of Legs | called by `/presets` |
| Chain page (`app/page.tsx`, `ChainScreen.tsx` and its controls) | the address bar; the pending navigation; Preset calls not yet answered | click B or S, change date, Expiry, minute, flip and drop Legs, pick a Preset, go to Analyse | engine by fetch; Analyse by link |
| Link (`legs-url.ts`, `strategy-url.ts`) | none | spell and read Legs, resolve a view | both pages |
| Analyse page (`app/analyse/page.tsx`, `AnalyseScreen.tsx`, `analysing.ts`) | reducer state, one request in flight, the open tab, the address | edit, answer, refusal, tab, reload | `/analyse` by fetch |
| Leg editor (`LegEditor.tsx`, `StrikeSlider.tsx`, `strikes.ts`) | none; edits the Legs above it | move, flip, type, drop, add | Analyse's `apply` |
| Chart zoom (`zoom.ts`), tables, formatting, theme | local view state | zoom, pan, fit, draw | none |

The engine's processes share nothing but files. The two pages share nothing but
the address: what one writes the other parses, resolves against the manifest
and may have to refuse.

### Where it is hard

- **Interleaving.** React keeps the rendered state apart from queued updates,
  runs an effect some time after its render, and answers land anywhere in
  between. On the Chain page gestures are computed from the last *render* while
  another navigation, or a Preset's answer, is on its way.
- **Crash and restart.** The build writes every file in place. A kill leaves one
  truncated, and the container decides by one file's existence what to do next.
- **Sequences.** The tree is the work of several builds, partial, killed, and by
  several versions of the code. A Strategy is the work of many gestures across
  dates and Expiries, each legal.
- **Ordering and staleness.** A link names minutes, days and Expiries the store
  may not have. A Preset is priced off a Chain the trader has left.
- **Two times on every row.** A Chain row is of the minute it is served at and of
  the earlier minute it printed in; the header is a second artifact with one time.
- **Caches without locks.** A serving process remembers the manifest, the corners
  and the domain for its life, each filled by whichever thread finishes first,
  while a build may replace the files one after another under it, and the mirror
  it reads from may be half there when it starts.
- **Answers that must agree.** The table, the header, the ladder's range, a Preset
  and the analysis come from five requests, and each looks its minute up for itself.
- **Numeric edges.** A clock that skips some sessions and counts others. Extrema,
  Breakevens and Unlimited are decided from a few corners of a line, and must be
  true of all of it. The solver runs an array at once, and one row may need what
  would spoil another.

`PROJECT.json`'s `hazards` lists these one by one, at their lines, with the
properties that would catch each.

### What makes each component correct

- Analyse: the screen ends on the trader's last Strategy, shows only answers to
  questions that were asked, in order, one question at a time, none repeated.
- Tree: a finished build is coherent; a manifest, even half written, exists only
  where all else is written; strikes once covered stay covered; a kill is survived,
  and leaves at most one day's header and table of two derivations.
- Derivation: a moment is served every contract's last print by then and nothing
  else; header and table are of one minute; volatilities move when somebody
  trades; the clock shows the trading minutes that are left.
- Chain page: what is on screen is served by the engine, its link reopens it,
  an address speaks of one day, Legs belong to the series they were picked in.
- Leg editor and link: what the controls reach the engine can price; no premium
  of another contract; an address is read whole or not at all.
- Strategy and Presets: every printed figure is the line's, at every Forward, and a
  Preset keeps the shape it is named for at any prices.
- Engine: what one endpoint offers the others serve, of one minute and at one
  volatility per strike; no question about Legs ends in an unhandled exception.
- Solver: a halved bracket keeps an answer; it gives up only where it must.
- Serving: an answer is of one build, and never of one older than the process found
  whole when it started; what is there is not called missing.

## 2. The modules

| Module | Models | Extended or used by |
|---|---|---|
| `Analysing` | `analysing.ts`, the reducer, as operators | `AnalyseScreen` |
| `LatestAnswer` | the abstract promise: answers to later and later Strategies | refined by `AnalyseScreen` |
| `AnalyseScreen` | the component under React, the browser and the engine | `MCAnalyseScreen`, `AnalyseScreenProofs` |
| `RuntimeTree` | the build, file by file, the entry script, kills, hand builds, code changes | `MCRuntimeTree`, `RuntimeTreeProofs` |
| `TradingClock` | the calendar and `dte_days` | `ChainDay` |
| `ChainDay` | one date from its bars to the stored Chain and Summary, and the as-of readings of both | `Engine` |
| `Engine` | every endpoint over the stored date: refusals, as-of table, header, deltas, ladder, Preset, analysis | `MCChainDay`, `ChainDayProofs` |
| `StrategyUrl` | `catalog.resolve`, `pickMoment`, `pickView` | `Positions` |
| `Positions` | `positions.ts`: which Legs a button holds | `ChainPage` |
| `ChainPage` | every gesture, the router, Presets, the door to Analyse | `MCChainPage`, `ChainPageProofs` |
| `LegsUrl` | `legs-url.ts`: a Strategy as fragments, and which are readable | `LegEditor` |
| `LegEditor` | the Leg cards over one minute's Chain, written to the address | `MCLegEditor`, `LegEditorProofs` |
| `StrategyLine` | `strategy.py`: the line, its corners and the figures read off them | `Presets` |
| `Presets` | `presets.py`: the five shapes, at every set of arbitrage-free prices, and Legs picked by hand | `MCStrategyLine`, `StrategyLineProofs` |
| `ImpliedVol` | `implied_vol` and `_bisect`, row by row | `MCImpliedVol`, `ImpliedVolProofs` |
| `Serving` | the mirror, the process' caches, threads, kills, rebuilds | `MCServing`, `ServingProofs` |

### How state and actions correspond

**AnalyseScreen.** `state` is what the last render closed over, `pending` is it
with every `setState` since applied in call order; React turns the second into
the first in `Render`, and the effect of a render (`Ask`, or its early return
`HoldBack`) runs before the next one. `inFlight` holds the fetches;
`Answered` and `Failed` are the two halves of the promise. `Apply` is the
gesture: one `setState` and one `replaceState`. A Strategy is a model value,
and an answer is named by the Strategy it answers. `said` and `sent` are history.

**RuntimeTree.** A partition is `None`, `Torn` (opened, not closed) or the
version of the code that wrote it; the two unpartitioned datasets also have a
directory made before their file. One action per open and per close, in the order of
`main`, so a kill (`Crash`, `Interrupt`) can fall between any two. `Raise` is
a scan that meets a torn file. `Start` and `Check` are the entry script; what a
version derives is the constant `Quoted`. Builds run one at a time.

**ChainDay.** `Trade` adds a minute's bars to the date (any contracts, in minute
order) with the index there; `Fit` is one minute of `derive.fits`' pass;
`write_day` is the rest of the derivation, which is pure: volatilities, the fill,
the Summary, both files; `NextDate` is the loop of `main`. A print is its bar, so
a row's price is the bar it carries, and a volatility is the bar it was inverted
from: two volatilities are equal in the model when they are of one print. What
floating point decides is left open at its action: whether the regression passes
its gate and the level a fit gives (`fit_forward` is the set of fits a minute may
get), and which prices are attainable. `minute_slice` and
`minute_summary` are the readings; `shownVolatility` is the iv column. Time is
counted in minutes, where the code has sessions less a fraction.

**Engine.** It adds no state: every operator answers one request about the date
`ChainDay` has stored, so the run asks every question at every stored state. A
minute is looked up in each artifact by that artifact's own rule. An exposure is
the arguments `black76_greeks` is given, so two deltas are of one pair when they
differ in the side alone. `Handled` is `api.py`'s table of exception handlers; an
answer's `raised` is the exception it ends in.

**ChainPage.** `screen` is the address of the last render, resolved; `going` is
the one navigation the router is rendering, which a later one replaces; `calls`
are Presets fetched but not answered, each with the view it was picked in. Every
gesture reads `screen` and never `going`: that is what the component's closures
hold. `Arrive` is the server's render. `Analyse` follows the link and gets the
chart, or one of the page's two headings by the status of `/analyse`'s refusal. A
Leg carries the moment it was picked at, as history. Minutes and dates are
naturals in their order; an Expiry is a number.

**LegEditor.** A Leg's numbers are those a number box can hold (quantities in
tenths, premiums in ticks, negatives included). `Show` is `apply`: the Strategy and
the address together. The slider, the two toggles, the boxes, the remove
button and "Add a Leg" are one action each. `Reload` parses the address again.

**StrategyLine.** All Forwards, strikes and prices are whole ticks. A state is
one turn of `pnl_at_expiry`'s loop, so every reachable state is the line of
some Strategy: `total` is the line at every Forward, read off three stored
corners per Leg as `np.interp` reads it, and `call_slope`, `net_premium` are the
two sums taken beside it. The figures are operators over that state; a
Breakeven is a fraction; Unlimited is the empty set. `Presets` chooses which Legs
are summed: a Preset's, in the order its builder lists them, or a trader's own.

**ImpliedVol.** The bracket is cut into cells no two volatilities of which the last
halving tells apart. A row is where its residual changes sign and where its
tangent has collapsed, and the cell from which its price is strictly over the one asked
for (`above`): the sweeps compare within `VOL_TOLERANCE`, the bisection compares with
the price itself, and that is all the control flow asks of the prices. `Return`,
`Sweep`, `Break` and `RunOut` are the ways through a turn of the loop; `Rescue`,
`Halve`, `Rescued` and `Count` what follows it. The size of a Newton step is left
open, and where the code divides a residual of nothing by a small vega, so is its
direction.

**Serving.** A file is the generation of the build that wrote it, `Torn` between
open and close. A request is a thread with the reads it still owes, in
`/analyse`'s order; each is `Remembered`, or a `Miss`, a `Read` and an `Insert`, with
anything in between, because `lru_cache` holds no lock while it calls; what a day's
bounded caches evict is dropped at the miss, or by the entry not being kept. `ListObjects`,
`Fetch`, `Load` and `LoadFails` are `store.fetch`: one listing, then its objects one after
another, each as it is by then. `Kill` loses the caches and keeps the mirror. A build may
start at any time, under a process as well as between two, and writes a directory's files
in place and in order, a bucket's objects whole and in nearly any order (`Uploads`).
`Clear` is the deployment step `store.py` asks for; it is the operator's, so it may be
left out. Three variables are history: `cleared`, the build the mirror was last cleared
for; `atStart`, the last whole build when the process started; and `beside`, whether the
tree was written to while it was read into the process: a directory at any time of the
process' life, a bucket while objects were downloaded that are not of the build the mirror
was cleared for. No guard, and no other variable, depends on them.

## 3. What is checked

| Run | Module, config | Shows |
|---|---|---|
| `analyse_screen` | `MCAnalyseScreen`, `AnalyseScreen.cfg` | `OneInFlight`, `NoFreeze`, `NoQuestionRepeated`, `ComesToRest`, and that the screen implements `LatestAnswer` |
| `runtime_tree` | `MCRuntimeTree`, `RuntimeTree.cfg` | `FinishedIsCoherent`, `ManifestMeansFinished`, `PayoffNeverNarrows`, `HealsUnlessPayoffUnreadable`, `AKillPartsOneDay` |
| `healing` | same, `Healing.cfg` | finding: a kill around the Payoff artifact is never healed |
| `serving` | `MCServing`, `Serving.cfg` | `AnswersAreOfOneBuild`, `CornersSpanTheDomain`, `NothingMissingIsInvented`, `TypeOK` |
| `chain_day` | `MCChainDay`, `ChainDay.cfg` | derivation: `ServesTheLastPrints`, `VolatilityMovesOnlyOnAPrint`, `SolvedOnce`, `MoneyIsOfTheMinute`, `ClockCountsSessionMinutes`; answers: `HeaderIsTheTables`, `AnswersFitTheirModels`, `DeltasArePairs`, `AnalysisIsOfTheChain`, `SessionIsServed` |
| `flat_session` | same, `FlatSession.cfg` | finding: an uncounted date's clock runs |
| `expiry_close` | same, `ExpiryClose.cfg` | finding: the last minute offers what cannot be analysed |
| `implied_vol` | `MCImpliedVol`, `ImpliedVol.cfg` | `BracketHoldsTheAnswer`, `RescuesWhatItMust` |
| `chain_page` | `MCChainPage`, `ChainPage.cfg` | `ScreenIsServed`, `OneDayPerAddress`, `LinkReopens`, `LegsOfTheSeries`, `NotQuotedOnlyAfterMoving` |
| `no_expiry_line` | same, `NoExpiryLine.cfg` | finding: an unpriceable Leg is explained as two Expiries |
| `leg_editor` | `MCLegEditor`, `LegEditor.cfg` | `EveryLegPriceable`, `PremiumIsOfItsContract`, `ReadWholeOrNotAtAll` |
| `strategy_line` | `MCStrategyLine`, `StrategyLine.cfg` | `LineFollowsTheLegs`, `ExtremaAreTheLines`, `BreakevensAreTheZeros`, `WingsAreOnTheChart`, `WingsCapTheLoss`, `PresetsKeepTheirShape` |

Type invariants are theorems (`TypeCorrect` of each proof module), and `Serving`'s is
checked by its run as well. Every checked property has a
mutant in `PROJECT.json`: a plausible bug, defined beside the operator it
mutates, under which TLC finds the property violated.

### Bounds, and why they are enough

- *Analyse.* Three Strategies (the empty one is special to the tabs) and three
  edits between openings of the page: two edits can fall inside one request and a
  third inside the next. The page may be reopened without bound.
- *Tree.* Two days, two versions of the code (one narrower, one wider), two hand
  builds, two kills: a killed build can be followed by a killed repair and then
  by a partial build in other code. Three strikes tell apart dropped, kept and
  added ones.
- *Chain derivation and answers.* Three dates with bars, one of them uncounted and
  one Expiry, and a session without bars between them: each branch of the
  calendar. Sessions of two minutes have three stamps: a print can be missing in
  the middle, or at the first, and be carried across two. Two strikes with both
  sides and up to four bars, pairs enough from one on (the code asks for five; the
  ladder only compares with the threshold): a minute can be regressed, be a pair
  short, fail its gate, or have its nearest strike unpaired. Levels on a strike and
  midway, where two strikes are as near. Strategies of up to two Legs, so that
  one of them can be unpriceable beside one that is not, and three labels: the
  date's Expiry, one it did not trade, and text that is none. The build ends after
  the last date, so deadlock is not checked. 67 thousand states, two minutes.
- *Serving.* Two threads, two days, two generations of the tree, one fault (a kill or
  a failed download), threads symmetric: a thread can read half way through the
  other's mirroring, a wider tree can be written between two reads or two downloads, and
  a process can be killed half way through the mirror and come back to it, cleared or not.
  Uploads to a bucket are one at a time here: their order is seen only by a mirror filled
  beside them, of which the run claims no more than types, and the proofs are for any
  number at a time. 1.4 million states, a minute.
- *Solver.* Two rows of any shape over four cells, three sweeps, two halvings: a row
  can be moved, stopped, stuck and launched out of its tolerance while the other
  is not there yet. The fineness of the bracket is arbitrary in the proof.
- *Chain page.* Two dates of which one lacks an Expiry, minutes that one pair
  has and another has not, a put quoted late and unpriceable on the last day,
  four links (empty, stored, a day never built, an Expiry the day never traded).
  Six gestures allow three changes of view with a Preset outstanding, and two Legs
  one that stays beside one that moved. A run
  ends when the gestures are spent, so deadlock is not checked there.
- *Leg editor.* Three strikes: quoted on both sides, on one only, and quoted but
  without volatility; amounts below zero, zero, one lot, a fraction of a lot, and
  three lots; two Legs, so that an edit has a sibling to leave alone. A page that
  cannot read its link stops, so deadlock is not checked.
- *Strategy and Presets.* By hand: three strikes, two Quantities, two premiums, up
  to three Legs: every vertical, straddle, ratio and butterfly on a three-rung
  ladder. Presets: all five, both ways round, on five rungs, at every monotone and
  convex set of call prices with puts at parity, each price, the puts' too, of at most
  ten ticks (the Forward is at six: a call below it costs at least four). The window is
  chosen narrow enough that the outer strikes widen it. Percentages are
  parameters, larger here than the code's 6 % and 2 % because the axis is short.
  The loop ends after the last Leg, so deadlock is not checked.

### Fairness

- `AnalyseScreen`: weak fairness of `Render`, of the effect, and of a request
  coming back. React renders queued updates and flushes effects, and a fetch
  resolves or rejects; the reducer treats both. The trader owes nothing.
- `RuntimeTree`: weak fairness of the running build, the entry script's check and
  a restart of a stopped container. Kills are bounded, and nobody is obliged to
  build by hand or to edit code. `RUNTIME_CHECK=1` is excepted: there the script
  exits by design on a tree that does not match the code. The restart is somebody's:
  compose states no restart policy. And the container counts as healed when it is up,
  over a torn manifest too: section 5 says what the script does with one.
- `ChainDay`, `ChainPage`, `LegEditor`, `StrategyLine`, `ImpliedVol` and `Serving` are
  checked for safety only. The solver's loops are bounded by a counter, so that it
  ends needs no fairness.

### The refinement

`AnalyseScreen` implements `LatestAnswer` under `heard <- state.settled`,
`shown <- state.analysis`, `refused <- state.problem`, `said <- said`: question
numbers, renders and the network disappear, and what remains is that the figures
move forward through the trader's Strategies.

## 4. What is proved

TLAPS, for every value of the constants that meets the named `ASSUME`s:

- `AnalyseScreenProofs`: `TypeCorrect`, `OneInFlightAlways`, `NoFreezeEver`,
  `NoQuestionEverRepeated`, `Refinement` (the safety half: initial states map to
  initial states and every step to a step of `LatestAnswer` or a stutter). The
  inductive invariant adds `Numbered` (question numbers count the edits in
  `said`), `Outstanding` (the request in flight is the one the newest state marks,
  and carries the Legs of its number) and the three shapes the pair
  `state`, `pending` can have: `Unmoved` (no answer or ask since the render),
  `Sent` or `Heard`. `OneInFlight` alone is not inductive: nothing in it says
  that a request in flight is marked where the next effect will look.
- `RuntimeTreeProofs`: `TypeCorrect`, `FinishedAlwaysCoherent`,
  `ManifestAlwaysMeansFinished`, `PayoffNeverEverNarrows`,
  `AKillAlwaysPartsOneDay`. The invariant says, for
  each phase of the build, which files it has already made whole
  (`BuildShape`, `DaysWritten`, `PayoffHolds`), who may be building
  (`WhoBuilds`), and that a finished tree stays finished until the next build
  starts (`Finished`, and `Marker`, which is of the manifest's file as soon as it is
  opened). The last theorem counts: a step parts only the day the build is writing, which
  the count leaves out until a kill spends one of its `crashes` on it (`BuildParts`,
  `KillParts`), and fewer parted days are a finite set of no greater cardinality
  (`FewerParted`).
- `ChainDayProofs`: `ClockIsMinutesLeft` (the clock at a minute of a counted session
  is the number of minutes left, by counting the pairs of a session and a minute),
  and of every stored date `AlwaysClockCounts`, `AlwaysServesTheLastPrints`,
  `AlwaysMoneyOfTheMinute`, `AlwaysSolvedOnce` (the fallback asks only where
  the first pass gave nothing) and `AlwaysMovesOnAPrint` (two minutes between which
  a strike did not print read one pair of bars, so one volatility). The invariant
  says what each stage owes the next: bars and fits have their types, every fit came
  off a rung its minute's own bars allow, and the stored artifacts are
  `carry_forward` and `summary_frame` of those bars. The rest is about the
  operators: `GreatestMember` (a moment with bars at or before it has a latest one),
  `StoredRows` (reading the filled Chain at a moment is `InHand` at the latest
  minute), `NearestMember` and `MoneyIsPaired` (the money is one of the pairs when
  there are any), `MeasuredHasPairs` (a rung that measures had a pair).
  The answers of `Engine` follow from the same invariant: `AlwaysHeaderIsTheTables`,
  `AlwaysDeltasArePairs`, `AlwaysSessionIsServed`, `AlwaysAnalysisIsOfTheChain`,
  `AlwaysFitsTheModels`. Everything turns on one minute. `SnapshotIsTheMinute` shows that
  the as-of table at a moment is what was in hand at the last minute with a bar, and
  `AnsweringMinute` that the Summary's own rule finds that same minute in its own
  artifact; from there `HeaderMoney` and `TableRow` put the header's money among the
  rows, and `OfferedIsPriced`
  says that what the table offers is what `/analyse` prices, by running through its
  refusals in the code's order. A Strategy's length is arbitrary there
  (`QuestionAssumption`); the totals, which fold over it, are shown of one Leg
  (`TotalOfOne`), all that `AnswersFitTheirModels` asks of them.
- `ChainPageProofs`: `AlwaysServed`, `AlwaysOneDay`, `LinkAlwaysReopens`,
  `AlwaysOfTheSeries`, `NotQuotedAlwaysMoved`. The invariant says that the screen is a
  resolved view, that every address on its way and every Preset's view speaks of
  one day, and that the Legs of both are of their series (`OfSeries`, until a Strategy
  is rendered in a series its link did not name) and each was in its own series' Chain
  in the minute it was picked (`OnItsChain`, which no rendering loses and which
  `LegsOfTheSeries` therefore says of carried Legs too). What is
  quoted in a minute is quoted in every later one of its day, so a Leg refused as not
  quoted was moved. Resolving takes a least member of finite sets of dates and
  minutes (`LeastMember`, from the well-foundedness of the naturals).
- `LegEditorProofs`: `AlwaysPriceable`, `PremiumAlwaysOfItsContract`,
  `AlwaysReadWhole`. The invariant speaks of each Leg with the flag that says
  whether its premium was typed, and keeps the address equal to the Legs encoded.
  The work is in `NearestOnLadder`: the rung a side flip snaps to is a rung.
- `ImpliedVolProofs`: `BisectionIsSound`, `CollapsedRowsAreSolved` and `TypeCorrect`, for
  any number of rows, sweeps and halvings. The invariant adds what the sweeps owe the
  bisection: a stuck row has not moved since (`Untouched`), a row that is neither stuck
  nor converged used up the sweeps or asks for a price out of reach (`Swept`). The strict
  comparison halves towards the price and not towards what is judged to reproduce it, so
  the bracket keeps neither the lowest nor the highest answer: what it does keep is the
  cell the price is crossed in (`Bracketed`), and that one reproduces it
  (`CrossingReproduces`).
- `StrategyLineProofs`: `LineIsPiecewise` (the line bends only at strikes, its tail
  is the calls' slope, and the Net Premium is what the Legs cost) and
  `ExtremaAreAlwaysTheLines` (Max Profit, Max Loss and Unlimited are those of the
  whole line), `BreakevensAreAlwaysTheZeros` and `WingsAreAlwaysOnTheChart`.
  `PayoffIsExact` shows that interpolating the three corners loses
  nothing. `CornerNotBelow` is the argument the engine relies on: at the first
  Forward above every corner the line is rising, and it still rises at each step
  to the next corner. A Breakeven is found between two neighbouring corners, so its
  proof needs the line straight between them: `StraightBetweenBends` takes the least
  Forward at which it is not, and the one before it bends. `CrossingIsAZero` then shows
  that the interpolated Forward is a zero even where it falls between two ticks, and `ZeroOfASegment` that no zero of a segment is passed over.
- The same module proves the Presets. `PresetsAreStrategies` is a refinement:
  picking a Preset is a stutter of `StrategyLine` and each of its Legs a `Sum`, so all of
  the above holds of them. `WingsAlwaysCapTheLoss` and `PresetsAlwaysKeepTheirShape` need
  more than `LineInv`, which says where the line bends and not what it is:
  `PresetInv` adds the running sums of the Legs so far (`SumsInv`) and that what is
  summed and what is pending are together the Preset's Legs at the prices picked
  (`ShapeInv`). A built Preset's line is then a sum of two or four known terms; that a
  fly collects no less than a condor is the convexity of the calls.
- `ServingProofs`: `AlwaysOneBuild`, `AlwaysCornersSpan`, `NeverInvented` (a property of
  steps) and `TypeCorrect`, for any number of threads, days, builds, uploads and faults.
  `AnswersAreOfOneBuild` speaks of answers that are finished and is far from
  inductive. The invariant says what a file may be while its build runs (`SourceInv`),
  what a mirror holds (`MirrorInv`: files of the build it was cleared for unless it was
  filled beside another, and once the root is remembered every file the tree had when
  the process started), what the caches hold (`CacheInv`), and of each thread what it has
  listed and passed (`Fetching`), which reads it owes (`Reading`), that all it holds is of
  the served build (`Steady`) and that it reads the corners after the bounds (`Spanning`).
  `served` is what makes it go through: a mirror serves the build it was cleared for,
  whatever the bucket has become, and a directory its last. `AnswersAreOfOneBuild` has a
  second half for a directory that was written to: an answer of it may mix builds, but
  none older than the one whole when the process started, because a build only ever
  replaces a file by its own (`SourceInv` leaves a file one of two generations, or torn, or
  absent) and caches do not outlive the process. What the theorems except, the reads beside
  a build, is what the code does not promise; section 5 says what happens there. Not
  excepted: a bucket rebuilt under a process that has mirrored it,
  before one that finds all it lists already there, or before a mirror is cleared; kills
  and failed downloads anywhere; and, of `CornersSpanTheDomain` and
  `NothingMissingIsInvented`, a directory rebuilt under the process.

No induction over data was needed: a least counterexample (`LeastMember`) takes its place
on Forwards, minutes and listings, and the four terms of a Preset are unfolded one by one.

Assumed: the calendar, the strikes and the stores are finite where a least member is
taken, strikes lie strictly inside the stored domain (twice the highest strike), an
instrument once quoted in a day stays quoted, a link's Legs are of the Expiry it
names and were picked nowhere, prices do not fall as volatility grows and rows are
alive (T > 0, as `derive.attainable` makes them), one lot is a Quantity (each Leg of a
Preset is one), the generations and days of the tree are at least one, and bounds are
naturals. Of `Serving`: a bucket's object is replaced whole, and its mirror is cleared, when
it is cleared, between two processes (a mirror emptied under a running one is not modelled).
Of `ImpliedVol`: a cell is too narrow for the price to cross its tolerance within it (the
5/2^60 of the last halving moves no price by 1e-8), so the cell a price is crossed in
reproduces it. The Presets' prices are those without arbitrage: no strike's call or put below
nothing, calls falling and convex in the strike, puts at parity. TLC
evaluates every assumption on every run.

Only model-checked: `ComesToRest`, `HealsUnlessPayoffUnreadable` and the fair half of
`ImplementsLatestAnswer`. All three are liveness, which needs ENABLED of the fair
actions and is out of this prover's reach. Every invariant and every property of steps
that a passing run checks is a theorem.

What proving changed in the model, each with TLC's agreement:

- `Engine!meets`, the refusal a Leg meets in `resolve_legs`' loop, was a CASE whose arms
  overlap: TLA+ leaves open which of them is taken, where the code takes the first. It is
  an IF chain now.
- `Presets!NoArbitrage` allowed a put dearer than every Premium, so that a Preset's Legs
  were not Legs of `StrategyLine` and the refinement failed. Put prices are Premiums now,
  and the run has enough of them.
- The invariant of `ChainDay` did not say that a date past its bars has any
  (`stage # "bars" => moments # {}`), without which `/session` has no last minute.

## 5. Findings

1. `build_runtime.py:428`: a build killed between making the Payoff directory and
   closing its file makes every later build raise (`healing`).
2. `seed.py:179`: on 1 Feb 2026, a date the clock does not count, time to Expiry
   falls from 7.0 to 6.0 and is 7.0 again on Monday, where `seed.py:77` says it sits
   flat; every volatility of that day is solved with it (`flat_session`).
3. `app/analyse/page.tsx:98`: a quoted Leg without a volatility is refused under
   the heading of a Strategy across two Expiries (`no_expiry_line`).
4. `strategy.py:478`: in the last minute of Expiry day a strike that printed earlier
   is offered at its carried volatility, and analysing it raises a `ValueError` that
   `api.py` does not handle, where `test_api_strikes.py:182` says the offered and the
   priceable are one set (`expiry_close`).

What reading and modelling showed besides, without a run of its own:

- A build killed inside the manifest's own file leaves a file that `engine-entry.sh:6`
  takes for a finished build, where the design
  (`docs/superpowers/specs/2026-08-31-dockerize-dev-environment-design.md:204`) says the manifest is then
  absent and the tree rebuilt. `ManifestMeansFinished` says what is true instead: the
  manifest's file, torn too, stands on a tree in which all else is written.
- A rebuild under changed code killed between a day's Chain and its Summary leaves the two
  of two derivations and the day listed (`build_runtime.py:399`), where
  `build_runtime.py:393` says they cannot describe different minutes. By `AKillPartsOneDay`
  a kill does this to one day at most, and by `FinishedIsCoherent` the next
  finished build of every date mends it.
- Two clicks on either side of a change of date, to one that did not trade the Expiry,
  build a Strategy across two Expiries (`ChainScreen.tsx:90`), where
  `app/analyse/page.tsx:77` says it has to be written by hand. Going to such a date and
  back leaves one series' Legs on the other's screen, and Analyse may then show the header
  of the one beside the chart of the other. `LegsOfTheSeries` says of every Leg that it was
  in its own series' Chain when it was picked, and of Legs not so carried that the series
  is the screen's.
- A directory rebuilt under a running process gives answers of two builds
  (`catalog.py:136`), where `catalog.py:140` calls the store immutable for the life of the
  process. An answer's domain may then be newer than the corners it was given, if a whole
  build fits inside one read; what the caches keep never is (`CornersSpanTheDomain`), and
  no answer has anything older than the start (`AnswersAreOfOneBuild`): a restart mends it.
- A bucket rebuilt while it is mirrored leaves a mirror of two builds that no later fetch
  mends (`store.py:208`), where `store.py:188` says a file that is here cannot be out of
  date. The model has it, with `beside`; clearing the mirror mends it.
- The refusal of a day asks for a build (`catalog.py:65`), and a running process repeats it
  after the build it asked for: it read its list of days once (`catalog.py:136`).
- Between an edit and its answer the Greeks tab lists the edited Legs beside the
  rows of the Legs before (`AnalyseScreen.tsx:190`), where `models.py:267` says rows
  and Legs are matched by position.
- A negative premium, or a quantity with a fraction, can be typed into the cards and
  writes an address the grammar (`legs-url.ts:42`) does not read: `ReadWholeOrNotAtAll`
  says the page then refuses rather than misreads.
- A line flat at zero lists both ends of the stored domain as Breakevens
  (`strategy.py:411`): zeros they are, so `BreakevensAreTheZeros` holds
  of them, but no crossing.
- At T = 0 a row can have a delta and no volatility, where `models.py:295` has the two
  together: `DeltasArePairs` relates them while time is left only.
- `Toggle` takes the Leg off on the second click of B, where `positions.ts:45` says two
  clicks build two lots, and a gesture made before the last one has rendered replaces
  it (`ChainScreen.tsx:125`); every property of the Chain page holds all the same.

## 6. What is not modelled

- Floating point: the formulas of Black-76 and the Greeks, the regression of the
  Forward and its gate. What the model leaves open in their place is said above.
  Rounding, formatting, layout, drawing and theme.
- In the derivation: the wire's shape, a second Expiry on one date
  (`build_runtime.py:206` takes none), a bar without an index price (`seed` raises),
  prices that repeat.
- In the Chain page: quantity and premium boxes of its strip (the Leg editor
  models the same boxes), and a server render that fails.
- In the Leg editor: Legs of another series than the Chain's, and the minute
  changing under the cards (the Chain page's business).
- In Strategy: the reward/risk ratio and the sampled grid's 400 points beyond its
  two ends.
- In Serving: which bucket listing order a provider returns (one order is modelled,
  the one S3 documents), and a partial listing that raises.
- Validation envelopes of the HTTP surface and its client, chart zoom (`zoom.ts:43`,
  a pure function of a window), tables, development scripts, notebooks.

## 7. Plan

Done: the Analyse loop, the runtime tree, the Chain page and its links, the Leg
editor, the line at Expiry and the Presets, the Chain derivation with clock and
Forward ladder, the answers of every endpoint, the solver, the serving caches
with the mirror, and a theorem for each of their safety properties. Left, in order:

1. **An abstract specification of Serving**: a store that answers each request from
   one build, refined by `Serving` where nothing is built beside it. `served` and
   `Steady` are the mapping and most of its proof.
2. **The findings as theorems**: what holds up to the last minute of Expiry and fails in
   it (`expiry_close`), with the exact condition under which `healing` heals.
3. **Composition**: the Chain page's addresses opened by the Leg editor and the
   Analyse screen, as one trader's session; `Serving` over `RuntimeTree`'s torn builds.
4. **Zoom** (`zoom.ts`): windows stay within the data under any sequence of gestures.
