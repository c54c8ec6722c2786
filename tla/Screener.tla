------------------------------ MODULE Screener ------------------------------
(***************************************************************************)
(* The daily universe: UniverseScreener.run with its filters, the bulk     *)
(* download behind it (market_data: the semaphore, the retries and the     *)
(* cache that outlives a screening) and the universe table it saves to and *)
(* falls back on.                                                          *)
(*                                                                         *)
(* A symbol's bars are abstracted to the filters they fail, and the moment *)
(* the broker read them.                                                   *)
(***************************************************************************)
EXTENDS Integers, FiniteSets

CONSTANTS Symbols,         \* the base list
          Bars,            \* what bars can be: sets of stages they fail
          Permits,         \* _SEMAPHORE_LIMIT
          TTL,             \* _CACHE_TTL_SECONDS
          MaxRetries,      \* of _fetch_bars_sync
          MinSize,         \* min_universe_size
          Latency,         \* from the broker's reading to the loop's receiving
          MaxTime          \* bound: the clock

Stages == {"price", "liquidity", "volatility"}

ASSUME ScreenerAssumption ==
    /\ IsFiniteSet(Symbols) /\ Symbols # {}
    /\ Bars \subseteq SUBSET Stages
    /\ Permits \in Nat \ {0}
    /\ {TTL, MaxRetries, MinSize, Latency, MaxTime} \subseteq Nat

VARIABLES
    now,           \* time.time()
    cache,         \* _cache: entries of the symbols that have one
    fetch,         \* per symbol: where its _fetch_one is
    pc,            \* where run is
    again,         \* run has called the pipeline a second time
    results,       \* per symbol, the bars fetch_bars_bulk returns; NoBars if none
    passed,        \* the symbols left by the filters so far
    rejected,      \* symbols in the dict rejected
    saved,         \* the latest universe in the database; NoUniverse at first
    hadBig         \* ghost: a universe of MinSize symbols was saved

screening == <<again, results, passed, rejected>>
database  == <<saved, hadBig>>
vars      == <<now, cache, fetch, pc, screening, database>>

NoBars     == [fails |-> {}, age |-> -1]
NoResults  == [s \in Symbols |-> NoBars]
NoEntry    == [fails |-> {}, read |-> -1, stamp |-> -1]
NoUniverse == [passed |-> {}, rejected |-> {}]

IdleFetch == [pc |-> "idle", tries |-> 0, fails |-> {}, read |-> -1]

FetchPcs == {"idle", "queued", "asking", "replied", "done", "failed"}

Big(universe) == Cardinality(universe) >= MinSize

-----------------------------------------------------------------------------
\* Definitions whose name ends in an underscore are deliberately wrong variants
\* of the definition that follows them, used to test the properties.

CacheValid_(s) == cache[s] # NoEntry

\* _is_cache_valid: the age is counted from when the bars came, not from when
\* the broker read them.
CacheValid(s) == cache[s] # NoEntry /\ now - cache[s].stamp < TTL

Holding_ == {s \in Symbols : fetch[s].pc \in {"asking", "replied", "failed"}}

\* The fetches inside the semaphore.
Holding == {s \in Symbols : fetch[s].pc \in {"asking", "replied"}}

WithBars == {s \in Symbols : results[s] # NoBars}

\* Those of the symbols whose bars pass a stage: _filter_price, _filter_liquidity
\* and _filter_volatility.
Passing(stage, symbols) == {s \in symbols : stage \notin results[s].fails}

Screened == Passing("volatility", Passing("liquidity", Passing("price", WithBars)))

Rejected_ == WithBars \ Screened

\* Symbols without data are rejected like those that fail a filter.
Rejected == Symbols \ Screened

\* _filter_spread: a symbol without a quote is not rejected, nor is any when
\* there are no quotes.
Tight(quotes) == {s \in passed : quotes[s] # "wide"}

-----------------------------------------------------------------------------
Init ==
    /\ now = 0
    /\ cache = [s \in Symbols |-> NoEntry]
    /\ fetch = [s \in Symbols |-> IdleFetch]
    /\ pc = "idle"
    /\ again = FALSE
    /\ results = NoResults
    /\ passed = {}
    /\ rejected = {}
    /\ saved = NoUniverse
    /\ hadBig = FALSE

\* _run_pipeline up to the gather: one fetch per symbol waits for a permit.
Pipeline ==
    /\ pc' = "fetching"
    /\ fetch' = [s \in Symbols |-> [IdleFetch EXCEPT !.pc = "queued"]]
    /\ passed' = {}
    /\ rejected' = {}

Run ==
    /\ pc \in {"idle", "returned", "raised"}
    /\ Pipeline
    /\ again' = FALSE
    /\ UNCHANGED <<now, cache, results, database>>

-----------------------------------------------------------------------------
(***************************************************************************)
(* fetch_bars_bulk.                                                        *)
(***************************************************************************)

\* The fetch gets a permit and is served from the cache, or asks the broker.
Enters(s) ==
    /\ fetch[s].pc = "queued"
    /\ Cardinality(Holding) < Permits
    /\ IF CacheValid(s)
       THEN /\ results' = [results EXCEPT ![s] =
                              [fails |-> cache[s].fails, age |-> now - cache[s].read]]
            /\ fetch' = [fetch EXCEPT ![s].pc = "done"]
       ELSE /\ fetch' = [fetch EXCEPT ![s].pc = "asking"]
            /\ UNCHANGED results
    /\ UNCHANGED <<now, cache, pc, again, passed, rejected, database>>

\* _fetch_bars_sync, in a thread: the broker reads the bars, has none, or the
\* call raises and is made again until its retries are used up.
BrokerAnswers(s) ==
    /\ fetch[s].pc = "asking"
    /\ \/ \E bars \in Bars :
             fetch' = [fetch EXCEPT ![s].pc = "replied", ![s].fails = bars, ![s].read = now]
       \/ fetch' = [fetch EXCEPT ![s].pc = "failed"]
       \/ fetch' = [fetch EXCEPT ![s].tries = @ + 1,
                                 ![s].pc = IF fetch[s].tries = MaxRetries THEN "failed"
                                                                          ELSE "asking"]
    /\ UNCHANGED <<now, cache, pc, screening, database>>

\* The loop receives the bars, and stamps them.
Receives(s) ==
    /\ fetch[s].pc = "replied"
    /\ LET f == fetch[s] IN
          /\ cache' = [cache EXCEPT ![s] = [fails |-> f.fails, read |-> f.read, stamp |-> now]]
          /\ results' = [results EXCEPT ![s] = [fails |-> f.fails, age |-> now - f.read]]
    /\ fetch' = [fetch EXCEPT ![s].pc = "done"]
    /\ UNCHANGED <<now, pc, again, passed, rejected, database>>

-----------------------------------------------------------------------------
(***************************************************************************)
(* The rest of the pipeline.  Every exception ends in the handler at its   *)
(* end, "crashed".                                                         *)
(***************************************************************************)

Crashes == pc' = "crashed" /\ UNCHANGED <<passed, rejected>>

\* The gather is over: the filters run, and the quotes are asked for.  The bars
\* are not used again.
Filters ==
    /\ pc = "fetching"
    /\ \A s \in Symbols : fetch[s].pc \in {"done", "failed"}
    /\ \/ /\ pc' = "quoting"
          /\ passed' = Screened
          /\ rejected' = Rejected
       \/ Crashes
    /\ fetch' = [s \in Symbols |-> IdleFetch]
    /\ results' = NoResults
    /\ UNCHANGED <<now, cache, again, database>>

\* The spread filter, which an exception only skips, and the test of the size.
Quotes ==
    /\ pc = "quoting"
    /\ \/ \E quotes \in [passed -> {"tight", "wide", "none"}] :
             /\ passed' = Tight(quotes)
             /\ rejected' = rejected \union (passed \ Tight(quotes))
       \/ UNCHANGED <<passed, rejected>>
    /\ pc' = IF Big(passed') THEN "saving" ELSE "falling"
    /\ UNCHANGED <<now, cache, fetch, again, results, database>>

Usable_(universe) == Cardinality(universe) > MinSize

\* A universe of an earlier day good enough to be used in place of a small one.
Usable(universe) == universe # {} /\ Big(universe)

Returns(universe) == pc' = "returned" /\ passed' = universe /\ rejected' = {}

\* A small universe is only saved when the latest one is no better.
FallsBack ==
    /\ pc = "falling"
    /\ \/ IF Usable(saved.passed)
          THEN Returns(saved.passed)
          ELSE pc' = "saving" /\ UNCHANGED <<passed, rejected>>
       \/ Crashes
    /\ UNCHANGED <<now, cache, fetch, again, results, database>>

\* save_universe commits or raises.
Saves ==
    /\ pc = "saving"
    /\ \/ /\ saved' = [passed |-> passed, rejected |-> rejected]
          /\ hadBig' = (hadBig \/ Big(passed))
          /\ Returns(passed)
       \/ Crashes /\ UNCHANGED database
    /\ UNCHANGED <<now, cache, fetch, again, results>>

\* The handler returns the latest universe, whatever its size.  If that fails
\* too the exception leaves the pipeline; run takes a RuntimeError for the
\* event loop's and calls the pipeline again.
Handles ==
    /\ pc = "crashed"
    /\ \/ Returns(saved.passed) /\ UNCHANGED <<fetch, again>>
       \/ /\ pc' = "raised"
          /\ UNCHANGED <<fetch, again, passed, rejected>>
       \/ ~again /\ again' = TRUE /\ Pipeline
    /\ UNCHANGED <<now, cache, results, database>>

-----------------------------------------------------------------------------
\* Bounds the time a reply is under way.
Tick ==
    /\ now < MaxTime
    /\ \A s \in Symbols : fetch[s].pc = "replied" => now - fetch[s].read < Latency
    /\ now' = now + 1
    /\ UNCHANGED <<cache, fetch, pc, screening, database>>

\* A new process: the cache is gone, the universes are not.
Restart ==
    /\ now' = now
    /\ cache' = [s \in Symbols |-> NoEntry]
    /\ fetch' = [s \in Symbols |-> IdleFetch]
    /\ pc' = "idle"
    /\ again' = FALSE
    /\ results' = NoResults
    /\ passed' = {}
    /\ rejected' = {}
    /\ UNCHANGED database

FetchStep(s) == Enters(s) \/ BrokerAnswers(s) \/ Receives(s)

PipelineStep == Filters \/ Quotes \/ FallsBack \/ Saves \/ Handles

Next ==
    \/ Run
    \/ \E s \in Symbols : FetchStep(s)
    \/ PipelineStep
    \/ Tick
    \/ Restart

Spec == Init /\ [][Next]_vars

\* The event loop and the executor's threads are scheduled and every call ends.
FairSpec ==
    /\ Spec
    /\ WF_vars(PipelineStep)
    /\ \A s \in Symbols : WF_vars(FetchStep(s))

-----------------------------------------------------------------------------
(***************************************************************************)
(* Properties                                                              *)
(***************************************************************************)

Fetch == [pc : FetchPcs, tries : Nat, fails : Bars \union {{}}, read : Int]

Universe == [passed : SUBSET Symbols, rejected : SUBSET Symbols]

TypeOK ==
    /\ now \in Nat
    /\ cache \in [Symbols -> [fails : Bars \union {{}}, read : Int, stamp : Int]]
    /\ fetch \in [Symbols -> Fetch]
    /\ pc \in {"idle", "fetching", "quoting", "falling", "saving", "crashed",
               "returned", "raised"}
    /\ again \in BOOLEAN
    /\ results \in [Symbols -> [fails : Bars \union {{}}, age : Int]]
    /\ passed \in SUBSET Symbols
    /\ rejected \in SUBSET Symbols
    /\ saved \in Universe
    /\ hadBig \in BOOLEAN

\* Whatever combination of cache, failed fetches and filters led there, a saved
\* universe accounts for every symbol of the base list exactly once.
Accounted ==
    saved # NoUniverse =>
        saved.passed \union saved.rejected = Symbols /\ saved.passed \cap saved.rejected = {}

\* Bars are never screened that the broker read longer ago than the cache's time
\* and a reply's together.
ServedFresh == \A s \in Symbols : results[s].age <= TTL + Latency

ScreenerInv ==
    /\ TypeOK
    /\ Accounted
    /\ Cardinality(Holding) <= Permits
    /\ \A s \in Symbols : fetch[s].tries <= MaxRetries + 1

\* Once a universe of the required size was saved, the latest one has it too and
\* so has every universe that run returns, whichever of its calls fail.
FallbackHolds ==
    hadBig => Big(saved.passed) /\ (pc = "returned" => Big(passed))

\* Every screening ends, however many downloads fail.
ScreeningEnds == pc = "fetching" ~> pc \in {"idle", "returned", "raised"}

=============================================================================
