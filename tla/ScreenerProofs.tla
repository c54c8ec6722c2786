--------------------------- MODULE ScreenerProofs ----------------------------
(***************************************************************************)
(* The safety properties of the screening, for every base list, number of  *)
(* permits and retries, cache time and required size.                      *)
(***************************************************************************)
EXTENDS Screener, FiniteSetTheorems, TLAPS

-----------------------------------------------------------------------------
(***************************************************************************)
(* The inductive invariant.                                                *)
(***************************************************************************)

\* Only a failed fetch has used up its retries.
TriesBounded ==
    \A s \in Symbols :
        fetch[s].tries <= IF fetch[s].pc = "failed" THEN MaxRetries + 1 ELSE MaxRetries

PermitsKept == Cardinality(Holding) <= Permits

\* The stamp of an entry is at most a reply's time younger than its bars.
StampsClose ==
    \A s \in Symbols :
        /\ cache[s].stamp - cache[s].read <= Latency
        /\ fetch[s].pc = "replied" => now - fetch[s].read <= Latency

\* From the filters to the table a symbol either has passed or is rejected.
Partitioned ==
    pc \in {"quoting", "falling", "saving"} =>
        passed \union rejected = Symbols /\ passed \cap rejected = {}

\* A small universe gets as far as being saved only if no big one was.
SavesBig == pc = "saving" /\ hadBig => Big(passed)

-----------------------------------------------------------------------------
\* The variables have their types.
LEMMA InitTypes == Init => TypeOK
  <1> SUFFICES ASSUME Init PROVE TypeOK
    OBVIOUS
  <1>1. IdleFetch \in Fetch
    BY DEF IdleFetch, Fetch, FetchPcs
  <1>2. NoEntry \in [fails : Bars \union {{}}, read : Int, stamp : Int]
    BY DEF NoEntry
  <1>3. NoBars \in [fails : Bars \union {{}}, age : Int]
    BY DEF NoBars
  <1>4. NoUniverse \in Universe
    BY DEF NoUniverse, Universe
  <1> QED BY <1>1, <1>2, <1>3, <1>4 DEF Init, TypeOK, NoResults

\* What one fetch may become leaves the others alone.
LEMMA FetchTyped ==
    ASSUME TypeOK, NEW s \in Symbols, NEW f \in Fetch, fetch' = [fetch EXCEPT ![s] = f]
    PROVE  fetch' \in [Symbols -> Fetch]
  BY DEF TypeOK

\* What a broker's answer makes of a fetch.
LEMMA Answered ==
    ASSUME TypeOK, NEW s \in Symbols, BrokerAnswers(s)
    PROVE  \E f \in Fetch :
              /\ fetch' = [fetch EXCEPT ![s] = f]
              /\ f.pc \in {"replied", "failed", "asking"}
              /\ f.pc = "replied" => f.read = now
              /\ \/ f.tries = fetch[s].tries
                 \/ /\ f.tries = fetch[s].tries + 1
                    /\ f.pc = IF fetch[s].tries = MaxRetries THEN "failed" ELSE "asking"
  <1> DEFINE old == fetch[s]
  <1>1. old \in Fetch /\ now \in Int
    BY DEF TypeOK
  <1>2. CASE \E bars \in Bars :
               fetch' = [fetch EXCEPT ![s].pc = "replied", ![s].fails = bars, ![s].read = now]
    <2>1. PICK bars \in Bars :
            fetch' = [fetch EXCEPT ![s] = [old EXCEPT !.pc = "replied", !.fails = bars,
                                                      !.read = now]]
      BY <1>2, ZenonT(30) DEF TypeOK
    <2>2. [old EXCEPT !.pc = "replied", !.fails = bars, !.read = now] \in Fetch
      BY <1>1 DEF Fetch, FetchPcs
    <2> QED BY <1>1, <2>1, <2>2 DEF Fetch
  <1>3. CASE fetch' = [fetch EXCEPT ![s].pc = "failed"]
    <2>1. [old EXCEPT !.pc = "failed"] \in Fetch
      BY <1>1 DEF Fetch, FetchPcs
    <2> QED BY <1>1, <1>3, <2>1 DEF Fetch
  <1>4. CASE fetch' = [fetch EXCEPT
               ![s].tries = @ + 1,
               ![s].pc = IF fetch[s].tries = MaxRetries THEN "failed" ELSE "asking"]
    <2> DEFINE p == IF old.tries = MaxRetries THEN "failed" ELSE "asking"
    <2>0. p \in FetchPcs /\ old.tries + 1 \in Nat
      BY <1>1 DEF Fetch, FetchPcs
    <2>1. [old EXCEPT !.tries = old.tries + 1, !.pc = p] \in Fetch
      <3> HIDE DEF p
      <3> QED BY <1>1, <2>0 DEF Fetch
    <2>2. fetch' = [fetch EXCEPT ![s] = [old EXCEPT !.tries = old.tries + 1, !.pc = p]]
      BY <1>4 DEF TypeOK
    <2> QED BY <1>1, <2>1, <2>2 DEF Fetch
  <1> QED BY <1>2, <1>3, <1>4, ZenonT(30) DEF BrokerAnswers

\* A fetch that gets its permit.
LEMMA Entered ==
    ASSUME TypeOK, NEW s \in Symbols, Enters(s)
    PROVE  \E f \in Fetch :
              /\ fetch' = [fetch EXCEPT ![s] = f]
              /\ f.pc = IF CacheValid(s) THEN "done" ELSE "asking"
              /\ f.tries = fetch[s].tries
  <1> DEFINE f == [fetch[s] EXCEPT !.pc = IF CacheValid(s) THEN "done" ELSE "asking"]
  <1>1. fetch[s] \in Fetch
    BY DEF TypeOK
  <1>2. /\ f \in Fetch
        /\ f.pc = IF CacheValid(s) THEN "done" ELSE "asking"
        /\ f.tries = fetch[s].tries
    BY <1>1 DEF Fetch, FetchPcs
  <1>3. fetch' = [fetch EXCEPT ![s] = f]
    BY DEF Enters
  <1> QED BY <1>2, <1>3

LEMMA ScreenedSymbols == Screened \subseteq WithBars /\ WithBars \subseteq Symbols
  BY DEF Screened, WithBars, Passing

\* Types are kept by every step.
LEMMA TypeStep == TypeOK /\ [Next]_vars => TypeOK'
  <1> SUFFICES ASSUME TypeOK, [Next]_vars PROVE TypeOK'
    OBVIOUS
  <1> USE ScreenerAssumption DEF ScreenerAssumption, TypeOK
  <1> DEFINE Entry == [fails : Bars \union {{}}, read : Int, stamp : Int]
             Result == [fails : Bars \union {{}}, age : Int]
  <1>0. /\ IdleFetch \in Fetch
        /\ [IdleFetch EXCEPT !.pc = "queued"] \in Fetch
        /\ NoEntry \in Entry
        /\ NoBars \in Result
        /\ NoUniverse \in Universe
    BY DEF IdleFetch, Fetch, FetchPcs, NoEntry, NoBars, NoUniverse, Universe
  <1>p. Pipeline => /\ fetch' \in [Symbols -> Fetch]
                    /\ pc' = "fetching"
                    /\ passed' \in SUBSET Symbols
                    /\ rejected' \in SUBSET Symbols
    BY <1>0 DEF Pipeline
  <1>1. CASE Run
    BY <1>1, <1>p DEF Run, database
  <1>2. ASSUME NEW s \in Symbols, Enters(s) PROVE TypeOK'
    <2>1. fetch' \in [Symbols -> Fetch]
      BY <1>2, Entered, FetchTyped
    <2>2. results' \in [Symbols -> Result]
      BY <1>2 DEF Enters
    <2> QED BY <1>2, <2>1, <2>2 DEF Enters, database
  <1>3. ASSUME NEW s \in Symbols, BrokerAnswers(s) PROVE TypeOK'
    <2>1. fetch' \in [Symbols -> Fetch]
      BY <1>3, Answered, FetchTyped
    <2> QED BY <1>3, <2>1, ZenonT(30) DEF BrokerAnswers, screening, database
  <1>4. ASSUME NEW s \in Symbols, Receives(s) PROVE TypeOK'
    <2>1. fetch[s] \in Fetch
      OBVIOUS
    <2>2. fetch' \in [Symbols -> Fetch]
      BY <1>4 DEF Receives, Fetch, FetchPcs
    <2>3. cache' \in [Symbols -> Entry] /\ results' \in [Symbols -> Result]
      BY <1>4, <2>1 DEF Receives, Fetch
    <2> QED BY <1>4, <2>2, <2>3 DEF Receives, database
  <1>5. CASE Filters
    BY <1>5, <1>0, ScreenedSymbols DEF Filters, Crashes, Rejected, NoResults, database
  <1>6. CASE Quotes
    <2>1. passed' \in SUBSET Symbols /\ rejected' \in SUBSET Symbols
      BY <1>6 DEF Quotes, Tight
    <2>2. pc' \in {"saving", "falling"}
      BY <1>6 DEF Quotes
    <2> QED BY <1>6, <2>1, <2>2 DEF Quotes, database
  <1>7. CASE FallsBack
    BY <1>7 DEF FallsBack, Returns, Crashes, database, Universe
  <1>8. CASE Saves
    <2>1. Big(passed) \in BOOLEAN
      BY DEF Big
    <2>2. [passed |-> passed, rejected |-> rejected] \in Universe
      BY DEF Universe
    <2>3. saved' \in Universe /\ hadBig' \in BOOLEAN
      BY <1>8, <2>1, <2>2 DEF Saves, Crashes, database
    <2> QED BY <1>8, <2>3 DEF Saves, Returns, Crashes
  <1>9. CASE Handles
    BY <1>9, <1>p DEF Handles, Returns, database, Universe
  <1>10. CASE Tick
    BY <1>10 DEF Tick, screening, database
  <1>11. CASE Restart
    BY <1>11, <1>0 DEF Restart, NoResults, database
  <1>12. CASE UNCHANGED vars
    BY <1>12 DEF vars, screening, database
  <1> QED BY <1>1, <1>2, <1>3, <1>4, <1>5, <1>6, <1>7, <1>8, <1>9, <1>10, <1>11, <1>12
          DEF Next, FetchStep, PipelineStep

-----------------------------------------------------------------------------
\* No fetch is made again once its retries are used up.
LEMMA TriesStep == TypeOK /\ TriesBounded /\ [Next]_vars => TriesBounded'
  <1> SUFFICES ASSUME TypeOK, TriesBounded, [Next]_vars PROVE TriesBounded'
    OBVIOUS
  <1> USE ScreenerAssumption DEF ScreenerAssumption, TypeOK, TriesBounded
  <1>m. MaxRetries \in Nat
    OBVIOUS
  <1>0. fetch' = [s \in Symbols |-> IdleFetch] => TriesBounded'
    BY DEF IdleFetch
  <1>p. Pipeline => TriesBounded'
    BY DEF Pipeline, IdleFetch
  <1>1. ASSUME NEW s \in Symbols, Enters(s) PROVE TriesBounded'
    <2>1. PICK f \in Fetch : /\ fetch' = [fetch EXCEPT ![s] = f]
                             /\ f.tries = fetch[s].tries
                             /\ f.pc \in {"done", "asking"}
      BY <1>1, Entered
    <2>2. fetch[s].pc = "queued"
      BY <1>1 DEF Enters
    <2> QED BY <2>1, <2>2 DEF Fetch
  <1>2. ASSUME NEW s \in Symbols, BrokerAnswers(s) PROVE TriesBounded'
    <2>1. PICK f \in Fetch :
            /\ fetch' = [fetch EXCEPT ![s] = f]
            /\ \/ f.tries = fetch[s].tries
               \/ /\ f.tries = fetch[s].tries + 1
                  /\ f.pc = IF fetch[s].tries = MaxRetries THEN "failed" ELSE "asking"
      BY <1>2, Answered
    <2>2. fetch[s].pc = "asking" /\ fetch[s] \in Fetch
      BY <1>2, ZenonT(30) DEF BrokerAnswers
    <2>3. fetch[s].tries \in Nat /\ fetch[s].tries <= MaxRetries
      BY <2>2 DEF Fetch
    <2>4. CASE f.tries = fetch[s].tries
      BY <2>1, <2>3, <2>4, <1>m
    <2>5. CASE /\ f.tries = fetch[s].tries + 1
               /\ f.pc = IF fetch[s].tries = MaxRetries THEN "failed" ELSE "asking"
      <3>1. CASE fetch[s].tries = MaxRetries
        BY <2>1, <2>3, <2>5, <3>1, <1>m
      <3>2. CASE fetch[s].tries < MaxRetries
        BY <2>1, <2>3, <2>5, <3>2, <1>m
      <3>3. \A t, m \in Nat : t <= m => t = m \/ t < m
        OBVIOUS
      <3> QED BY <2>3, <3>1, <3>2, <3>3, <1>m
    <2> QED BY <2>1, <2>4, <2>5
  <1>3. ASSUME NEW s \in Symbols, Receives(s) PROVE TriesBounded'
    BY <1>3 DEF Receives, Fetch
  <1>4. CASE UNCHANGED fetch
    BY <1>4
  <1> QED BY <1>0, <1>p, <1>1, <1>2, <1>3, <1>4
          DEF Next, FetchStep, PipelineStep, Run, Filters, Quotes, FallsBack, Saves,
              Handles, Tick, Restart, vars

\* A permit is taken when one is free, and given back by every outcome.
LEMMA PermitsStep == TypeOK /\ PermitsKept /\ [Next]_vars => PermitsKept'
  <1> SUFFICES ASSUME TypeOK, PermitsKept, [Next]_vars PROVE PermitsKept'
    OBVIOUS
  <1> USE ScreenerAssumption DEF ScreenerAssumption, TypeOK, PermitsKept
  <1>f. Holding \subseteq Symbols /\ IsFiniteSet(Holding) /\ Cardinality(Holding) \in Nat
    BY FS_Subset, FS_CardinalityType DEF Holding
  <1>s. ASSUME Holding' \subseteq Holding PROVE PermitsKept'
    <2>1. Cardinality(Holding') <= Cardinality(Holding) /\ Cardinality(Holding') \in Nat
      BY <1>f, <1>s, FS_Subset, FS_CardinalityType
    <2> QED BY <1>f, <2>1
  <1>0. ASSUME fetch' = [s \in Symbols |-> IdleFetch] PROVE PermitsKept'
    <2>1. Holding' = {}
      BY <1>0 DEF Holding, IdleFetch
    <2> QED BY <2>1, <1>s
  <1>p. ASSUME Pipeline PROVE PermitsKept'
    <2>1. Holding' = {}
      BY <1>p DEF Holding, IdleFetch, Pipeline
    <2> QED BY <2>1, <1>s
  <1>1. ASSUME NEW s \in Symbols, Enters(s) PROVE PermitsKept'
    <2>1. CASE CacheValid(s)
      <3>1. Holding' \subseteq Holding
        BY <1>1, <2>1, Entered DEF Enters, Holding
      <3> QED BY <3>1, <1>s
    <2>2. CASE ~CacheValid(s)
      <3>1. Holding' = Holding \union {s} /\ s \notin Holding
        BY <1>1, <2>2, Entered DEF Enters, Holding
      <3>2. Cardinality(Holding') = Cardinality(Holding) + 1
        BY <3>1, <1>f, FS_AddElement
      <3> QED BY <3>2, <1>1, <1>f DEF Enters
    <2> QED BY <2>1, <2>2
  <1>2. ASSUME NEW s \in Symbols, BrokerAnswers(s) PROVE PermitsKept'
    <2>1. PICK f \in Fetch : fetch' = [fetch EXCEPT ![s] = f]
      BY <1>2, Answered
    <2>2. fetch[s].pc = "asking"
      BY <1>2, ZenonT(30) DEF BrokerAnswers
    <2>3. Holding' \subseteq Holding
      BY <2>1, <2>2 DEF Holding
    <2> QED BY <2>3, <1>s
  <1>3. ASSUME NEW s \in Symbols, Receives(s) PROVE PermitsKept'
    <2>1. Holding' \subseteq Holding
      BY <1>3 DEF Receives, Holding
    <2> QED BY <2>1, <1>s
  <1>4. CASE UNCHANGED fetch
    <2>1. Holding' = Holding
      BY <1>4 DEF Holding
    <2> QED BY <2>1, <1>s
  <1> QED BY <1>0, <1>p, <1>1, <1>2, <1>3, <1>4
          DEF Next, FetchStep, PipelineStep, Run, Filters, Quotes, FallsBack, Saves,
              Handles, Tick, Restart, vars

-----------------------------------------------------------------------------
\* The bars in the cache are hardly older than their stamps.
LEMMA StampsStep == TypeOK /\ StampsClose /\ [Next]_vars => StampsClose'
  <1> SUFFICES ASSUME TypeOK, StampsClose, [Next]_vars PROVE StampsClose'
    OBVIOUS
  <1> USE ScreenerAssumption DEF ScreenerAssumption, TypeOK, StampsClose
  <1>0. ASSUME cache' \in {cache, [s \in Symbols |-> NoEntry]},
               fetch' \in {fetch, [s \in Symbols |-> IdleFetch],
                           [s \in Symbols |-> [IdleFetch EXCEPT !.pc = "queued"]]},
               now' = now
        PROVE  StampsClose'
    BY <1>0 DEF NoEntry, IdleFetch
  <1>1. ASSUME NEW s \in Symbols, Enters(s) PROVE StampsClose'
    <2>1. PICK f \in Fetch : /\ fetch' = [fetch EXCEPT ![s] = f]
                             /\ f.pc \in {"done", "asking"}
      BY <1>1, Entered
    <2> QED BY <1>1, <2>1 DEF Enters
  <1>2. ASSUME NEW s \in Symbols, BrokerAnswers(s) PROVE StampsClose'
    <2>1. PICK f \in Fetch : /\ fetch' = [fetch EXCEPT ![s] = f]
                             /\ f.pc = "replied" => f.read = now
      BY <1>2, Answered
    <2>2. UNCHANGED <<now, cache>>
      BY <1>2, ZenonT(30) DEF BrokerAnswers
    <2> QED BY <2>1, <2>2
  <1>3. ASSUME NEW s \in Symbols, Receives(s) PROVE StampsClose'
    BY <1>3 DEF Receives, Fetch
  <1>4. CASE Tick
    BY <1>4 DEF Tick, Fetch
  <1> QED BY <1>0, <1>1, <1>2, <1>3, <1>4
          DEF Next, FetchStep, PipelineStep, Run, Pipeline, Filters, Quotes, FallsBack,
              Saves, Handles, Restart, vars

\* What a fetch puts into the results is fresh enough.
LEMMA FreshStep == TypeOK /\ StampsClose /\ ServedFresh /\ [Next]_vars => ServedFresh'
  <1> SUFFICES ASSUME TypeOK, StampsClose, ServedFresh, [Next]_vars PROVE ServedFresh'
    OBVIOUS
  <1> USE ScreenerAssumption DEF ScreenerAssumption, TypeOK, StampsClose, ServedFresh
  <1>0. ASSUME results' \in {results, NoResults} PROVE ServedFresh'
    BY <1>0 DEF NoResults, NoBars
  <1>1. ASSUME NEW s \in Symbols, Enters(s) PROVE ServedFresh'
    BY <1>1 DEF Enters, CacheValid
  <1>2. ASSUME NEW s \in Symbols, Receives(s) PROVE ServedFresh'
    BY <1>2 DEF Receives, Fetch
  <1> QED BY <1>0, <1>1, <1>2, ZenonT(30)
          DEF Next, FetchStep, PipelineStep, Run, Filters, Quotes, FallsBack, Saves,
              Handles, Tick, Restart, BrokerAnswers, screening, vars

-----------------------------------------------------------------------------
\* The filters divide the base list, and what they divided is saved.
LEMMA AccountedStep ==
    TypeOK /\ Partitioned /\ Accounted /\ [Next]_vars => Partitioned' /\ Accounted'
  <1> SUFFICES ASSUME TypeOK, Partitioned, Accounted, [Next]_vars
               PROVE  Partitioned' /\ Accounted'
    OBVIOUS
  <1> USE DEF TypeOK, Partitioned, Accounted
  <1>0. ASSUME UNCHANGED saved,
               pc' \notin {"quoting", "falling", "saving"}
                 \/ UNCHANGED <<pc, passed, rejected>>
        PROVE  Partitioned' /\ Accounted'
    BY <1>0
  <1>1. CASE Filters
    BY <1>1, <1>0, ScreenedSymbols DEF Filters, Crashes, Rejected, database
  <1>2. CASE Quotes
    <2>1. pc = "quoting" /\ UNCHANGED saved
      BY <1>2 DEF Quotes, database
    <2>2. passed' \union rejected' = Symbols /\ passed' \cap rejected' = {}
      BY <1>2, <2>1 DEF Quotes, Tight
    <2> QED BY <2>1, <2>2
  <1>3. CASE FallsBack
    BY <1>3 DEF FallsBack, Returns, Crashes, database
  <1>4. CASE Saves
    BY <1>4 DEF Saves, Returns, Crashes, database
  <1>5. CASE Handles
    BY <1>5, <1>0 DEF Handles, Returns, Pipeline, database
  <1>6. CASE Run
    BY <1>6, <1>0 DEF Run, Pipeline, database
  <1>7. CASE Restart
    BY <1>7, <1>0 DEF Restart, database
  <1>8. CASE Tick \/ (\E s \in Symbols : FetchStep(s)) \/ UNCHANGED vars
    BY <1>8, <1>0, ZenonT(30) DEF Tick, FetchStep, Enters, BrokerAnswers, Receives, screening,
                      database, vars
  <1> QED BY <1>1, <1>2, <1>3, <1>4, <1>5, <1>6, <1>7, <1>8 DEF Next, PipelineStep

\* If an empty universe is big enough, every universe is.
LEMMA EmptyBig == ASSUME NEW U \in SUBSET Symbols, Big({}) PROVE Big(U)
  <1>1. Cardinality(U) \in Nat
    BY ScreenerAssumption, FS_Subset, FS_CardinalityType DEF ScreenerAssumption
  <1>2. 0 >= MinSize
    BY FS_EmptySet DEF Big
  <1> QED BY <1>1, <1>2, ScreenerAssumption DEF Big, ScreenerAssumption

\* A big universe stays the one to fall back on.
LEMMA FallbackStep ==
    TypeOK /\ SavesBig /\ FallbackHolds /\ [Next]_vars => SavesBig' /\ FallbackHolds'
  <1> SUFFICES ASSUME TypeOK, SavesBig, FallbackHolds, [Next]_vars
               PROVE  SavesBig' /\ FallbackHolds'
    OBVIOUS
  <1> USE DEF TypeOK, SavesBig, FallbackHolds
  <1>0. ASSUME UNCHANGED database,
               pc' \notin {"returned", "saving"} \/ UNCHANGED <<pc, passed>>
        PROVE  SavesBig' /\ FallbackHolds'
    BY <1>0 DEF database, Big
  <1>1. CASE Quotes
    <2>1. /\ UNCHANGED database
          /\ pc' = "falling" \/ (pc' = "saving" /\ Big(passed'))
      BY <1>1 DEF Quotes
    <2> QED BY <2>1 DEF database, Big
  <1>2. CASE FallsBack
    <2>1. UNCHANGED database
      BY <1>2 DEF FallsBack
    <2>2. CASE Usable(saved.passed) /\ Returns(saved.passed)
      BY <2>1, <2>2 DEF Returns, Usable, database, Big
    <2>3. CASE ~Usable(saved.passed) /\ pc' = "saving" /\ UNCHANGED <<passed, rejected>>
      <3>1. hadBig => Big(passed)
        <4>1. SUFFICES ASSUME hadBig PROVE Big(passed)
          OBVIOUS
        <4>2. Big(saved.passed) /\ saved.passed = {}
          BY <4>1, <2>3 DEF Usable
        <4> QED BY <4>2, EmptyBig
      <3> QED BY <2>1, <2>3, <3>1 DEF database, Big
    <2>4. CASE Crashes
      BY <2>1, <2>4, <1>0 DEF Crashes
    <2> QED BY <1>2, <2>2, <2>3, <2>4 DEF FallsBack
  <1>3. CASE Saves
    <2>1. CASE Crashes /\ UNCHANGED database
      BY <2>1, <1>0 DEF Crashes
    <2>2. CASE /\ saved' = [passed |-> passed, rejected |-> rejected]
               /\ hadBig' = (hadBig \/ Big(passed))
               /\ Returns(passed)
      <3>1. hadBig' => Big(passed)
        BY <1>3, <2>2 DEF Saves
      <3>2. saved'.passed = passed /\ passed' = passed /\ pc' = "returned"
        BY <2>2 DEF Returns
      <3> QED BY <3>1, <3>2 DEF Big
    <2> QED BY <1>3, <2>1, <2>2 DEF Saves
  <1>4. CASE Handles
    <2>1. CASE Returns(saved.passed)
      BY <1>4, <2>1 DEF Handles, Returns, database, Big
    <2>2. CASE pc' \in {"raised", "fetching"}
      BY <1>4, <2>2, <1>0 DEF Handles
    <2> QED BY <1>4, <2>1, <2>2 DEF Handles, Pipeline
  <1>5. CASE Filters \/ Run \/ Restart
    BY <1>5, <1>0 DEF Filters, Crashes, Run, Pipeline, Restart
  <1>6. CASE Tick \/ (\E s \in Symbols : FetchStep(s)) \/ UNCHANGED vars
    BY <1>6, <1>0, ZenonT(30) DEF Tick, FetchStep, Enters, BrokerAnswers, Receives, screening, vars
  <1> QED BY <1>1, <1>2, <1>3, <1>4, <1>5, <1>6 DEF Next, PipelineStep

-----------------------------------------------------------------------------
(***************************************************************************)
(* The theorems.                                                           *)
(***************************************************************************)

IInv ==
    /\ TypeOK
    /\ TriesBounded
    /\ PermitsKept
    /\ StampsClose
    /\ ServedFresh
    /\ Partitioned
    /\ Accounted
    /\ SavesBig
    /\ FallbackHolds

LEMMA InitInv == Init => IInv
  <1> SUFFICES ASSUME Init PROVE IInv
    OBVIOUS
  <1> USE ScreenerAssumption DEF ScreenerAssumption, Init
  <1>1. TypeOK
    BY InitTypes
  <1>2. TriesBounded /\ StampsClose
    BY DEF TriesBounded, StampsClose, IdleFetch, NoEntry
  <1>3. PermitsKept
    <2>1. Holding = {}
      BY DEF Holding, IdleFetch
    <2> QED BY <2>1, FS_EmptySet DEF PermitsKept
  <1>4. ServedFresh
    BY DEF ServedFresh, NoResults, NoBars
  <1>5. Partitioned /\ Accounted /\ SavesBig /\ FallbackHolds
    BY DEF Partitioned, Accounted, SavesBig, FallbackHolds
  <1> QED BY <1>1, <1>2, <1>3, <1>4, <1>5 DEF IInv

LEMMA StepInv == IInv /\ [Next]_vars => IInv'
  BY TypeStep, TriesStep, PermitsStep, StampsStep, FreshStep, AccountedStep, FallbackStep
     DEF IInv

LEMMA Invariance == Spec => []IInv
  BY InitInv, StepInv, PTL DEF Spec

\* A saved universe accounts for every symbol once, and no download takes more
\* permits or attempts than it may (UniverseScreener._run_pipeline,
\* fetch_bars_bulk).
THEOREM ScreenerCorrect == Spec => []ScreenerInv
  <1>1. IInv => ScreenerInv
    <2> SUFFICES ASSUME IInv PROVE ScreenerInv
      OBVIOUS
    <2>1. \A s \in Symbols : fetch[s].tries <= MaxRetries + 1
      BY ScreenerAssumption DEF IInv, TypeOK, TriesBounded, Fetch, ScreenerAssumption
    <2> QED BY <2>1 DEF IInv, PermitsKept, ScreenerInv
  <1> QED BY <1>1, Invariance, PTL

\* No bars are screened that are older than the cache allows and a reply takes
\* (market_data._is_cache_valid).
THEOREM FreshCorrect == Spec => []ServedFresh
  <1>1. IInv => ServedFresh
    BY DEF IInv
  <1> QED BY <1>1, Invariance, PTL

\* A big universe is never displaced by a small one (the fallback of
\* UniverseScreener._run_pipeline and its handler).
THEOREM FallbackCorrect == Spec => []FallbackHolds
  <1>1. IInv => FallbackHolds
    BY DEF IInv
  <1> QED BY <1>1, Invariance, PTL

=============================================================================
