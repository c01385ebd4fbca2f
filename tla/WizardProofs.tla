----------------------------- MODULE WizardProofs -----------------------------
(***************************************************************************)
(* Whatever the files hold, whatever is typed and in which order, and      *)
(* whenever a dataset is deleted: the bars of a run are sound, the server  *)
(* agrees with the gates of the page, and a run is as it was reviewed.     *)
(***************************************************************************)
EXTENDS Wizard, FiniteSetTheorems, WellFoundedInduction, TLAPS

ParameterSets == UNION {[DOMAIN Defaults[s] -> Int] : s \in StrategyIds}

Form ==
    [dataset    : offered \cup {Null},
     strategy   : StrategyIds \cup {Null},
     parameters : ParameterSets \cup {<<>>},
     execution  : {"fine", "outside", "huge"},
     from       : Days \cup {Null},
     to         : Days \cup {Null},
     name       : {"fine", "long"}]

\* The parameters belong to the strategy, once one is chosen.
OwnParameters(f) ==
    f.strategy # Null => f.parameters \in [DOMAIN Defaults[f.strategy] -> Int]

TypeOK ==
    /\ offered \subseteq Datasets
    /\ form \in Form /\ OwnParameters(form)
    /\ form.dataset = Null => compatibility = Null
    /\ step \in Steps
    /\ pc \in {"page", "body", "find", "columns", "file", "load", "range", "done"}
    /\ listed \subseteq offered /\ objects \subseteq offered /\ copies \subseteq offered

\* What the steps of createBacktest have established when they have come to pc
Progress ==
    /\ answer # Null => pc = "done"
    /\ pc # "page" =>
          /\ request \in Form /\ OwnParameters(request)
          /\ request.dataset # Null /\ request.strategy # Null
    /\ pc \in {"columns", "file", "load", "range"} =>
          ValidParameters(request.strategy, Parameters)
    /\ pc \in {"file", "load", "range"} => Compatible(map)

\* While no dataset is deleted, what is fetched is so, and stays so.
Unchanging ==
    Deleted = {} =>
        /\ listed = offered
        /\ Fetched(compatibility) => compatibility = Detected[form.dataset]
        /\ pc # "page" /\ gated =>
              /\ Compatible(Detected[request.dataset])
              /\ request.execution # "outside"
              /\ request.from # Null /\ request.to # Null => request.from <= request.to
        /\ pc \in {"file", "load", "range"} => map = Detected[request.dataset]
        /\ pc \in {"load", "range"} => request.dataset \in copies
        /\ pc = "range" =>
              Len(Loaded(map, Tables[request.dataset], request.from, request.to)) = 0

Inv == TypeOK /\ Progress /\ Unchanging /\ BarsAreSound /\ GatesAgree

---------------------------------------------------------------------------
\* The rows of a period are as few as the rows of the file.
LEMMA SelectedIsFinite ==
    ASSUME NEW m, NEW d \in Datasets, NEW from, NEW to
    PROVE  LET found == Selected(m, Tables[d], from, to)
           IN  IsFiniteSet(found) /\ found \subseteq DOMAIN Tables[d] /\ found \subseteq Nat
<1> DEFINE found == Selected(m, Tables[d], from, to)
<1>1. found \subseteq DOMAIN Tables[d] BY DEF Selected
<1>2. DOMAIN Tables[d] = 1..Len(Tables[d]) /\ Len(Tables[d]) \in Nat BY WizardAssumption
<1>3. IsFiniteSet(DOMAIN Tables[d]) BY <1>2, FS_Interval
<1> QED BY <1>1, <1>2, <1>3, FS_Subset

\* What load reads is a sequence.
LEMMA LoadedIsSeq ==
    ASSUME NEW m, NEW d \in Datasets, NEW from, NEW to
    PROVE  LET bars == Loaded(m, Tables[d], from, to)
           IN  Len(bars) \in Nat /\ DOMAIN bars = 1..Len(bars)
<1> DEFINE found == Selected(m, Tables[d], from, to)
           bars  == Loaded(m, Tables[d], from, to)
<1>1. IsFiniteSet(found) BY SelectedIsFinite
<1>2. Cardinality(found) \in Nat BY <1>1, FS_CardinalityType
<1>3. DOMAIN bars = 1..Cardinality(found) BY DEF Loaded
<1>4. bars = [n \in 1..Cardinality(found) |-> bars[n]] BY DEF Loaded
<1>5. Len(bars) = Cardinality(found)
  <2> HIDE DEF bars, found
  <2> QED BY <1>2, <1>4
<1> QED BY <1>2, <1>3, <1>5

\* No two needed fields of a compatible map share a column.
LEMMA CompatibleIsInjective ==
    ASSUME NEW m, Compatible(m), NEW f \in Needed, NEW g \in Needed, f # g
    PROVE  m[f] # m[g]
<1> DEFINE names == {m[field] : field \in Needed}
           column == [field \in Needed |-> m[field]]
<1>1. Needed = {"date", "open", "high", "low", "close"} BY DEF Needed, Prices, Range
<1>2. IsFiniteSet(Needed)
  <2>1. IsFiniteSet({}) BY FS_EmptySet
  <2>2. IsFiniteSet({} \cup {"date"}) BY <2>1, FS_AddElement
  <2>3. IsFiniteSet({} \cup {"date"} \cup {"open"}) BY <2>2, FS_AddElement
  <2>4. IsFiniteSet({} \cup {"date"} \cup {"open"} \cup {"high"}) BY <2>3, FS_AddElement
  <2>5. IsFiniteSet({} \cup {"date"} \cup {"open"} \cup {"high"} \cup {"low"})
    BY <2>4, FS_AddElement
  <2>6. IsFiniteSet({} \cup {"date"} \cup {"open"} \cup {"high"} \cup {"low"} \cup {"close"})
    BY <2>5, FS_AddElement
  <2>7. Needed = {} \cup {"date"} \cup {"open"} \cup {"high"} \cup {"low"} \cup {"close"}
    BY <1>1
  <2> QED BY <2>6, <2>7
<1>3. column \in Surjection(Needed, names) BY DEF Surjection
<1>4. Cardinality(names) = Cardinality(Needed) BY DEF Compatible
<1>5. column \in Injection(Needed, names) 
  BY <1>2, <1>3, <1>4, FS_SurjSameCardinalityImpliesInj
<1> QED BY <1>5 DEF Injection, IsInjective

---------------------------------------------------------------------------
\* The parameters that a strategy is run with are integers, of its own names.
LEMMA ParametersAreOwn ==
    ASSUME TypeOK, Progress, pc # "page"
    PROVE  /\ request.dataset \in offered /\ request.dataset \in Datasets
           /\ request.strategy \in StrategyIds
           /\ request.parameters \in [DOMAIN Defaults[request.strategy] -> Int]
           /\ Parameters = request.parameters
<1>1. /\ request \in Form /\ OwnParameters(request)
      /\ request.dataset # Null /\ request.strategy # Null
  BY DEF Progress
<1>2. /\ request.dataset \in offered /\ request.dataset \in Datasets
      /\ request.strategy \in StrategyIds
  BY <1>1 DEF Form, TypeOK
<1>3. request.parameters \in [DOMAIN Defaults[request.strategy] -> Int]
  BY <1>1 DEF OwnParameters
<1>4. Parameters = request.parameters BY <1>3 DEF Parameters
<1> QED BY <1>2, <1>3, <1>4

\* A strategy with valid parameters takes a bar or more to warm up.
LEMMA WarmupIsPositive ==
    ASSUME NEW s \in StrategyIds, NEW p \in [DOMAIN Defaults[s] -> Int]
    PROVE  /\ Warmup(s, p) \in Int
           /\ ValidParameters(s, p) => Warmup(s, p) > 0
<1>1. s \in {"sma_crossover", "rsi", "bollinger_bands"}
  BY WizardAssumption DEF StrategyIds
<1>2. CASE s = "sma_crossover"
  <2>1. DOMAIN Defaults[s] = {"shortWindow", "longWindow"}
    BY <1>2, WizardAssumption DEF StrategyIds
  <2> QED BY <1>2, <2>1 DEF Warmup, ValidParameters
<1>3. CASE s = "rsi"
  <2>1. DOMAIN Defaults[s] = {"period", "oversold", "overbought"}
    BY <1>3, WizardAssumption DEF StrategyIds
  <2> QED BY <1>3, <2>1 DEF Warmup, ValidParameters
<1>4. CASE s = "bollinger_bands"
  <2>1. DOMAIN Defaults[s] = {"period", "stdDev"}
    BY <1>4, WizardAssumption DEF StrategyIds
  <2> QED BY <1>4, <2>1 DEF Warmup, ValidParameters
<1> QED BY <1>1, <1>2, <1>3, <1>4

\* Of the steps, only those of the page change what is typed, and none the list.
LEMMA Frames ==
    ASSUME [Next]_vars
    PROVE  /\ offered' = offered
           /\ objects' \subseteq objects
           /\ \/ Fill
              \/ /\ form' = form /\ step' = step
                 /\ \/ Fetch /\ UNCHANGED serving
                    \/ Run \/ CreateBacktest \/ TryAgain
                    \/ Delete /\ UNCHANGED <<compatibility, serving>>
                    \/ UNCHANGED vars
<1>1. CASE Fill
  BY <1>1 DEF Fill, Editing, SelectDataset, SelectStrategy, SetParameter, SetExecution,
     SetDate, SetName,
     GoTo, Continue, RetryCompatibility, storage
<1>2. CASE Fetch
  BY <1>2 DEF Fetch, FetchCompatibility, FetchRange, RecallCompatibility, RecallRange, storage
<1>3. CASE Run BY <1>3 DEF Run, page, storage
<1>4. CASE CreateBacktest
  BY <1>4 DEF CreateBacktest, ValidateBody, FindDataset, ListColumns, AcquireLocalPath, Load,
     ExplainRange, page, storage
<1>5. CASE TryAgain BY <1>5 DEF TryAgain, page, storage
<1>6. CASE Delete BY <1>6 DEF Delete, DeleteObject, ReleaseLocalPath, DeleteRow, page
<1>7. CASE UNCHANGED vars BY <1>7 DEF vars, page, serving, storage
<1> QED BY <1>1, <1>2, <1>3, <1>4, <1>5, <1>6, <1>7 DEF Next

LEMMA Initially == Init => Inv
<1> SUFFICES ASSUME Init PROVE Inv OBVIOUS
<1>1. PICK d \in offered \cup {Null} :
          /\ form = [Blank EXCEPT !.dataset = d]
          /\ compatibility = Fetching(d) /\ range = Fetching(d)
  BY DEF Init
<1>2. TypeOK
  <2>1. form = [dataset |-> d, strategy |-> Null, parameters |-> <<>>,
               execution |-> "fine", from |-> Null, to |-> Null, name |-> "fine"]
    BY <1>1 DEF Blank
  <2>2. form \in Form /\ OwnParameters(form) BY <2>1 DEF Form, OwnParameters
  <2>3. offered \subseteq Datasets BY WizardAssumption DEF Init
  <2>4. form.dataset = Null => compatibility = Null BY <1>1, <2>1 DEF Fetching
  <2> QED BY <2>2, <2>3, <2>4 DEF Init, TypeOK, Steps
<1>3. Progress BY DEF Init, Progress
<1>4. Unchanging BY <1>1 DEF Init, Unchanging, Fetched, Fetching
<1>5. BarsAreSound /\ GatesAgree BY DEF Init, BarsAreSound, GatesAgree, Ran, Refused
<1> QED BY <1>2, <1>3, <1>4, <1>5 DEF Inv

LEMMA StepIsTyped == TypeOK /\ Progress /\ [Next]_vars => TypeOK'
<1> SUFFICES ASSUME TypeOK, Progress, [Next]_vars PROVE TypeOK' OBVIOUS
<1>1. /\ offered' = offered /\ offered' \subseteq Datasets /\ Form' = Form
      /\ objects' \subseteq offered
  BY Frames DEF TypeOK, Form
<1> USE DEF TypeOK
<1>2. ASSUME Fill PROVE TypeOK'
  <2>1. UNCHANGED <<pc, listed, objects, copies>>
    BY <1>2 DEF Fill, Editing, SelectDataset, SelectStrategy, SetParameter, SetExecution,
       SetDate, SetName,
       GoTo, Continue, RetryCompatibility, storage, serving
  <2>2. form' \in Form /\ OwnParameters(form') /\ step' \in Steps
    <3>1. ASSUME NEW d \in offered, SelectDataset(d)
          PROVE  form' \in Form /\ OwnParameters(form') /\ step' \in Steps
      BY <3>1 DEF SelectDataset, Form, OwnParameters
    <3>2. ASSUME NEW s \in StrategyIds, SelectStrategy(s)
          PROVE  form' \in Form /\ OwnParameters(form') /\ step' \in Steps
      <4>1. Defaults[s] \in [DOMAIN Defaults[s] -> Int] BY WizardAssumption DEF StrategyIds
      <4> QED BY <3>2, <4>1 DEF SelectStrategy, Form, ParameterSets, OwnParameters
    <3>3. ASSUME NEW name \in DOMAIN Values, NEW v \in Values[name], SetParameter(name, v)
          PROVE  form' \in Form /\ OwnParameters(form') /\ step' \in Steps
      <4>1. v \in Int BY WizardAssumption
      <4>2. ASSUME NEW D, form.parameters \in [D -> Int]
            PROVE  form'.parameters \in [D -> Int]
        BY <3>3, <4>1, <4>2 DEF SetParameter, Form
      <4>3. form' = [form EXCEPT !.parameters = form'.parameters]
        BY <3>3 DEF SetParameter, Form
      <4>4. name \in DOMAIN form.parameters BY <3>3 DEF SetParameter
      <4>5. PICK s \in StrategyIds : form.parameters \in [DOMAIN Defaults[s] -> Int]
        <5>1. DOMAIN <<>> = {} OBVIOUS
        <5>2. form.parameters # <<>> BY <4>4, <5>1
        <5>3. form.parameters \in ParameterSets BY <5>2 DEF Form
        <5> QED BY <5>3 DEF ParameterSets
      <4>6. form'.parameters \in [DOMAIN Defaults[s] -> Int] BY <4>2, <4>5
      <4>7. form'.strategy = form.strategy BY <4>3 DEF Form
      <4>8. OwnParameters(form') BY <4>2, <4>7 DEF OwnParameters
      <4>9. form' \in Form BY <4>3, <4>6 DEF Form, ParameterSets
      <4> QED BY <3>3, <4>8, <4>9 DEF SetParameter
    <3>4. ASSUME NEW v \in {"fine", "outside", "huge"}, SetExecution(v)
          PROVE  form' \in Form /\ OwnParameters(form') /\ step' \in Steps
      BY <3>4 DEF SetExecution, Form, OwnParameters
    <3>5. ASSUME NEW bound \in {"from", "to"}, NEW day \in Days \cup {Null}, SetDate(bound, day)
          PROVE  form' \in Form /\ OwnParameters(form') /\ step' \in Steps
      BY <3>5 DEF SetDate, Form, OwnParameters
    <3>6. ASSUME NEW v \in {"fine", "long"}, SetName(v)
          PROVE  form' \in Form /\ OwnParameters(form') /\ step' \in Steps
      BY <3>6 DEF SetName, Form, OwnParameters
    <3>7. ASSUME \/ \E i \in Steps : GoTo(i)
                 \/ Continue \/ RetryCompatibility
          PROVE  form' \in Form /\ OwnParameters(form') /\ step' \in Steps
      BY <3>7 DEF GoTo, Continue, RetryCompatibility, Steps
    <3> QED BY <1>2, <3>1, <3>2, <3>3, <3>4, <3>5, <3>6, <3>7 DEF Fill
  <2>3. form'.dataset = Null => compatibility' = Null
    <3>1. CASE \E d \in offered : SelectDataset(d)
      <4>1. PICK d \in offered : form'.dataset = d BY <3>1 DEF SelectDataset, Form
      <4>2. form'.dataset # Null BY <4>1, WizardAssumption
      <4> QED BY <4>2
    <3>2. CASE RetryCompatibility
      BY <3>2, WizardAssumption DEF RetryCompatibility
    <3>3. CASE ~(\E d \in offered : SelectDataset(d)) /\ ~RetryCompatibility
      BY <1>2, <3>3 DEF Fill, SelectStrategy, SetParameter, SetExecution, SetDate, SetName,
         GoTo, Continue,
         Form
    <3> QED BY <3>1, <3>2, <3>3
  <2> QED BY <1>1, <2>1, <2>2, <2>3
<1>3. ASSUME ~Fill PROVE TypeOK'
  <2>1. /\ form' \in Form /\ OwnParameters(form') /\ step' \in Steps
        /\ form'.dataset = Null => compatibility' = Null
    <3>1. form' = form /\ step' = step BY <1>3, Frames DEF vars, page
    <3>2. compatibility' = compatibility \/ compatibility = Pending
      BY <1>3, Frames DEF Fetch, FetchCompatibility, FetchRange, RecallCompatibility, RecallRange,
         Run, CreateBacktest, ValidateBody, FindDataset, ListColumns, AcquireLocalPath, Load,
         ExplainRange, TryAgain, vars, page
    <3> QED BY <3>1, <3>2, WizardAssumption
  <2>2. CASE Fetch
    <3>1. /\ pc' = pc /\ listed' = listed
          /\ \/ copies' = copies
             \/ copies' = copies \cup {form.dataset} /\ form.dataset \in listed
      BY <2>2 DEF Fetch, FetchCompatibility, FetchRange, RecallCompatibility, RecallRange, serving,
         storage
    <3> QED BY <1>1, <2>1, <3>1
  <2>3. CASE Run BY <1>1, <2>1, <2>3 DEF Run, storage
  <2>4. CASE CreateBacktest
    <3>1. copies' = copies \/ (copies' = copies \cup {request.dataset} /\ pc # "page")
      BY <2>4 DEF CreateBacktest, ValidateBody, FindDataset, ListColumns, AcquireLocalPath, Load,
         ExplainRange, storage
    <3>2. copies' \subseteq offered BY <3>1, ParametersAreOwn
    <3>3. listed' = listed /\ pc' \in {"find", "columns", "file", "load", "range", "done"}
      BY <2>4 DEF CreateBacktest, ValidateBody, FindDataset, ListColumns, AcquireLocalPath, Load,
         ExplainRange, storage, Refuse
    <3> QED BY <1>1, <2>1, <3>2, <3>3
  <2>5. CASE TryAgain BY <1>1, <2>1, <2>5 DEF TryAgain, storage
  <2>6. CASE Delete
    BY <1>1, <2>1, <2>6 DEF Delete, DeleteObject, ReleaseLocalPath, DeleteRow, serving
  <2>7. CASE UNCHANGED vars BY <1>1, <2>1, <2>7 DEF vars, serving, storage
  <2> QED BY <1>3, <2>2, <2>3, <2>4, <2>5, <2>6, <2>7 DEF Next
<1> QED BY <1>2, <1>3

LEMMA StepProgresses == TypeOK /\ Progress /\ [Next]_vars => Progress'
<1> SUFFICES ASSUME TypeOK, Progress, [Next]_vars PROVE Progress' OBVIOUS
<1>1. Form' = Form BY Frames DEF Form
<1>2. ASSUME UNCHANGED <<pc, request, map, answer>> PROVE Progress'
  <2>1. Parameters' = Parameters BY <1>2 DEF Parameters
  <2>2. ValidParameters(request.strategy, Parameters)'
          = ValidParameters(request.strategy, Parameters)
    BY <1>2, <2>1 DEF ValidParameters
  <2>3. Compatible(map)' = Compatible(map) BY <1>2 DEF Compatible
  <2> QED BY <1>1, <1>2, <2>2, <2>3 DEF Progress, OwnParameters
<1>3. CASE Fill
  BY <1>2, <1>3 DEF Fill, Editing, SelectDataset, SelectStrategy, SetParameter, SetExecution,
     SetDate, SetName, GoTo, Continue, RetryCompatibility, serving
<1>4. CASE Fetch
  BY <1>2, <1>4 DEF Fetch, FetchCompatibility, FetchRange, RecallCompatibility, RecallRange, serving
<1>5. CASE Run
  BY <1>1, <1>5 DEF Run, Progress, TypeOK, OwnParameters
<1>6. ASSUME CreateBacktest PROVE Progress'
  <2>0. /\ pc # "page" /\ pc # "done" /\ request' = request /\ pc' # "page"
    BY <1>6 DEF CreateBacktest, ValidateBody, FindDataset, ListColumns, AcquireLocalPath, Load,
       ExplainRange, Refuse
  <2>1. /\ pc # "page" /\ answer = Null /\ request' = request /\ pc' # "page"
        /\ ValidParameters(request.strategy, Parameters)'
             = ValidParameters(request.strategy, Parameters)
    <3>1. answer = Null BY <2>0 DEF Progress
    <3>2. Parameters' = Parameters BY <2>0 DEF Parameters
    <3> QED BY <2>0, <3>1, <3>2 DEF ValidParameters
  <2>2. /\ request' \in Form' /\ OwnParameters(request')
        /\ request'.dataset # Null /\ request'.strategy # Null
    BY <1>1, <2>1 DEF Progress
  <2>3. ASSUME pc' = "done" PROVE Progress' BY <2>2, <2>3 DEF Progress, OwnParameters
  <2>4. ASSUME answer' = Null,
               pc' \in {"columns", "file", "load", "range"} =>
                   ValidParameters(request.strategy, Parameters),
               pc' \in {"file", "load", "range"} => Compatible(map')
        PROVE  Progress'
    BY <2>1, <2>2, <2>4 DEF Progress, OwnParameters, Compatible
  <2>5. CASE ValidateBody BY <2>1, <2>3, <2>4, <2>5 DEF ValidateBody, Refuse
  <2>6. CASE FindDataset BY <2>1, <2>3, <2>4, <2>6 DEF FindDataset, Refuse
  <2>7. CASE ListColumns BY <2>1, <2>3, <2>4, <2>7 DEF ListColumns, Refuse, Progress
  <2>8. CASE AcquireLocalPath BY <2>1, <2>3, <2>4, <2>8 DEF AcquireLocalPath, Refuse, Progress
  <2>9. CASE Load BY <2>1, <2>3, <2>4, <2>9 DEF Load, Refuse, Progress
  <2>10. CASE ExplainRange BY <2>3, <2>10 DEF ExplainRange, Refuse
  <2> QED BY <1>6, <2>5, <2>6, <2>7, <2>8, <2>9, <2>10 DEF CreateBacktest
<1>7. CASE TryAgain BY <1>7 DEF TryAgain, Progress
<1>8. CASE Delete
  BY <1>2, <1>8 DEF Delete, DeleteObject, ReleaseLocalPath, DeleteRow, serving
<1>9. CASE UNCHANGED vars BY <1>2, <1>9 DEF vars, serving
<1> QED BY <1>3, <1>4, <1>5, <1>6, <1>7, <1>8, <1>9 DEF Next

\* The bars that load hands on are sound.
LEMMA LoadIsSound == TypeOK /\ Progress /\ Load => BarsAreSound'
<1> SUFFICES ASSUME TypeOK, Progress, Load, Ran' PROVE BarsAreSound'
  BY DEF BarsAreSound
<1> DEFINE bars == Loaded(map, Tables[request.dataset], request.from, request.to)
           short == Len(bars) < Warmup(request.strategy, Parameters) + MinExecutableBars
<1>1. pc = "load" /\ request' = request /\ answer = Null BY DEF Load, Progress
<1>2. Fault(bars) = "NONE" /\ answer' = [kind |-> "run", map |-> map, bars |-> bars]
  BY <1>1 DEF Load, Refuse, Ran
<1>3. ValidateMarketData(bars) /\ ~short BY <1>2 DEF Fault
<1>4. /\ request.dataset \in Datasets /\ request.strategy \in StrategyIds
      /\ request.parameters \in [DOMAIN Defaults[request.strategy] -> Int]
      /\ Parameters = request.parameters
  BY <1>1, ParametersAreOwn
<1>5. Len(bars) \in Nat /\ DOMAIN bars = 1..Len(bars) BY <1>4, LoadedIsSeq
<1>6. Warmup(request.strategy, Parameters) \in Int BY <1>4, WarmupIsPositive
<1>7. Len(bars) >= Warmup(request.strategy, Parameters) + MinExecutableBars
  BY <1>3, <1>5, <1>6 DEF MinExecutableBars
<1>8. \A n \in 1..Len(bars) :
         /\ 0 < bars[n].low
         /\ \A field \in {"open", "close"} :
               bars[n].low <= bars[n][field] /\ bars[n][field] <= bars[n].high
         /\ n > 1 => bars[n - 1].ts < bars[n].ts
  <2> SUFFICES ASSUME NEW n \in 1..Len(bars)
               PROVE  /\ 0 < bars[n].low
                      /\ \A field \in {"open", "close"} :
                            bars[n].low <= bars[n][field] /\ bars[n][field] <= bars[n].high
                      /\ n > 1 => bars[n - 1].ts < bars[n].ts
    OBVIOUS
  <2>1. ValidBar(bars[n]) /\ Follows(bars, n) BY <1>3, <1>5 DEF ValidateMarketData
  <2> HIDE DEF bars
  <2>2. Range(Prices) = {"open", "high", "low", "close"} BY DEF Prices, Range
  <2>3. bars[n].low > 0 /\ Consistent(bars[n]) BY <2>1, <2>2 DEF ValidBar, Positive
  <2> QED BY <2>1, <2>3 DEF Consistent, Follows
<1>9. \A f, g \in Needed : f # g => map[f] # map[g]
  <2>1. Compatible(map) BY <1>1 DEF Progress
  <2> QED BY <2>1, CompatibleIsInjective
<1>10. Parameters' = Parameters BY <1>1 DEF Parameters
<1>11. Warmup(request.strategy, Parameters)' = Warmup(request.strategy, Parameters)
  BY <1>1, <1>10 DEF Warmup
<1> HIDE DEF bars
<1> QED BY <1>2, <1>7, <1>8, <1>9, <1>11 DEF BarsAreSound

LEMMA StepKeepsBars == TypeOK /\ Progress /\ BarsAreSound /\ [Next]_vars => BarsAreSound'
<1> SUFFICES ASSUME TypeOK, Progress, BarsAreSound, [Next]_vars, ~Load PROVE BarsAreSound'
  BY LoadIsSound
<1>1. ASSUME UNCHANGED <<request, answer>> PROVE BarsAreSound'
  <2>1. Parameters' = Parameters BY <1>1 DEF Parameters
  <2>2. Warmup(request.strategy, Parameters)' = Warmup(request.strategy, Parameters)
    BY <1>1, <2>1 DEF Warmup
  <2> QED BY <1>1, <2>2 DEF BarsAreSound, Ran
<1>2. CASE Run BY <1>2 DEF Run, Progress, BarsAreSound, Ran
<1>3. CASE CreateBacktest
  <2>1. (answer' = answer /\ request' = request) \/ \E code : Refuse(code)
    BY <1>3 DEF CreateBacktest, ValidateBody, FindDataset, ListColumns, AcquireLocalPath,
       ExplainRange
  <2>2. ASSUME NEW code, Refuse(code) PROVE BarsAreSound'
    BY <2>2 DEF Refuse, BarsAreSound, Ran
  <2> QED BY <1>1, <2>1, <2>2
<1>4. CASE TryAgain BY <1>4 DEF TryAgain, BarsAreSound, Ran
<1>5. CASE Fill
  BY <1>1, <1>5 DEF Fill, Editing, SelectDataset, SelectStrategy, SetParameter, SetExecution,
     SetDate, SetName, GoTo, Continue, RetryCompatibility, serving
<1>6. CASE ~(Fill \/ Run \/ CreateBacktest \/ TryAgain)
  BY <1>1, <1>6, Frames DEF vars, serving
<1> QED BY <1>2, <1>3, <1>4, <1>5, <1>6

---------------------------------------------------------------------------
\* While no dataset is deleted

LEMMA StepKeepsUnchanging == TypeOK /\ Progress /\ Unchanging /\ [Next]_vars => Unchanging'
<1> SUFFICES ASSUME TypeOK, Progress, Unchanging, [Next]_vars, (Deleted = {})'
             PROVE  Unchanging'
  BY DEF Unchanging
<1>1. Deleted = {} /\ objects = offered /\ listed = offered /\ offered' = offered
  BY Frames DEF Deleted, TypeOK, Unchanging
<1>2. \A d \in offered : MapOf(d) = Detected[d] BY <1>1 DEF MapOf
<1>3. Detected' = Detected BY DEF Detected
<1>4. ASSUME UNCHANGED <<listed, serving>>,
             request.dataset \in copies => request.dataset \in copies',
             Fetched(compatibility') => compatibility' = Detected[form'.dataset]
      PROVE  Unchanging'
  BY <1>1, <1>3, <1>4 DEF Unchanging, serving, Fetched
<1>5. ASSUME Fill PROVE Unchanging'
  <2>1. UNCHANGED <<listed, serving, copies>>
    BY <1>5 DEF Fill, Editing, SelectDataset, SelectStrategy, SetParameter, SetExecution,
       SetDate, SetName,
       GoTo, Continue, RetryCompatibility, storage
  <2>2. \/ compatibility' = Pending
        \/ compatibility' = compatibility /\ form'.dataset = form.dataset
    BY <1>5 DEF Fill, SelectDataset, SelectStrategy, SetParameter, SetExecution, SetDate, SetName,
       GoTo, Continue, RetryCompatibility, TypeOK, Form
  <2>3. Fetched(compatibility') => compatibility' = Detected[form'.dataset]
    BY <1>1, <2>2 DEF Unchanging, Fetched
  <2> QED BY <1>4, <2>1, <2>3
<1>6. ASSUME Fetch PROVE Unchanging'
  <2>1. /\ UNCHANGED <<listed, serving, form>>
        /\ copies \subseteq copies'
    BY <1>6 DEF Fetch, FetchCompatibility, FetchRange, RecallCompatibility, RecallRange, storage
  <2>2. Fetched(compatibility') => compatibility' = Detected[form'.dataset]
    <3>1. CASE FetchCompatibility
      <4>1. /\ compatibility = Pending
            /\ compatibility' = MapOf(form.dataset) \/ compatibility' = Failed
        BY <3>1 DEF FetchCompatibility
      <4>2. form.dataset \in offered BY <4>1, WizardAssumption DEF TypeOK, Form
      <4> QED BY <1>2, <2>1, <4>1, <4>2 DEF Fetched
    <3>2. CASE RecallCompatibility BY <2>1, <3>2 DEF RecallCompatibility
    <3>3. CASE FetchRange \/ RecallRange
      BY <1>1, <2>1, <3>3 DEF FetchRange, RecallRange, Unchanging
    <3> QED BY <1>6, <3>1, <3>2, <3>3 DEF Fetch
  <2> QED BY <1>4, <2>1, <2>2
<1>7. ASSUME Run PROVE Unchanging'
  <2>1. /\ pc' = "body" /\ request' = form /\ gated' = \A i \in 0..4 : StepValid(i)
        /\ UNCHANGED <<listed, copies, form, compatibility>>
        /\ form.dataset \in offered
    BY <1>7 DEF Run, page, storage, TypeOK, Form
  <2>2. ASSUME gated'
        PROVE  /\ Compatible(Detected[form.dataset])
               /\ form.execution # "outside"
               /\ form.from # Null /\ form.to # Null => form.from <= form.to
    <3>0. \A i \in 0..4 : StepValid(i) BY <2>1, <2>2, Zenon
    <3>1. StepValid(0) /\ StepValid(3) /\ StepValid(4) BY <3>0
    <3>2. DatasetStepValid /\ form.execution # "outside" /\ DateStepValid
      BY <3>1 DEF StepValid
    <3>3. Compatible(Detected[form.dataset])
      BY <1>1, <3>2 DEF DatasetStepValid, Unchanging
    <3>4. form.from \in Days \cup {Null} /\ form.to \in Days \cup {Null} BY DEF TypeOK, Form
    <3> QED BY <3>2, <3>3, <3>4, WizardAssumption DEF DateStepValid
  <2>3. Compatible(Detected[form.dataset])' = Compatible(Detected[form.dataset])
    BY <1>3, <2>1 DEF Compatible
  <2> QED BY <1>1, <1>3, <2>1, <2>2, <2>3 DEF Unchanging, Fetched
<1>8. ASSUME CreateBacktest PROVE Unchanging'
  <2>1. /\ pc # "page" /\ UNCHANGED <<request, gated, listed, compatibility, form>>
        /\ copies \subseteq copies'
    BY <1>8 DEF CreateBacktest, ValidateBody, FindDataset, ListColumns, AcquireLocalPath, Load,
       ExplainRange, storage, page
  <2>2. request.dataset \in offered BY <2>1, ParametersAreOwn
  <2>3. ASSUME pc' \in {"file", "load", "range"} => map' = Detected[request.dataset],
               pc' \in {"load", "range"} => request.dataset \in copies',
               pc' = "range" =>
                   Len(Loaded(map', Tables[request.dataset], request.from, request.to)) = 0
        PROVE  Unchanging'
    BY <1>1, <1>3, <2>1, <2>3 DEF Unchanging, Fetched
  <2>4. CASE ValidateBody BY <2>3, <2>4 DEF ValidateBody, Refuse
  <2>5. CASE FindDataset BY <2>3, <2>5 DEF FindDataset, Refuse
  <2>6. CASE ListColumns BY <1>2, <2>2, <2>3, <2>6 DEF ListColumns, Refuse
  <2>7. CASE AcquireLocalPath
    BY <1>1, <2>2, <2>3, <2>7 DEF AcquireLocalPath, Refuse, Unchanging
  <2>8. CASE Load
    <3> DEFINE bars == Loaded(map, Tables[request.dataset], request.from, request.to)
    <3>1. /\ map' = map /\ copies' = copies /\ map = Detected[request.dataset]
          /\ request.dataset \in copies
      BY <1>1, <2>8 DEF Load, Unchanging, storage
    <3> HIDE DEF bars
    <3>2. pc' = "done" \/ (pc' = "range" /\ Fault(bars) = "EMPTY")
      <4>1. \/ Fault(bars) = "EMPTY" /\ pc' = "range"
            \/ pc' = "done"
            \/ Refuse(Fault(bars))
        BY <2>8, Zenon DEF Load, bars
      <4>2. \A code : Refuse(code) => pc' = "done" BY DEF Refuse
      <4> QED BY <4>1, <4>2
    <3>3. Fault(bars) = "EMPTY" => Len(bars) = 0 BY DEF Fault
    <3> QED BY <2>3, <3>1, <3>2, <3>3 DEF bars
  <2>9. CASE ExplainRange BY <2>3, <2>9 DEF ExplainRange, Refuse
  <2> QED BY <1>8, <2>4, <2>5, <2>6, <2>7, <2>8, <2>9 DEF CreateBacktest
<1>9. ASSUME TryAgain PROVE Unchanging'
  BY <1>1, <1>3, <1>9 DEF TryAgain, Unchanging, page, storage, Fetched
<1>10. ASSUME Delete PROVE FALSE
  BY <1>1, <1>10 DEF Delete, DeleteObject, ReleaseLocalPath, DeleteRow, Deleted
<1>11. ASSUME UNCHANGED vars PROVE Unchanging'
  BY <1>1, <1>4, <1>11 DEF vars, serving, page, storage, Unchanging
<1> QED BY <1>5, <1>6, <1>7, <1>8, <1>9, <1>10, <1>11 DEF Next

\* A refusal that is not excused would need a step that the page found invalid.
LEMMA RefusalIsExcused ==
    ASSUME TypeOK, Progress, Unchanging, Deleted = {}, gated, CreateBacktest, Refused'
    PROVE  Excused(answer'.code)
<1> DEFINE d == request.dataset
           bars == Loaded(map, Tables[d], request.from, request.to)
           rows == Loaded(Detected[d], Tables[d], request.from, request.to)
<1>1. /\ pc # "page" /\ pc # "done" /\ listed = offered /\ objects = offered
      /\ \A e \in offered : MapOf(e) = Detected[e]
  BY DEF CreateBacktest, ValidateBody, FindDataset, ListColumns, AcquireLocalPath, Load,
     ExplainRange, Unchanging, Deleted, TypeOK, MapOf
<1>2. /\ d \in offered /\ d \in Datasets /\ request.strategy \in StrategyIds
      /\ request.parameters \in [DOMAIN Defaults[request.strategy] -> Int]
      /\ Parameters = request.parameters
  BY <1>1, ParametersAreOwn
<1>3. /\ request.execution \in {"fine", "outside", "huge"} /\ request.execution # "outside"
      /\ request.name \in {"fine", "long"}
      /\ request.from \in Days \cup {Null} /\ request.to \in Days \cup {Null}
      /\ request.from # Null /\ request.to # Null => request.from <= request.to
      /\ Compatible(Detected[d])
  BY <1>1 DEF Progress, Form, Unchanging
<1>4. answer = Null /\ answer' # answer BY <1>1 DEF Progress, Refused
<1>5. \A code : Refuse(code) => answer'.code = code BY DEF Refuse
<1>6. CASE ValidateBody
  <2>1. /\ request.execution # "fine" \/ request.name # "fine"
        /\ Refuse("VALIDATION_ERROR")
    BY <1>4, <1>6 DEF ValidateBody
  <2> QED BY <1>3, <1>5, <2>1 DEF Excused
<1>7. CASE FindDataset
  <2>1. ~ValidParameters(request.strategy, Parameters) /\ Refuse("INVALID_PARAMETER")
    BY <1>1, <1>2, <1>4, <1>7 DEF FindDataset
  <2> QED BY <1>2, <1>5, <2>1 DEF Excused
<1>8. CASE ListColumns
  <2>1. map' = Detected[d] BY <1>1, <1>2, <1>8 DEF ListColumns
  <2> QED BY <1>3, <1>4, <1>8, <2>1 DEF ListColumns
<1>9. CASE AcquireLocalPath BY <1>1, <1>2, <1>4, <1>9 DEF AcquireLocalPath
<1>10. CASE Load
  <2>1. /\ map = Detected[d] /\ bars = rows /\ d \in copies
        /\ ValidParameters(request.strategy, Parameters)
    BY <1>10 DEF Load, Unchanging, Progress
  <2>2. Len(rows) \in Nat BY <1>2, LoadedIsSeq
  <2>3. /\ Warmup(request.strategy, Parameters) \in Int
        /\ Warmup(request.strategy, Parameters) > 0
    BY <1>2, <2>1, WarmupIsPositive
  <2> HIDE DEF bars, rows
  <2>4. CASE Fault(bars) = "EMPTY" BY <1>4, <1>10, <2>4 DEF Load, bars
  <2>5. CASE Fault(bars) = "NONE" BY <1>10, <2>5 DEF Load, Refused, bars
  <2>6. CASE Fault(bars) \notin {"EMPTY", "NONE"}
    <3>1. answer'.code = Fault(bars) BY <1>5, <1>10, <2>6 DEF Load, bars
    <3>2. \/ /\ Fault(bars) = "INTERNAL_ERROR"
             /\ ~Bound(Detected[d], Columns[d]) \/ ~Castable(Detected[d], Tables[d])
          \/ /\ Fault(bars) = "INVALID_MARKET_DATA"
             /\ Len(rows) > MaxBars \/ ~ValidateMarketData(rows)
          \/ /\ Fault(bars) = "INSUFFICIENT_DATA"
             /\ Len(rows) < Warmup(request.strategy, Parameters) + MinExecutableBars
      <4>1. ~(request.from # Null /\ request.to # Null /\ request.from > request.to)
        BY <1>3, WizardAssumption
      <4> QED BY <2>1, <2>6, <4>1 DEF Fault
    <3>3. ~ValidateMarketData(rows) =>
              \E n \in DOMAIN rows : ~ValidBar(rows[n]) \/ ~Follows(rows, n)
      BY DEF ValidateMarketData
    <3> QED BY <1>2, <3>1, <3>2, <3>3 DEF Excused, rows
  <2> QED BY <2>4, <2>5, <2>6
<1>11. CASE ExplainRange
  <2>1. /\ map = Detected[d] /\ bars = rows /\ d \in copies /\ Len(bars) = 0
        /\ ValidParameters(request.strategy, Parameters)
    BY <1>11 DEF ExplainRange, Unchanging, Progress
  <2>2. answer'.code = "INSUFFICIENT_DATA" BY <1>5, <1>11, <2>1 DEF ExplainRange
  <2>3. /\ Warmup(request.strategy, Parameters) \in Int
        /\ Warmup(request.strategy, Parameters) > 0
    BY <1>2, <2>1, WarmupIsPositive
  <2>4. Len(rows) < Warmup(request.strategy, request.parameters) + MinExecutableBars
    BY <1>2, <2>1, <2>3 DEF MinExecutableBars
  <2> QED BY <2>2, <2>4 DEF Excused
<1> QED BY <1>6, <1>7, <1>8, <1>9, <1>10, <1>11 DEF CreateBacktest

LEMMA StepKeepsAgreement ==
    TypeOK /\ Progress /\ Unchanging /\ GatesAgree /\ [Next]_vars => GatesAgree'
<1> SUFFICES ASSUME TypeOK, Progress, Unchanging, GatesAgree, [Next]_vars,
                    Refused', gated', (Deleted = {})'
             PROVE  Excused(answer.code)'
  BY DEF GatesAgree
<1>1. Deleted = {} BY Frames DEF Deleted
<1>2. Detected' = Detected BY DEF Detected
<1>3. ASSUME UNCHANGED request, Excused(answer'.code) PROVE Excused(answer.code)'
  BY <1>2, <1>3 DEF Excused
<1>4. ASSUME UNCHANGED <<request, answer, gated>> PROVE Excused(answer.code)'
  <2>1. Refused /\ gated BY <1>4 DEF Refused
  <2>2. Excused(answer.code) BY <1>1, <2>1 DEF GatesAgree
  <2> QED BY <1>3, <1>4, <2>2
<1>5. CASE Run BY <1>5 DEF Run, Progress, Refused
<1>6. CASE CreateBacktest
  <2>1. request' = request /\ gated' = gated
    BY <1>6 DEF CreateBacktest, ValidateBody, FindDataset, ListColumns, AcquireLocalPath, Load,
       ExplainRange
  <2>2. Excused(answer'.code) BY <1>1, <1>6, <2>1, RefusalIsExcused
  <2> QED BY <1>3, <2>1, <2>2
<1>7. CASE TryAgain BY <1>7 DEF TryAgain, Refused
<1>8. CASE Fill
  BY <1>4, <1>8 DEF Fill, Editing, SelectDataset, SelectStrategy, SetParameter, SetExecution,
     SetDate, SetName, GoTo, Continue, RetryCompatibility, serving
<1>9. CASE ~(Fill \/ Run \/ CreateBacktest \/ TryAgain)
  BY <1>4, <1>9, Frames DEF vars, serving
<1> QED BY <1>5, <1>6, <1>7, <1>8, <1>9

---------------------------------------------------------------------------
LEMMA Invariant == Spec => []Inv
<1>1. Init => Inv BY Initially
<1>2. Inv /\ [Next]_vars => Inv'
  BY StepIsTyped, StepProgresses, StepKeepsUnchanging, StepKeepsBars, StepKeepsAgreement DEF Inv
<1> QED BY <1>1, <1>2, PTL DEF Spec

\* The bars that a run is started on follow each other in time, have positive prices
\* that agree, are enough for the strategy, and take no two prices from one column.
THEOREM BarsAreAlwaysSound == Spec => []BarsAreSound
<1>1. Inv => BarsAreSound BY DEF Inv
<1> QED BY <1>1, Invariant, PTL

\* The server refuses a run whose steps were all valid only for what the page does
\* not look at, unless a dataset was deleted meanwhile.
THEOREM GatesAlwaysAgree == Spec => []GatesAgree
<1>1. Inv => GatesAgree BY DEF Inv
<1> QED BY <1>1, Invariant, PTL

---------------------------------------------------------------------------
\* A set of naturals that is not empty has a least element.
LessThan == {p \in Nat \X Nat : p[1] < p[2]}

LEMMA MinIsLeast ==
    ASSUME NEW T, T \subseteq Nat, T # {}
    PROVE  Min(T) \in T
<1>1. LessThan = OpToRel(<, Nat) BY DEF LessThan, OpToRel
<1>2. IsWellFoundedOn(LessThan, Nat) BY <1>1, NatLessThanWellFounded
<1>3. PICK x \in T : \A y \in T : <<y, x>> \notin LessThan BY <1>2, WFMin
<1>4. \A y \in T : x <= y
  <2> SUFFICES ASSUME NEW y \in T PROVE x <= y OBVIOUS
  <2>1. x \in Nat /\ y \in Nat /\ <<y, x>> \notin LessThan BY <1>3
  <2> QED BY <2>1 DEF LessThan
<1> QED BY <1>3, <1>4 DEF Min

\* A search by alias finds a column of that alias, if there is one that is not used.
LEMMA FindByAliasFinds ==
    ASSUME NEW columns, Len(columns) \in Nat, NEW field, NEW used
    PROVE  LET found == {i \in 1..Len(columns) :
                            columns[i].name \in Aliases[field] /\ columns[i].name \notin used}
               name  == FindByAlias(columns, field, used)
           IN  IF found = {} THEN name = "none"
               ELSE \E i \in found : name = columns[i].name
<1> DEFINE found == {i \in 1..Len(columns) :
                        columns[i].name \in Aliases[field] /\ columns[i].name \notin used}
<1>1. FindByAlias(columns, field, used) =
        LET i == IF found # {} THEN Min(found) ELSE 0
        IN  IF i = 0 THEN "none" ELSE columns[i].name
  BY DEF FindByAlias, FirstColumn, SelectInSeq
<1>2. found # {} => Min(found) \in found /\ Min(found) # 0 BY MinIsLeast
<1> HIDE DEF found
<1> QED BY <1>1, <1>2 DEF found

\* The column of the dates is one of the columns.
LEMMA DateIsAColumn ==
    ASSUME NEW columns, Len(columns) \in Nat, FindDate(columns) # "none"
    PROVE  \E i \in 1..Len(columns) : FindDate(columns) = columns[i].name
<1> DEFINE typed == {i \in 1..Len(columns) : IsDateType(columns[i].type)}
           byAlias == FindByAlias(columns, "date", {})
<1>1. CASE byAlias # "none" BY <1>1, FindByAliasFinds DEF FindDate
<1>2. CASE byAlias = "none"
  <2>1. FindDate(columns) =
          LET i == IF typed # {} THEN Min(typed) ELSE 0
          IN  IF i = 0 THEN "none" ELSE columns[i].name
    BY <1>2 DEF FindDate, FirstColumn, SelectInSeq
  <2>2. typed # {} => Min(typed) \in typed /\ Min(typed) # 0
    <3>1. typed \subseteq Nat \ {0} OBVIOUS
    <3> HIDE DEF typed
    <3> QED BY <3>1, MinIsLeast
  <2> HIDE DEF typed
  <2>3. typed # {} /\ FindDate(columns) = columns[Min(typed)].name BY <2>1, <2>2
  <2> QED BY <2>2, <2>3 DEF typed
<1> QED BY <1>1, <1>2

\* A dataset whose columns are gone is not compatible.
LEMMA NothingIsIncompatible == ~Compatible(DetectMarketColumns(<<>>))
<1>1. Len(<<>>) = 0 /\ 1..0 = {} OBVIOUS
<1>2. FindDate(<<>>) = "none" BY <1>1, DateIsAColumn
<1>3. Normalized(<<>>) = <<>> BY DEF Normalized
<1>5. DetectMarketColumns(<<>>).date = "none"
  BY <1>2, <1>3 DEF DetectMarketColumns, DetectNormalized
<1>4. "date" \in Needed BY DEF Needed
<1> QED BY <1>4, <1>5 DEF Compatible

\* Where each field has columns of its own, it is given one of them: no alias is of
\* two fields, so none of them was given away before.
LEMMA OwnColumnsAreFound ==
    ASSUME NEW d \in Datasets, \A field \in Needed : Own(d, field) # {}
    PROVE  \A field \in Needed : Detected[d][field] \in Own(d, field)
<1> DEFINE columns == Normalized(Columns[d])
           detected == Detected[d]
<1>1. Len(columns) \in Nat /\ Range(columns) = {columns[i] : i \in 1..Len(columns)}
  <2>1. Columns[d] \in Seq([name : STRING, type : STRING]) BY WizardAssumption
  <2>2. Len(Columns[d]) \in Nat /\ DOMAIN Columns[d] = 1..Len(Columns[d]) BY <2>1
  <2>3. DOMAIN columns = 1..Len(Columns[d]) BY <2>2 DEF Normalized
  <2>4. columns = [i \in 1..Len(Columns[d]) |-> columns[i]] BY <2>2 DEF Normalized
  <2>5. Len(columns) = Len(Columns[d])
    <3> HIDE DEF columns
    <3> QED BY <2>2, <2>3, <2>4
  <2> QED BY <2>2, <2>3, <2>5 DEF Range
<1>2. Needed = {"date", "open", "high", "low", "close"} BY DEF Needed, Prices, Range
<1>3. ASSUME NEW field \in Needed, NEW used, used \cap Aliases[field] = {}
      PROVE  /\ FindByAlias(columns, field, used) \in Own(d, field)
             /\ FindByAlias(columns, field, used) # "none"
  <2> DEFINE found == {i \in 1..Len(columns) :
                          columns[i].name \in Aliases[field] /\ columns[i].name \notin used}
  <2>1. PICK c \in Range(columns) : c.name \in Aliases[field] BY DEF Own
  <2>2. found # {} BY <1>1, <1>3, <2>1
  <2>3. PICK i \in found : FindByAlias(columns, field, used) = columns[i].name
    BY <1>1, <2>2, FindByAliasFinds
  <2>4. FindByAlias(columns, field, used) \in Own(d, field) BY <1>1, <2>3 DEF Own
  <2>5. "none" \notin Aliases[field] BY <1>2 DEF Aliases
  <2> QED BY <2>3, <2>4, <2>5
<1>4. \A field : Own(d, field) \subseteq Aliases[field] BY DEF Own
<1>5. ASSUME NEW field \in Needed, NEW used, used \cap Aliases[field] = {}
      PROVE  PickByAliasOrNumeric(columns, field, used) \in Aliases[field] \cap Own(d, field)
  BY <1>3, <1>4, <1>5 DEF PickByAliasOrNumeric
<1>6. /\ detected.date = FindDate(columns)
      /\ detected.open = PickByAliasOrNumeric(columns, "open", {detected.date})
      /\ detected.high = PickByAliasOrNumeric(columns, "high", {detected.date, detected.open})
      /\ detected.low = PickByAliasOrNumeric(columns, "low",
                           {detected.date, detected.open, detected.high})
      /\ detected.close = PickByAliasOrNumeric(columns, "close",
                         {detected.date, detected.open, detected.high, detected.low})
  BY DEF Detected, DetectMarketColumns, DetectNormalized
<1> HIDE DEF detected, columns
<1>7. detected.date \in Aliases.date \cap Own(d, "date")
  <2>1. FindByAlias(columns, "date", {}) # "none" BY <1>2, <1>3
  <2> QED BY <1>2, <1>3, <1>4, <1>6, <2>1 DEF FindDate
<1>8. detected.open \in Aliases.open \cap Own(d, "open")
  <2>1. {detected.date} \cap Aliases["open"] = {} BY <1>7 DEF Aliases
  <2> QED BY <1>2, <1>5, <1>6, <2>1
<1>9. detected.high \in Aliases.high \cap Own(d, "high")
  <2>1. {detected.date, detected.open} \cap Aliases["high"] = {} BY <1>7, <1>8 DEF Aliases
  <2> QED BY <1>2, <1>5, <1>6, <2>1
<1>10. detected.low \in Aliases.low \cap Own(d, "low")
  <2>1. {detected.date, detected.open, detected.high} \cap Aliases["low"] = {}
    BY <1>7, <1>8, <1>9 DEF Aliases
  <2> QED BY <1>2, <1>5, <1>6, <2>1
<1>11. detected.close \in Aliases.close \cap Own(d, "close")
  <2>1. {detected.date, detected.open, detected.high, detected.low} \cap Aliases["close"] = {}
    BY <1>7, <1>8, <1>9, <1>10 DEF Aliases
  <2> QED BY <1>2, <1>5, <1>6, <2>1
<1> QED BY <1>2, <1>7, <1>8, <1>9, <1>10, <1>11 DEF detected

\* The times of the rows of a period are integers.
Dated(m, table, from, to) ==
    \A i \in Selected(m, table, from, to) : table[i][m.date] \in Int

\* A sequence of bars has one for each of these rows.
Whole(bars, m, table, found) ==
    /\ Len(bars) = Cardinality(found)
    /\ \A i \in found : \E n \in DOMAIN bars : bars[n] = Source(m, table[i])

\* Rows are sorted by time: each of a period has a place of its own.
LEMMA LoadedIsWhole ==
    ASSUME NEW m, NEW d \in Datasets, NEW from, NEW to, Dated(m, Tables[d], from, to)
    PROVE  Whole(Loaded(m, Tables[d], from, to), m, Tables[d], Selected(m, Tables[d], from, to))
<1> DEFINE table == Tables[d]
           found == Selected(m, table, from, to)
           bars  == Loaded(m, table, from, to)
           size  == Cardinality(found)
           Earlier(i, j) == \/ table[i][m.date] < table[j][m.date]
                            \/ table[i][m.date] = table[j][m.date] /\ i < j
           Before(i) == {j \in found : Earlier(j, i)}
           At(n) == CHOOSE i \in found : Cardinality(Before(i)) = n - 1
<1>1. IsFiniteSet(found) /\ found \subseteq Nat BY SelectedIsFinite
<1>2. size \in Nat BY <1>1, FS_CardinalityType
<1>3. bars = [n \in 1..size |-> Source(m, table[At(n)])] BY DEF Loaded
<1>4. \A i \in found : table[i][m.date] \in Int BY DEF Dated
<1> HIDE DEF found, bars, size, table
<1>5. ASSUME NEW i \in found
      PROVE  Cardinality(Before(i)) \in 0..(size - 1) /\ IsFiniteSet(Before(i))
  <2>1. Before(i) \in SUBSET found /\ i \notin Before(i) BY <1>1, <1>4
  <2>2. /\ IsFiniteSet(Before(i)) /\ Cardinality(Before(i)) <= size
        /\ size = Cardinality(Before(i)) => found = Before(i)
    BY <1>1, <2>1, FS_Subset DEF size
  <2>3. Cardinality(Before(i)) # size BY <2>1, <2>2
  <2>4. Cardinality(Before(i)) \in Nat BY <2>2, FS_CardinalityType
  <2> QED BY <1>2, <2>2, <2>3, <2>4
<1>6. ASSUME NEW i \in found, NEW j \in found, Earlier(i, j)
      PROVE  Cardinality(Before(i)) # Cardinality(Before(j))
  <2>1. Before(i) \in SUBSET Before(j)
    <3> SUFFICES ASSUME NEW k \in found, Earlier(k, i) PROVE Earlier(k, j) OBVIOUS
    <3>1. /\ i \in Nat /\ j \in Nat /\ k \in Nat /\ table[i][m.date] \in Int
          /\ table[j][m.date] \in Int /\ table[k][m.date] \in Int
      BY <1>1, <1>4
    <3> QED BY <1>6, <3>1
  <2>2. i \in Before(j) /\ i \notin Before(i) BY <1>1, <1>4, <1>6
  <2>3. IsFiniteSet(Before(j)) BY <1>5
  <2> QED BY <2>1, <2>2, <2>3, FS_Subset
<1>7. ASSUME NEW i \in found, NEW j \in found, i # j PROVE Earlier(i, j) \/ Earlier(j, i)
  BY <1>1, <1>4, <1>7
<1>8. ASSUME NEW i \in found PROVE \E n \in DOMAIN bars : bars[n] = Source(m, table[i])
  <2> DEFINE n == Cardinality(Before(i)) + 1
  <2>1. n \in 1..size /\ Cardinality(Before(i)) = n - 1 BY <1>2, <1>5
  <2> HIDE DEF n
  <2>2. At(n) \in found /\ Cardinality(Before(At(n))) = n - 1 BY <2>1
  <2>3. At(n) = i
    <3> DEFINE a == At(n)
    <3>1. a \in found /\ Cardinality(Before(a)) = Cardinality(Before(i)) BY <2>1, <2>2
    <3> HIDE DEF a, Before, Earlier, At
    <3>2. a = i BY <1>6, <1>7, <3>1
    <3> QED BY <3>2 DEF a
  <2>4. DOMAIN bars = 1..size /\ bars[n] = Source(m, table[At(n)]) BY <1>3, <2>1
  <2> QED BY <2>1, <2>3, <2>4
<1>9. Len(bars) = size BY <1>2, <1>3
<1> QED BY <1>8, <1>9 DEF Whole, found, bars, size, table

---------------------------------------------------------------------------
\* A run is of what the page showed: while it is served the page is frozen, and the
\* columns it takes are those of the dataset.
Reviewed ==
    /\ pc # "page" => request = form
    /\ {form.from, form.to} # {Null} => datesOf = form.dataset
    /\ pc \in {"file", "load", "range"} => map = Detected[request.dataset]
    /\ RunIsAsReviewed

LEMMA LoadIsAsReviewed == TypeOK /\ Progress /\ Reviewed /\ Load => RunIsAsReviewed'
<1> SUFFICES ASSUME TypeOK, Progress, Reviewed, Load, Ran' PROVE RunIsAsReviewed'
  BY DEF RunIsAsReviewed
<1> DEFINE d     == request.dataset
           table == Tables[d]
           found == Selected(map, table, request.from, request.to)
           bars  == Loaded(map, table, request.from, request.to)
<1>1. /\ pc = "load" /\ answer = Null /\ map = Detected[d]
      /\ UNCHANGED <<request, datesOf, map>>
      /\ request = form
  BY DEF Load, Progress, Reviewed, page
<1>2. Fault(bars) = "NONE" /\ answer' = [kind |-> "run", map |-> map, bars |-> bars]
  BY <1>1 DEF Load, Refuse, Ran
<1>3. ValidateMarketData(bars) /\ Castable(map, table) /\ Bound(map, Columns[d])
  BY <1>2 DEF Fault
<1>4. /\ d \in Datasets /\ request.strategy \in StrategyIds
      /\ request.parameters \in [DOMAIN Defaults[request.strategy] -> Int]
  BY <1>1, ParametersAreOwn
<1>5. Dated(map, table, request.from, request.to)
  <2> SUFFICES ASSUME NEW i \in found PROVE table[i][map.date] \in Int BY DEF Dated
  <2>1. i \in DOMAIN table BY DEF Selected
  <2>2. map.date # "none"
    <3>1. Compatible(map) /\ "date" \in Needed BY <1>1 DEF Progress, Needed
    <3> QED BY <3>1 DEF Compatible
  <2>3. "date" \in DOMAIN map
    BY <1>1, <1>4 DEF Detected, DetectMarketColumns, DetectNormalized
  <2>4. map.date \in {map[field] : field \in DOMAIN map} BY <2>3
  <2>5. map.date \in {c.name : c \in Range(Columns[d])} BY <1>3, <2>2, <2>4 DEF Bound
  <2>6. table \in Seq([{c.name : c \in Range(Columns[d])} -> Int \cup {Null, Junk}])
    BY <1>4, WizardAssumption
  <2>7. table[i] \in [{c.name : c \in Range(Columns[d])} -> Int \cup {Null, Junk}]
    <3> DEFINE Row == [{c.name : c \in Range(Columns[d])} -> Int \cup {Null, Junk}]
    <3> HIDE DEF Row, table
    <3>1. table \in Seq(Row) BY <2>6 DEF Row
    <3>2. table[i] \in Row BY <2>1, <3>1
    <3> QED BY <3>2 DEF Row
  <2>8. table[i][map.date] \in Int \cup {Null, Junk} BY <2>5, <2>7
  <2>9. table[i][map.date] # Junk BY <1>3, <2>1 DEF Castable
  <2>10. table[i][map.date] # Null BY DEF Selected, Source
  <2> QED BY <2>8, <2>9, <2>10
<1>6. /\ Len(bars) = Cardinality(found)
      /\ \A i \in found : \E n \in DOMAIN bars : bars[n] = Source(map, table[i])
  <2>1. Whole(bars, map, table, found) BY <1>4, <1>5, LoadedIsWhole
  <2> HIDE DEF bars, found, table
  <2> QED BY <2>1 DEF Whole
<1>7. Asked' = found
  <2>1. \A cell : Number(cell) # Null <=> cell \notin {Null, Junk} BY DEF Number
  <2> QED BY <1>1, <1>2, <2>1 DEF Asked, Selected, Source, Inside
<1>8. ASSUME NEW i \in found
      PROVE  \E n \in DOMAIN bars :
                /\ bars[n].ts = table[i][map.date]
                /\ \A field \in Range(Prices) : bars[n][field] = table[i][map[field]]
  <2>1. PICK n \in DOMAIN bars : bars[n] = Source(map, table[i]) BY <1>6
  <2>2. Range(Prices) = {"open", "high", "low", "close"} BY DEF Prices, Range
  <2>3. \A field \in Range(Prices) : bars[n][field] # Null
    BY <1>3, <2>1 DEF ValidateMarketData, ValidBar, Positive
  <2>4. \A cell : Number(cell) # Null => Number(cell) = cell BY DEF Number
  <2> HIDE DEF bars
  <2>5. /\ bars[n].ts = table[i][map.date]
        /\ bars[n].open = Number(table[i][map.open]) /\ bars[n].high = Number(table[i][map.high])
        /\ bars[n].low = Number(table[i][map.low]) /\ bars[n].close = Number(table[i][map.close])
    BY <2>1 DEF Source
  <2> QED BY <2>2, <2>3, <2>4, <2>5
<1>9. DOMAIN request.parameters = DOMAIN Defaults[request.strategy] BY <1>4
<1>10. {request.from, request.to} # {Null} => datesOf = d BY <1>1 DEF Reviewed
<1>11. (\A field \in Needed : Own(d, field) # {}) =>
          \A field \in Needed : map[field] \in Own(d, field)
  BY <1>1, <1>4, OwnColumnsAreFound
<1> HIDE DEF bars, found, table
<1> QED BY <1>1, <1>2, <1>6, <1>7, <1>8, <1>9, <1>10, <1>11 DEF RunIsAsReviewed, Own, table

LEMMA StepIsReviewed == TypeOK /\ Progress /\ Reviewed /\ [Next]_vars => Reviewed'
<1> SUFFICES ASSUME TypeOK, Progress, Reviewed, [Next]_vars PROVE Reviewed' OBVIOUS
<1>1. Detected' = Detected BY DEF Detected
<1>2. ASSUME UNCHANGED <<request, answer, datesOf>> PROVE RunIsAsReviewed'
  <2>1. Ran' = Ran /\ Asked' = Asked BY <1>2 DEF Ran, Asked
  <2>2. \A d, field : Own(d, field)' = Own(d, field) BY DEF Own
  <2>3. RunIsAsReviewed BY DEF Reviewed
  <2> HIDE DEF Reviewed, TypeOK, Progress, Next
  <2> QED BY <1>2, <2>1, <2>2, <2>3 DEF RunIsAsReviewed
<1>3. ASSUME UNCHANGED <<form, datesOf, serving>> PROVE Reviewed'
  BY <1>1, <1>2, <1>3 DEF Reviewed, serving
<1>4. ASSUME answer' = Null PROVE RunIsAsReviewed' BY <1>4 DEF RunIsAsReviewed, Ran
<1>5. CASE Fill
  <2>1. pc = "page" /\ answer = Null /\ UNCHANGED serving
    BY <1>5 DEF Fill, Editing, SelectDataset, SelectStrategy, SetParameter, SetExecution,
       SetDate, SetName,
       GoTo, Continue, RetryCompatibility, Progress
  <2>2. {form'.from, form'.to} # {Null} => datesOf' = form'.dataset
    <3>1. ASSUME NEW d \in offered, SelectDataset(d)
          PROVE  {form'.from, form'.to} = {Null}
      BY <3>1 DEF SelectDataset, TypeOK, Form
    <3>2. ASSUME NEW bound \in {"from", "to"}, NEW day \in Days \cup {Null}, SetDate(bound, day)
          PROVE  datesOf' = form'.dataset
      BY <3>2 DEF SetDate, TypeOK, Form
    <3>3. ASSUME ~(\E d \in offered : SelectDataset(d)),
                 ~(\E bound \in {"from", "to"}, day \in Days \cup {Null} : SetDate(bound, day))
          PROVE  /\ datesOf' = datesOf /\ form'.dataset = form.dataset
                 /\ form'.from = form.from /\ form'.to = form.to
      BY <1>5, <3>3 DEF Fill, SelectStrategy, SetParameter, SetExecution, SetName, GoTo, Continue,
         RetryCompatibility, TypeOK, Form
    <3> QED BY <3>1, <3>2, <3>3 DEF Reviewed
  <2>3. RunIsAsReviewed' BY <1>4, <2>1 DEF serving
  <2> QED BY <2>1, <2>2, <2>3 DEF Reviewed, serving
<1>6. CASE Run
  <2>1. answer' = Null BY <1>6 DEF Run, Progress
  <2>2. request' = form /\ pc' = "body" /\ UNCHANGED <<form, datesOf>> BY <1>6 DEF Run, page
  <2> QED BY <1>4, <2>1, <2>2 DEF Reviewed
<1>7. CASE CreateBacktest
  <2>1. pc # "page" /\ UNCHANGED <<form, datesOf, request, offered>>
    BY <1>7 DEF CreateBacktest, ValidateBody, FindDataset, ListColumns, AcquireLocalPath, Load,
       ExplainRange, page
  <2>2. request = form /\ request' = form' BY <2>1 DEF Reviewed
  <2>3. {form'.from, form'.to} # {Null} => datesOf' = form'.dataset BY <2>1 DEF Reviewed
  <2>4. pc' \in {"file", "load", "range"} => map' = Detected'[request'.dataset]
    <3>1. CASE ListColumns
      <4>1. map' = MapOf(request.dataset) /\ (pc' = "done" \/ Compatible(map'))
        BY <3>1 DEF ListColumns, Refuse
      <4> QED BY <1>1, <2>1, <4>1, NothingIsIncompatible DEF MapOf
    <3>2. CASE ~ListColumns
      <4>1. map' = map
        BY <1>7, <3>2 DEF CreateBacktest, ValidateBody, FindDataset, AcquireLocalPath, Load,
           ExplainRange
      <4>2. pc' \in {"file", "load", "range"} => pc \in {"file", "load", "range"}
        BY <1>7, <3>2 DEF CreateBacktest, ValidateBody, FindDataset, AcquireLocalPath, Load,
           ExplainRange, Refuse
      <4> QED BY <1>1, <2>1, <4>1, <4>2 DEF Reviewed
    <3> QED BY <3>1, <3>2
  <2>5. RunIsAsReviewed'
    <3>1. CASE Load BY <3>1, LoadIsAsReviewed
    <3>2. CASE ~Load
      <4>1. answer' = answer \/ \E code : Refuse(code)
        BY <1>7, <3>2 DEF CreateBacktest, ValidateBody, FindDataset, ListColumns,
           AcquireLocalPath, ExplainRange
      <4>2. ASSUME NEW code, Refuse(code) PROVE RunIsAsReviewed'
        BY <4>2 DEF Refuse, RunIsAsReviewed, Ran
      <4> QED BY <1>2, <2>1, <4>1, <4>2
    <3> QED BY <3>1, <3>2
  <2> QED BY <2>1, <2>2, <2>3, <2>4, <2>5 DEF Reviewed
<1>8. CASE TryAgain
  <2>1. answer' = Null /\ pc' = "page" /\ UNCHANGED <<form, datesOf>>
    BY <1>8 DEF TryAgain, page
  <2> QED BY <1>4, <2>1 DEF Reviewed
<1>9. CASE Fetch
  BY <1>3, <1>9 DEF Fetch, FetchCompatibility, FetchRange, RecallCompatibility, RecallRange
<1>10. CASE Delete
  BY <1>3, <1>10 DEF Delete, DeleteObject, ReleaseLocalPath, DeleteRow, page
<1>11. CASE UNCHANGED vars BY <1>3, <1>11 DEF vars, page
<1> QED BY <1>5, <1>6, <1>7, <1>8, <1>9, <1>10, <1>11 DEF Next

\* A backtest is of what the wizard shows before Run is pressed: its parameters, its
\* dates, and every row of the period that has a close, each once, with the prices of
\* the columns that are its own.
THEOREM RunsAreAsReviewed == Spec => []RunIsAsReviewed
<1>1. Init => Reviewed
  <2> SUFFICES ASSUME Init PROVE Reviewed OBVIOUS
  <2>1. PICK d : form = [Blank EXCEPT !.dataset = d] BY DEF Init
  <2>2. form.from = Null /\ form.to = Null BY <2>1 DEF Blank
  <2> QED BY <2>2 DEF Init, Reviewed, RunIsAsReviewed, Ran
<1>2. Inv /\ Reviewed /\ [Next]_vars => Reviewed' BY StepIsReviewed DEF Inv
<1>3. Reviewed => RunIsAsReviewed BY DEF Reviewed
<1> QED BY <1>1, <1>2, <1>3, Invariant, PTL DEF Spec
=============================================================================
