------------------------ MODULE HandlerDispatchProofs ------------------------
(* The query entries of a project select every block its handlers use, for    *)
(* every supported manifest and every chain that spells as the dictionary does. *)
EXTENDS HandlerDispatch, TLAPS

\* A filter with a module and a method is looked up as it is matched.
LEMMA RuntimeEntryFound ==
    ASSUME NEW block, NEW filter, NEW kind \in {"Call", "Event"},
           FilterEntries(kind, {filter}) # {},
           \/ kind = "Call" /\ FilterExtrinsics(block, {filter}) # {}
           \/ kind = "Event" /\ FilterEvents(block, {filter}) # {}
    PROVE  /\ FilterEntries(kind, {filter}) = {FilterEntry(kind, filter)}
           /\ \E row \in Rows(block) : /\ FilterEntry(kind, filter).entity = row.entity
                                       /\ Holds(FilterEntry(kind, filter), row)
<1>1. /\ filter.module # Undefined /\ filter.method # Undefined
      /\ FilterEntries(kind, {filter}) = {FilterEntry(kind, filter)}
  BY DEF FilterEntries
<1>2. CASE kind = "Call"
  <2>1. PICK x \in DOMAIN block.extrinsics : MatchesCall(block, x, filter)
    BY <1>2 DEF FilterExtrinsics
  <2>2. /\ block.extrinsics[x].section = filter.module
        /\ block.extrinsics[x].method = filter.method
    BY <1>1, <2>1 DEF MatchesCall, Fits
  <2> DEFINE row == Row("extrinsics", [module |-> filter.module, call |-> filter.method])
  <2>3. row \in Rows(block)
    BY <2>2 DEF Rows
  <2>4. row.entity = FilterEntry(kind, filter).entity /\ Holds(FilterEntry(kind, filter), row)
    BY <1>2 DEF Row, FilterEntry, Holds, Condition
  <2> QED
    BY <1>1, <2>3, <2>4
<1>3. CASE kind = "Event"
  <2>1. PICK e \in DOMAIN block.events : MatchesEvent(block, e, filter)
    BY <1>3 DEF FilterEvents
  <2>2. /\ block.events[e].section = filter.module
        /\ block.events[e].method = filter.method
    BY <1>1, <2>1 DEF MatchesEvent, Fits
  <2> DEFINE row == Row("events", [module |-> filter.module, event |-> filter.method])
  <2>3. row \in Rows(block)
    BY <2>2 DEF Rows
  <2>4. row.entity = FilterEntry(kind, filter).entity /\ Holds(FilterEntry(kind, filter), row)
    BY <1>3 DEF Row, FilterEntry, Holds, Condition
  <2> QED
    BY <1>1, <2>3, <2>4
<1> QED
  BY <1>2, <1>3

LEMMA SpelledAlike ==
    ASSUME NEW a, NEW b, Spelled(a), Spelled(b), NormalizedEq(a, b)
    PROVE  a = b
  BY DEF Spelled, NormalizedEq

\* A log a handler of a contract's logs accepts has a row its entry selects.
LEMMA LogEntryFound ==
    ASSUME NEW block, SpelledByChain(block), NEW handler, AddressGiven(handler),
           SpelledIfGiven(handler.address),
           \A i \in 1 .. 4 : TopicGiven(handler, i) => Spelled(handler.filter.topics[i]),
           NEW e \in FilterEvents(block, BaseFilter("MoonbeamEvent")),
           LogPasses(handler, block.events[e])
    PROVE  \E row \in Rows(block) : LogEntry(handler).entity = row.entity
                                    /\ Holds(LogEntry(handler), row)
<1> DEFINE log == block.events[e]
           row == LogRow(log)
<1>1. e \in DOMAIN block.events /\ log.section = "evm" /\ log.method = "Log"
  <2>1. PICK filter \in BaseFilter("MoonbeamEvent") : MatchesEvent(block, e, filter)
    BY DEF FilterEvents, BaseFilter
  <2>2. filter.module = "evm" /\ filter.method = "Log"
    BY <2>1 DEF BaseFilter, AnyFilter
  <2>3. Fits("evm", log.section) /\ Fits("Log", log.method)
    BY <2>1, <2>2 DEF MatchesEvent
  <2>4. e \in DOMAIN block.events
    BY DEF FilterEvents
  <2>5. "evm" # Undefined /\ "Log" # Undefined
    BY UndefinedAssumption
  <2> QED
    BY <2>3, <2>4, <2>5 DEF Fits
<1>2. Spelled(log.address) /\ \A i \in DOMAIN log.topics : Spelled(log.topics[i])
  BY <1>1 DEF SpelledByChain
<1>3. row \in Rows(block)
  BY DEF Rows
<1>4. log.address = handler.address
  <2>1. Spelled(handler.address) /\ NormalizedEq(handler.address, log.address)
    BY DEF SpelledIfGiven, AddressGiven, LogPasses, LogAddressFits
  <2> QED
    BY <1>2, <2>1, SpelledAlike
<1>5. ASSUME NEW i \in 1 .. 4, TopicGiven(handler, i)
      PROVE  LogTopic(log, i) = handler.filter.topics[i]
  <2>1. i \in DOMAIN log.topics /\ NormalizedEq(handler.filter.topics[i], log.topics[i])
    BY <1>5 DEF LogPasses, TopicFits
  <2>2. Spelled(log.topics[i]) /\ Spelled(handler.filter.topics[i])
    BY <1>2, <1>5, <2>1
  <2>3. log.topics[i] = handler.filter.topics[i]
    BY <2>1, <2>2, SpelledAlike
  <2> QED
    BY <2>1, <2>3 DEF LogTopic
<1>6. /\ row.entity = "evmLogs" /\ row.fields["address"] = log.address
      /\ \A i \in 1 .. 4 : row.fields[TopicField[i]] = LogTopic(log, i)
  <2>1. row.entity = "evmLogs" /\ row.fields["address"] = log.address
    BY DEF LogRow, Row
  <2>2. /\ row.fields["topics0"] = LogTopic(log, 1) /\ row.fields["topics1"] = LogTopic(log, 2)
        /\ row.fields["topics2"] = LogTopic(log, 3) /\ row.fields["topics3"] = LogTopic(log, 4)
    BY DEF LogRow, Row
  <2>3. /\ TopicField[1] = "topics0" /\ TopicField[2] = "topics1"
        /\ TopicField[3] = "topics2" /\ TopicField[4] = "topics3"
    BY DEF TopicField
  <2> QED
    BY <2>1, <2>2, <2>3
<1> HIDE DEF row
<1>7. \A c \in LogEntry(handler).conditions : row.fields[c.field] = c.value
  BY <1>4, <1>5, <1>6 DEF LogEntry, Condition
<1> QED
  BY <1>3, <1>6, <1>7 DEF Holds, LogEntry

\* A transaction a handler accepts has a row its entry selects.
LEMMA TransactionEntryFound ==
    ASSUME NEW block, SpelledByChain(block), NEW handler,
           SpelledIfGiven(handler.address),
           FilterField(handler, "from") = Undefined \/ Spelled(FilterField(handler, "from")),
           NEW x \in FilterExtrinsics(block, BaseFilter("MoonbeamCall")),
           TransactionPasses(handler, block, x)
    PROVE  \E row \in Rows(block) : TransactionEntry(handler).entity = row.entity
                                    /\ Holds(TransactionEntry(handler), row)
<1> DEFINE from == FilterField(handler, "from")
           function == FilterField(handler, "function")
<1>1. PICK e \in ExecutionEvents(block, x) :
        /\ from # Undefined => NormalizedEq(from, block.events[e].from)
        /\ AddressGiven(handler) => NormalizedEq(handler.address, block.events[e].to)
        /\ Fits(function, block.extrinsics[x].function)
  BY DEF TransactionPasses
<1> DEFINE row == TransactionRow(block, x, e)
<1>2. row \in Rows(block)
  BY <1>1 DEF Rows
<1>3. Spelled(block.events[e].from) /\ Spelled(block.events[e].to)
  BY <1>1 DEF SpelledByChain, ExecutionEvents, ExtrinsicEvents
<1>4. AddressGiven(handler) => handler.address = block.events[e].to
  BY <1>1, <1>3, SpelledAlike DEF AddressGiven, SpelledIfGiven
<1>5. from # Undefined => from = block.events[e].from
  BY <1>1, <1>3, SpelledAlike
<1>6. function # Undefined => function = block.extrinsics[x].function
  BY <1>1 DEF Fits
<1>7. /\ row.entity = "evmTransactions" /\ row.fields["to"] = block.events[e].to
      /\ row.fields["from"] = block.events[e].from
      /\ row.fields["func"] = block.extrinsics[x].function
  BY DEF TransactionRow, Row
<1> HIDE DEF row, from, function
<1>8. ASSUME NEW c \in TransactionEntry(handler).conditions
      PROVE  row.fields[c.field] = c.value
  <2>1. c.value # Undefined
    BY DEF TransactionEntry
  <2>2. CASE c = Condition("to", IF AddressGiven(handler) THEN handler.address ELSE Undefined)
    BY <1>4, <1>7, <2>1, <2>2 DEF Condition
  <2>3. CASE c = Condition("from", FilterField(handler, "from"))
    BY <1>5, <1>7, <2>1, <2>3 DEF Condition, from
  <2>4. CASE c = Condition("func", FilterField(handler, "function"))
    BY <1>6, <1>7, <2>1, <2>4 DEF Condition, function
  <2> QED
    BY <2>2, <2>3, <2>4 DEF TransactionEntry
<1> QED
  BY <1>2, <1>7, <1>8 DEF Holds, TransactionEntry

LEMMA EntriesByKind ==
    ASSUME NEW handler
    PROVE  /\ handler.kind = "Block" => HandlerEntries(handler) = {}
           /\ handler.kind \in {"Call", "Event"} =>
                HandlerEntries(handler) =
                    FilterEntries(handler.kind, {handler.filter} \ {Undefined})
           /\ handler.kind \in CustomKinds =>
                HandlerEntries(handler) =
                    IF DictionaryQuery(handler) # {} THEN DictionaryQuery(handler)
                    ELSE FilterEntries(BaseHandlerKind(handler.kind), BaseFilter(handler.kind))
<1>1. CASE handler.kind = "Block"
  BY <1>1 DEF HandlerEntries, CustomKinds
<1>2. CASE handler.kind \in {"Call", "Event"}
  BY <1>2 DEF HandlerEntries, CustomKinds
<1>3. CASE handler.kind \in CustomKinds
  BY <1>3 DEF HandlerEntries, CustomKinds
<1> QED
  BY <1>1, <1>2, <1>3

LEMMA InputsByKind ==
    ASSUME NEW handler, NEW block
    PROVE  /\ handler.kind = "Block" => HandlerInputs(handler, block) \subseteq {0}
           /\ handler.kind = "Call" =>
                HandlerInputs(handler, block)
                    = FilterExtrinsics(block, {handler.filter} \ {Undefined})
           /\ handler.kind = "Event" =>
                HandlerInputs(handler, block)
                    = FilterEvents(block, {handler.filter} \ {Undefined})
           /\ handler.kind \in CustomKinds =>
                HandlerInputs(handler, block)
                    = {i \in BaseInputs(handler, block) : FilterProcessor(handler, block, i)}
<1>1. CASE handler.kind = "Call"
  BY <1>1 DEF HandlerInputs, CustomKinds
<1>2. CASE handler.kind = "Event"
  BY <1>2 DEF HandlerInputs, CustomKinds
<1>3. CASE handler.kind \in CustomKinds
  BY <1>3 DEF HandlerInputs, CustomKinds
<1>4. CASE handler.kind = "Block"
  <2>1. HandlerInputs(handler, block)
            = IF FilterBlock(block, handler.filter) THEN {0} ELSE {}
    BY <1>4 DEF HandlerInputs, CustomKinds
  <2> QED
    BY <1>4, <2>1 DEF CustomKinds
<1>5. CASE handler.kind \notin {"Call", "Event", "Block"} \cup CustomKinds
  BY <1>5
<1> QED
  BY <1>1, <1>2, <1>3, <1>4, <1>5

\* Whatever a handler uses in a block, one of its entries holds of a row of it.
LEMMA HandlerEntryFound ==
    ASSUME NEW block, SpelledByChain(block), NEW handler, handler.kind \in Kinds,
           SpelledIfGiven(handler.address),
           handler.kind = "MoonbeamCall" =>
               FilterField(handler, "from") = Undefined \/ Spelled(FilterField(handler, "from")),
           handler.kind = "MoonbeamEvent" =>
               \A i \in 1 .. 4 : TopicGiven(handler, i) => Spelled(handler.filter.topics[i]),
           HandlerInputs(handler, block) # {}, HandlerEntries(handler) # {}
    PROVE  \E entry \in HandlerEntries(handler), row \in Rows(block) :
               entry.entity = row.entity /\ Holds(entry, row)
<1>1. handler.kind # "Block"
  BY EntriesByKind
<1>2. CASE handler.kind \in {"Call", "Event"}
  <2> DEFINE kind == handler.kind
  <2>1. HandlerEntries(handler) = FilterEntries(kind, {handler.filter} \ {Undefined})
    BY <1>2, EntriesByKind
  <2>2. {handler.filter} \ {Undefined} = {handler.filter}
    <3>1. {handler.filter} \ {Undefined} # {}
      BY <2>1 DEF FilterEntries
    <3> QED
      BY <3>1
  <2>3. \/ kind = "Call" /\ FilterExtrinsics(block, {handler.filter}) # {}
        \/ kind = "Event" /\ FilterEvents(block, {handler.filter}) # {}
    BY <1>2, <2>2, InputsByKind
  <2> HIDE DEF kind
  <2>4. kind \in {"Call", "Event"}
    BY <1>2 DEF kind
  <2>5. FilterEntries(kind, {handler.filter}) # {}
    BY <2>1, <2>2
  <2>6. /\ FilterEntries(kind, {handler.filter}) = {FilterEntry(kind, handler.filter)}
        /\ \E row \in Rows(block) : /\ FilterEntry(kind, handler.filter).entity = row.entity
                                    /\ Holds(FilterEntry(kind, handler.filter), row)
    BY <2>3, <2>4, <2>5, RuntimeEntryFound
  <2> QED
    BY <2>1, <2>2, <2>6
<1>3. CASE handler.kind = "MoonbeamEvent"
  <2>1. PICK e \in FilterEvents(block, BaseFilter("MoonbeamEvent")) :
            LogPasses(handler, block.events[e])
    <3>1. PICK e \in BaseInputs(handler, block) : FilterProcessor(handler, block, e)
      BY <1>3, InputsByKind DEF CustomKinds
    <3> QED
      BY <1>3, <3>1 DEF BaseInputs, BaseHandlerKind, FilterProcessor
  <2>2. CASE AddressGiven(handler)
    <3>1. HandlerEntries(handler) = {LogEntry(handler)}
      BY <1>3, <2>2, EntriesByKind DEF CustomKinds, DictionaryQuery
    <3> QED
      BY <1>3, <2>1, <2>2, <3>1, LogEntryFound
  <2>3. CASE ~AddressGiven(handler)
    <3> DEFINE filter == [AnyFilter EXCEPT !.module = "evm", !.method = "Log"]
    <3>1. BaseFilter("MoonbeamEvent") = {filter}
      BY DEF BaseFilter
    <3>2. HandlerEntries(handler) = FilterEntries("Event", BaseFilter("MoonbeamEvent"))
      BY <1>3, <2>3, EntriesByKind DEF CustomKinds, DictionaryQuery, BaseHandlerKind
    <3> HIDE DEF filter
    <3>3. FilterEntries("Event", {filter}) # {} /\ FilterEvents(block, {filter}) # {}
      BY <2>1, <3>1, <3>2
    <3>4. /\ FilterEntries("Event", {filter}) = {FilterEntry("Event", filter)}
          /\ \E row \in Rows(block) : /\ FilterEntry("Event", filter).entity = row.entity
                                      /\ Holds(FilterEntry("Event", filter), row)
      BY <3>3, RuntimeEntryFound
    <3> QED
      BY <3>1, <3>2, <3>4
  <2> QED
    BY <2>2, <2>3
<1>4. CASE handler.kind = "MoonbeamCall"
  <2>1. PICK x \in FilterExtrinsics(block, BaseFilter("MoonbeamCall")) :
            TransactionPasses(handler, block, x)
    <3>1. PICK x \in BaseInputs(handler, block) : FilterProcessor(handler, block, x)
      BY <1>4, InputsByKind DEF CustomKinds
    <3> QED
      BY <1>4, <3>1 DEF BaseInputs, BaseHandlerKind, FilterProcessor
  <2>2. HandlerEntries(handler) = {TransactionEntry(handler)}
    BY <1>4, EntriesByKind DEF CustomKinds, DictionaryQuery
  <2> QED
    BY <1>4, <2>1, <2>2, TransactionEntryFound
<1>5. handler.kind # "JsonfyEvent"
  <2> SUFFICES ASSUME handler.kind = "JsonfyEvent" PROVE HandlerEntries(handler) = {}
    OBVIOUS
  <2>1. BaseFilter("JsonfyEvent") = {}
    BY DEF BaseFilter
  <2>2. HandlerEntries(handler) = FilterEntries("Event", {})
    BY <2>1, EntriesByKind DEF CustomKinds, DictionaryQuery, BaseHandlerKind
  <2> QED
    BY <2>2 DEF FilterEntries
<1> QED
  BY <1>1, <1>2, <1>3, <1>4, <1>5 DEF Kinds, CustomKinds

\* The entries of a supported project select every block in which one of its
\* handlers has something to do.
THEOREM DictionaryComplete ==
    ASSUME NEW p \in Projects, Supported(p), QueryEntries(p) # {},
           NEW block, SpelledByChain(block),
           NEW handler \in Handlers(p), OfThisChain(handler),
           HandlerInputs(handler, block) # {}
    PROVE  BlockSelected(QueryEntries(p), block)
<1> DEFINE handlers == {h \in Handlers(p) : OfThisChain(h)}
<1>1. handler.kind \in Kinds
  BY DispatchAssumption DEF Handlers
<1>2. HandlerEntries(handler) # {} /\ HandlerEntries(handler) \subseteq QueryEntries(p)
  BY DEF QueryEntries, QueryEntriesOf
<1>3. PICK entry \in QueryEntries(p), row \in Rows(block) :
          entry.entity = row.entity /\ Holds(entry, row)
  <2>1. /\ SpelledIfGiven(handler.address)
        /\ handler.kind = "MoonbeamCall" =>
               FilterField(handler, "from") = Undefined \/ Spelled(FilterField(handler, "from"))
        /\ handler.kind = "MoonbeamEvent" =>
               \A i \in 1 .. 4 : TopicGiven(handler, i) => Spelled(handler.filter.topics[i])
    BY DEF Supported
  <2>2. \E entry \in HandlerEntries(handler), row \in Rows(block) :
            entry.entity = row.entity /\ Holds(entry, row)
    BY <1>1, <1>2, <2>1, HandlerEntryFound
  <2> QED
    BY <1>2, <2>2
<1>4. Selected(QueryEntries(p), row)
  <2>1. CASE entry.conditions = {}
    <3>1. \A f \in QueryEntries(p) : f.entity = row.entity => f.conditions = {}
      BY <1>3, <2>1 DEF Supported
    <3> QED
      BY <1>3, <3>1 DEF Selected
  <2>2. CASE entry.conditions # {}
    BY <1>3, <2>2 DEF Selected
  <2> QED
    BY <2>1, <2>2
<1> QED
  BY <1>3, <1>4 DEF BlockSelected

----------------------------------------------------------------------------
(* The machine that makes the calls                                         *)

\* The calls the first n handlers want of a block.
CallsOfFirst(n, block) ==
    UNION {{<<p, i>> : i \in HandlerInputs(project[p], block)} :
        p \in {q \in 1 .. n : Active(project[q])}}

\* What the calls made so far and the inputs left add up to.
ProgressInv ==
    /\ position > 0 => height <= MaxHeight
    /\ position > 0 /\ ~rejected =>
          Called(calls) \cup {<<position, i>> : i \in inputs}
              = CallsOfFirst(position, Chain[height])
    /\ useDictionary => QueryEntries(project) # {}

DispatchInv == TypeOK /\ ProgressInv /\ EveryCallMade

LEMMA InputsAreIndices ==
    ASSUME NEW handler, handler.kind \in Kinds, NEW h \in 1 .. MaxHeight
    PROVE  HandlerInputs(handler, Chain[h]) \in SUBSET Nat
<1>1. DOMAIN Chain[h].extrinsics \subseteq Nat /\ DOMAIN Chain[h].events \subseteq Nat
  BY DispatchAssumption
<1>2. BaseInputs(handler, Chain[h]) \subseteq Nat
  BY <1>1 DEF BaseInputs, FilterExtrinsics, FilterEvents
<1>3. CASE handler.kind = "Block"
  <2>1. HandlerInputs(handler, Chain[h]) \subseteq {0}
    BY <1>3, InputsByKind
  <2> QED
    BY <2>1
<1>4. CASE handler.kind = "Call"
  <2>1. HandlerInputs(handler, Chain[h])
            = FilterExtrinsics(Chain[h], {handler.filter} \ {Undefined})
    BY <1>4, InputsByKind
  <2> QED
    BY <1>1, <2>1 DEF FilterExtrinsics
<1>5. CASE handler.kind = "Event"
  <2>1. HandlerInputs(handler, Chain[h])
            = FilterEvents(Chain[h], {handler.filter} \ {Undefined})
    BY <1>5, InputsByKind
  <2> QED
    BY <1>1, <2>1 DEF FilterEvents
<1>6. CASE handler.kind \in CustomKinds
  BY <1>2, <1>6, InputsByKind
<1> QED
  BY <1>3, <1>4, <1>5, <1>6 DEF Kinds

\* With the inputs of the next handler, its calls are accounted for.
LEMMA EntryKeepsProgress ==
    ASSUME TypeOK, NEW n \in 1 .. Len(project), n = 1 \/ n = position + 1,
           height \in 1 .. MaxHeight, EnterHandler(n),
           Called(calls') = CallsOfFirst(n - 1, Chain[height])
    PROVE  /\ inputs' \in SUBSET Nat /\ rejected' \in BOOLEAN
           /\ ~rejected' => Called(calls') \cup {<<n, i>> : i \in inputs'}
                                = CallsOfFirst(n, Chain[height])
<1>1. DOMAIN project = 1 .. Len(project) /\ project[n].kind \in Kinds
  BY DispatchAssumption DEF TypeOK
<1>2. CASE ~Active(project[n])
  <2>1. inputs' = {} /\ rejected' = rejected
    BY <1>2 DEF EnterHandler
  <2>2. {q \in 1 .. n : Active(project[q])} = {q \in 1 .. n - 1 : Active(project[q])}
    BY <1>2
  <2> QED
    BY <2>1, <2>2 DEF TypeOK, CallsOfFirst
<1>3. CASE Active(project[n])
  <2>1. /\ rejected' = HandlerThrows(project[n], Chain[height])
        /\ inputs' = IF rejected' THEN {} ELSE HandlerInputs(project[n], Chain[height])
    BY <1>3 DEF EnterHandler
  <2>2. {q \in 1 .. n : Active(project[q])}
            = {q \in 1 .. n - 1 : Active(project[q])} \cup {n}
    BY <1>3
  <2>3. CallsOfFirst(n, Chain[height])
            = CallsOfFirst(n - 1, Chain[height])
              \cup {<<n, i>> : i \in HandlerInputs(project[n], Chain[height])}
    BY <2>2 DEF CallsOfFirst
  <2>4. HandlerInputs(project[n], Chain[height]) \in SUBSET Nat
    BY <1>1, InputsAreIndices
  <2>5. rejected' \in BOOLEAN
    BY <2>1 DEF HandlerThrows
  <2> QED
    BY <2>1, <2>3, <2>4, <2>5
<1> QED
  BY <1>2, <1>3

LEMMA InitEstablishes == Init => DispatchInv
<1> SUFFICES ASSUME Init PROVE DispatchInv
  OBVIOUS
<1>1. Len(project) \in Nat /\ MaxHeight \in Nat
  BY DispatchAssumption DEF Init
<1>2. useDictionary \in BOOLEAN /\ (useDictionary => QueryEntries(project) # {})
  BY DEF Init
<1>3. startHeight .. height - 1 = {} /\ height \in startHeight .. MaxHeight + 1
  BY <1>1 DEF Init
<1>4. journal \in [startHeight .. height - 1 -> Seq(Nat \X Nat)]
  BY <1>3 DEF Init
<1>5. TypeOK
  <2>1. project \in Projects /\ startHeight \in 1 .. MaxHeight /\ rejected \in BOOLEAN
    BY DEF Init
  <2>3. position \in 0 .. Len(project)
    <3>1. position = 0
      BY DEF Init
    <3> QED
      BY <1>1, <3>1
  <2>4. inputs \in SUBSET Nat
    BY DEF Init
  <2>2. calls \in Seq(Nat \X Nat)
    BY DEF Init
  <2> QED
    BY <1>2, <1>3, <1>4, <2>1, <2>2, <2>3, <2>4 DEF TypeOK
<1>6. ProgressInv
  BY <1>2 DEF Init, ProgressInv
<1>7. EveryCallMade
  BY DEF Init, EveryCallMade
<1> QED
  BY <1>5, <1>6, <1>7 DEF DispatchInv

\* A block that is left behind with the calls it wants.
LEMMA BehindKeeps ==
    ASSUME DispatchInv, height <= MaxHeight, UNCHANGED <<startVars, inputs, calls, rejected>>,
           NEW blockCalls \in Seq(Nat \X Nat), Behind(blockCalls),
           Called(blockCalls) = WantedCalls(Chain[height])
    PROVE  DispatchInv'
<1>1. MaxHeight \in Nat /\ Len(project) \in Nat
  BY DispatchAssumption DEF DispatchInv, TypeOK
<1>2. height \in startHeight .. MaxHeight /\ startHeight \in 1 .. MaxHeight
  BY <1>1 DEF DispatchInv, TypeOK
<1>3. /\ journal \in [startHeight .. height - 1 -> Seq(Nat \X Nat)]
      /\ journal' = [h \in startHeight .. height |->
                        IF h = height THEN blockCalls ELSE journal[h]]
      /\ height' = height + 1 /\ position' = 0
  BY DEF DispatchInv, TypeOK, Behind
<1>4. /\ journal' \in [startHeight' .. height' - 1 -> Seq(Nat \X Nat)]
      /\ height' \in startHeight' .. MaxHeight + 1
  <2>1. \A h \in startHeight .. height : h # height => h \in startHeight .. height - 1
    BY <1>1, <1>2
  <2>2. \A h \in startHeight .. height :
            (IF h = height THEN blockCalls ELSE journal[h]) \in Seq(Nat \X Nat)
    BY <1>3, <2>1
  <2>3. startHeight' = startHeight /\ height' - 1 = height
    BY <1>1, <1>2, <1>3 DEF startVars
  <2> QED
    BY <1>1, <1>2, <1>3, <2>2, <2>3
<1>5. TypeOK'
  BY <1>1, <1>3, <1>4 DEF DispatchInv, TypeOK, startVars
<1>6. ProgressInv'
  BY <1>3 DEF DispatchInv, ProgressInv, startVars
<1>7. EveryCallMade'
  <2>1. \A block : WantedCalls(block)' = WantedCalls(block)'
    OBVIOUS
  <2>2. SUFFICES ASSUME NEW h \in DOMAIN journal'
                 PROVE  Called(journal'[h]) = WantedCalls(Chain[h])
    BY DEF EveryCallMade, WantedCalls, Called, Active, startVars
  <2>3. CASE h = height
    BY <1>3, <2>3
  <2>4. CASE h # height
    <3>1. h \in startHeight .. height - 1
      BY <1>1, <1>2, <1>3, <2>4
    <3>2. journal'[h] = journal[h] /\ h \in DOMAIN journal
      BY <1>3, <2>4, <3>1
    <3> QED
      BY <3>2 DEF DispatchInv, EveryCallMade
  <2> QED
    BY <2>3, <2>4
<1> QED
  BY <1>5, <1>6, <1>7 DEF DispatchInv

\* A block the dictionary does not select wants no calls.
LEMMA SkippedWantsNothing ==
    ASSUME project \in Projects, Supported(project), QueryEntries(project) # {},
           NEW block, SpelledByChain(block), ~BlockSelected(QueryEntries(project), block)
    PROVE  WantedCalls(block) = {}
<1> SUFFICES ASSUME NEW p \in DOMAIN project, Active(project[p])
             PROVE  HandlerInputs(project[p], block) = {}
  BY DEF WantedCalls
<1>1. project[p] \in Handlers(project) /\ OfThisChain(project[p])
  BY DEF Handlers, Active
<1> QED
  BY <1>1, DictionaryComplete

LEMMA NextPreserves ==
    ASSUME \A p \in Projects : Supported(p),
           \A h \in 1 .. MaxHeight : SpelledByChain(Chain[h]),
           DispatchInv, [Next]_vars
    PROVE  DispatchInv'
<1>1. /\ MaxHeight \in Nat /\ Len(project) \in Nat \ {0} /\ DOMAIN project = 1 .. Len(project)
      /\ startHeight \in 1 .. MaxHeight /\ height \in startHeight .. MaxHeight + 1
      /\ position \in 0 .. Len(project) /\ project \in Projects
      /\ calls \in Seq(Nat \X Nat) /\ inputs \in SUBSET Nat
  BY DispatchAssumption DEF DispatchInv, TypeOK
<1>2. CASE SkipBlock
  <2>1. WantedCalls(Chain[height]) = {}
    <3>1. SpelledByChain(Chain[height]) /\ Supported(project)
      BY <1>1, <1>2 DEF SkipBlock
    <3>2. QueryEntries(project) # {} /\ ~BlockSelected(QueryEntries(project), Chain[height])
      BY <1>2 DEF SkipBlock, DispatchInv, ProgressInv
    <3> QED
      BY <1>1, <3>1, <3>2, SkippedWantsNothing
  <2>2. Called(<<>>) = {} /\ <<>> \in Seq(Nat \X Nat)
    BY DEF Called
  <2> QED
    BY <1>2, <2>1, <2>2, BehindKeeps DEF SkipBlock
<1>3. CASE TakeBlock
  <2>1. /\ position' = 1 /\ height \in 1 .. MaxHeight /\ calls' = <<>>
        /\ UNCHANGED <<startVars, height, journal>>
    BY <1>1, <1>3 DEF TakeBlock, EnterHandler
  <2>2. Called(calls') = CallsOfFirst(0, Chain[height])
    BY <2>1 DEF Called, CallsOfFirst
  <2>3. /\ inputs' \in SUBSET Nat /\ rejected' \in BOOLEAN
        /\ ~rejected' => Called(calls') \cup {<<1, i>> : i \in inputs'}
                             = CallsOfFirst(1, Chain[height])
    BY <1>1, <1>3, <2>1, <2>2, EntryKeepsProgress DEF TakeBlock, DispatchInv
  <2>4. TypeOK'
    BY <1>1, <2>1, <2>3 DEF DispatchInv, TypeOK, startVars
  <2>5. ProgressInv'
    BY <1>1, <2>1, <2>3 DEF DispatchInv, ProgressInv, startVars, CallsOfFirst, Called, Active
  <2>6. EveryCallMade'
    BY <2>1 DEF DispatchInv, EveryCallMade, WantedCalls, Active, startVars
  <2> QED
    BY <2>4, <2>5, <2>6 DEF DispatchInv
<1>4. CASE NextHandler
  <2>1. /\ position \in 1 .. Len(project) - 1 /\ position' = position + 1
        /\ calls' = calls /\ inputs = {} /\ ~rejected
        /\ UNCHANGED <<startVars, height, journal>>
    BY <1>4 DEF NextHandler, EnterHandler
  <2>2. height \in 1 .. MaxHeight /\ position + 1 \in 1 .. Len(project)
    BY <1>1, <2>1 DEF DispatchInv, ProgressInv
  <2>3. Called(calls') = CallsOfFirst((position + 1) - 1, Chain[height])
    <3>1. Called(calls) = CallsOfFirst(position, Chain[height])
      <4>1. {<<position, i>> : i \in inputs} = {}
        BY <2>1
      <4>2. position > 0
        BY <1>1, <2>1
      <4> QED
        BY <2>1, <4>1, <4>2 DEF DispatchInv, ProgressInv
    <3>2. (position + 1) - 1 = position
      BY <1>1
    <3>3. Called(calls') = Called(calls)
      BY <2>1
    <3> QED
      BY <3>1, <3>2, <3>3
  <2>4. /\ inputs' \in SUBSET Nat /\ rejected' \in BOOLEAN
        /\ ~rejected' => Called(calls') \cup {<<position + 1, i>> : i \in inputs'}
                             = CallsOfFirst(position + 1, Chain[height])
    BY <1>4, <2>2, <2>3, EntryKeepsProgress DEF NextHandler, DispatchInv
  <2>5. TypeOK'
    BY <1>1, <2>1, <2>2, <2>4 DEF DispatchInv, TypeOK, startVars
  <2>6. ProgressInv'
    BY <1>1, <2>1, <2>2, <2>4 DEF DispatchInv, ProgressInv, startVars, CallsOfFirst, Called, Active
  <2>7. EveryCallMade'
    BY <2>1 DEF DispatchInv, EveryCallMade, WantedCalls, Active, startVars
  <2> QED
    BY <2>5, <2>6, <2>7 DEF DispatchInv
<1>5. CASE SecuredExec
  <2>1. PICK i \in inputs : /\ calls' = Append(calls, <<position, i>>)
                            /\ inputs' = inputs \ {i}
                            /\ UNCHANGED <<startVars, height, position, journal, rejected>>
    BY <1>5 DEF SecuredExec
  <2>2. <<position, i>> \in Nat \X Nat
    BY <1>1, <2>1
  <2>3. calls' \in Seq(Nat \X Nat) /\ Called(calls') = Called(calls) \cup {<<position, i>>}
    <3>1. /\ DOMAIN calls = 1 .. Len(calls) /\ Len(calls) \in Nat
          /\ DOMAIN calls' = 1 .. Len(calls) + 1
          /\ \A j \in 1 .. Len(calls) : calls'[j] = calls[j]
          /\ calls'[Len(calls) + 1] = <<position, i>>
      BY <1>1, <2>1, <2>2
    <3> QED
      BY <1>1, <2>1, <2>2, <3>1 DEF Called
  <2>4. TypeOK'
    BY <1>1, <2>1, <2>3 DEF DispatchInv, TypeOK, startVars
  <2>5. Called(calls') \cup {<<position, j>> : j \in inputs'}
            = Called(calls) \cup {<<position, j>> : j \in inputs}
    BY <2>1, <2>3
  <2>6. ProgressInv'
    BY <2>1, <2>5 DEF DispatchInv, ProgressInv, startVars, CallsOfFirst, Active
  <2>7. EveryCallMade'
    BY <2>1 DEF DispatchInv, EveryCallMade, WantedCalls, Active, startVars
  <2> QED
    BY <2>4, <2>6, <2>7 DEF DispatchInv
<1>6. CASE BlockIndexed
  <2>1. Called(calls) = WantedCalls(Chain[height])
    BY <1>1, <1>6 DEF BlockIndexed, DispatchInv, ProgressInv, CallsOfFirst, WantedCalls
  <2>2. height <= MaxHeight
    BY <1>1, <1>6 DEF BlockIndexed, DispatchInv, ProgressInv
  <2> QED
    BY <1>1, <1>6, <2>1, <2>2, BehindKeeps DEF BlockIndexed
<1>7. CASE UNCHANGED vars
  <2>1. TypeOK' /\ ProgressInv'
    BY <1>7 DEF vars, DispatchInv, TypeOK, ProgressInv, CallsOfFirst, Called, Active
  <2>2. EveryCallMade'
    BY <1>7 DEF vars, DispatchInv, EveryCallMade, WantedCalls, Active
  <2> QED
    BY <2>1, <2>2 DEF DispatchInv
<1> QED
  BY <1>2, <1>3, <1>4, <1>5, <1>6, <1>7 DEF Next

\* The state of the dispatch keeps its types, for all manifests whose entries the
\* dictionary can be relied on for, over every chain that spells its hex strings in
\* the one way the dictionary does.
THEOREM TypeCorrect ==
    ASSUME \A p \in Projects : Supported(p),
           \A h \in 1 .. MaxHeight : SpelledByChain(Chain[h])
    PROVE  Spec => []TypeOK
<1>1. Init => DispatchInv
  BY InitEstablishes
<1>2. DispatchInv /\ [Next]_vars => DispatchInv'
  BY NextPreserves
<1>3. DispatchInv => TypeOK
  BY DEF DispatchInv
<1> QED
  BY <1>1, <1>2, <1>3, PTL DEF Spec

\* Under the same two conditions every handler is called with all its filter lets
\* through in every block that is behind, whether or not a dictionary chose the
\* blocks, and though a processor may throw on a later one.
THEOREM NoCallLost ==
    ASSUME \A p \in Projects : Supported(p),
           \A h \in 1 .. MaxHeight : SpelledByChain(Chain[h])
    PROVE  Spec => []EveryCallMade
<1>1. Init => DispatchInv
  BY InitEstablishes
<1>2. DispatchInv /\ [Next]_vars => DispatchInv'
  BY NextPreserves
<1>3. DispatchInv => EveryCallMade
  BY DEF DispatchInv
<1> QED
  BY <1>1, <1>2, <1>3, PTL DEF Spec
=============================================================================
