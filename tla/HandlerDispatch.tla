--------------------------- MODULE HandlerDispatch ---------------------------
(* From the manifest to the calls of the handlers.  FetchService.init turns   *)
(* the filters of the project's handlers into dictionary query entries; the   *)
(* dictionary selects the blocks to fetch by them; indexBlock runs every      *)
(* handler over the parts of a fetched block its filter lets through.  The    *)
(* two read the same filters in different code: a block the entries do not    *)
(* select is never fetched, so a handler that would have run on it is lost    *)
(* without a trace.                                                           *)
(* A project is the sequence of its handlers, in the order of the data        *)
(* sources and of the handlers in each.                                       *)
EXTENDS CustomProcessors

CONSTANTS
    Projects,       \* the manifests considered
    Chain,          \* the blocks of the chain, from height 1 to MaxHeight
    MaxHeight,
    NodeSpecName    \* the spec name of the chain the node is connected to

\* What manifest validation and validateCustomDs let through.
Kinds == {"Block", "Call", "Event"} \cup CustomKinds

ASSUME DispatchAssumption ==
    /\ MaxHeight \in Nat /\ DOMAIN Chain = 1 .. MaxHeight
    /\ \A h \in 1 .. MaxHeight : DOMAIN Chain[h].extrinsics \subseteq Nat
                                /\ DOMAIN Chain[h].events \subseteq Nat
    /\ \A p \in Projects : /\ Len(p) \in Nat \ {0} /\ DOMAIN p = 1 .. Len(p)
                          /\ \A i \in 1 .. Len(p) : p[i].kind \in Kinds

VARIABLES
    project,
    useDictionary,
    startHeight,    \* the height filterDataSources is given
    height,         \* the next height to decide on
    position,       \* the handler of the block under way, 0 between blocks
    inputs,         \* the inputs it has still to be called with
    calls,          \* the calls of this block, as <<handler, input>>
    journal,        \* the calls of each block behind
    rejected        \* a processor threw: the block failed, and the process

vars == <<project, useDictionary, startHeight, height, position, inputs, calls,
          journal, rejected>>
blockVars == <<position, inputs, calls>>
startVars == <<project, useDictionary, startHeight>>

----------------------------------------------------------------------------
(* FetchService: what the dictionary is asked for                             *)

\* callFilterToQueryEntry, eventFilterToQueryEntry
FilterEntry(kind, filter) ==
    IF kind = "Call"
    THEN [entity |-> "extrinsics",
          conditions |-> {Condition("module", filter.module), Condition("call", filter.method)}]
    ELSE [entity |-> "events",
          conditions |-> {Condition("module", filter.module), Condition("event", filter.method)}]

\* A filter without a module or a method cannot be looked up.
FilterEntries(kind, filters) ==
    IF \E f \in filters : f.module = Undefined \/ f.method = Undefined
    THEN {}
    ELSE {FilterEntry(kind, f) : f \in filters}

\* The entries of one handler; none when it may need any block.
HandlerEntries(handler) ==
    CASE handler.kind = "Block" -> {}
      [] handler.kind \in {"Call", "Event"} ->
            FilterEntries(handler.kind, {handler.filter} \ {Undefined})
      [] handler.kind \in CustomKinds ->
            IF DictionaryQuery(handler) # {}
            THEN DictionaryQuery(handler)
            ELSE FilterEntries(BaseHandlerKind(handler.kind), BaseFilter(handler.kind))

OfThisChain(handler) == handler.specName \in {Undefined, NodeSpecName}

\* Variant with a bug: a handler that needs any block is only left out.
BugQueryEntries(handlers) == UNION {HandlerEntries(h) : h \in handlers}

\* getDictionaryQueryEntries: none at all as soon as one handler has none.
QueryEntriesOf(handlers) ==
    IF \E h \in handlers : HandlerEntries(h) = {}
    THEN {}
    ELSE UNION {HandlerEntries(h) : h \in handlers}

Handlers(p) == {p[i] : i \in DOMAIN p}

QueryEntries(p) == QueryEntriesOf({h \in Handlers(p) : OfThisChain(h)})

----------------------------------------------------------------------------
(* The dictionary: the rows it has of a block, and the rows the query asks    *)
(* for.  Rows spell addresses, topics and selectors as the chain does.        *)

Row(entity, fields) == [entity |-> entity, fields |-> fields]

LogTopic(log, i) == IF i \in DOMAIN log.topics THEN log.topics[i] ELSE Undefined

LogRow(log) ==
    Row("evmLogs",
        [address |-> log.address,
         topics0 |-> LogTopic(log, 1), topics1 |-> LogTopic(log, 2),
         topics2 |-> LogTopic(log, 3), topics3 |-> LogTopic(log, 4)])

TransactionRow(block, x, e) ==
    Row("evmTransactions",
        [to |-> block.events[e].to, from |-> block.events[e].from,
         func |-> block.extrinsics[x].function])

Rows(block) ==
    {Row("events", [module |-> ev.section, event |-> ev.method]) :
        ev \in {block.events[e] : e \in DOMAIN block.events}}
    \cup {Row("extrinsics", [module |-> ex.section, call |-> ex.method]) :
        ex \in {block.extrinsics[x] : x \in DOMAIN block.extrinsics}}
    \cup {LogRow(block.events[e]) : e \in FilterEvents(block, BaseFilter("MoonbeamEvent"))}
    \cup UNION {{TransactionRow(block, x, e) : e \in ExecutionEvents(block, x)} :
        x \in FilterExtrinsics(block, BaseFilter("MoonbeamCall"))}

Holds(entry, row) == \A c \in entry.conditions : row.fields[c.field] = c.value

\* The filter of an entity is the disjunction of its entries that have conditions:
\* extractVars leaves a hole for an entry without one.  An empty disjunction
\* restricts nothing.
Selected(entries, row) ==
    LET asked == {e \in entries : e.entity = row.entity}
        restricting == {e \in asked : e.conditions # {}}
    IN  /\ asked # {}
        /\ restricting = {} \/ \E e \in restricting : Holds(e, row)

\* What the entries can be relied on for.  A dictionary compares strings as they
\* are spelled, the filters do not; and an entry without conditions is lost when
\* another one of its entity has some.
Spelled(hex) == hex = [id |-> hex.id, canonical |-> TRUE]

SpelledIfGiven(hex) == hex \in {Undefined, Null} \/ Spelled(hex)

Supported(p) ==
    /\ \A h \in Handlers(p) :
        /\ SpelledIfGiven(h.address)
        /\ h.kind = "MoonbeamCall" =>
               FilterField(h, "from") = Undefined \/ Spelled(FilterField(h, "from"))
        /\ h.kind = "MoonbeamEvent" =>
               \A i \in 1 .. 4 : TopicGiven(h, i) => Spelled(h.filter.topics[i])
    /\ \A e, f \in QueryEntries(p) :
        e.entity = f.entity /\ e.conditions = {} => f.conditions = {}

SpelledByChain(block) ==
    \A e \in DOMAIN block.events :
        /\ block.events[e].section = "evm" /\ block.events[e].method = "Log" =>
            /\ Spelled(block.events[e].address)
            /\ \A i \in DOMAIN block.events[e].topics : Spelled(block.events[e].topics[i])
        /\ block.events[e].section = "ethereum" /\ block.events[e].method = "Executed" =>
            Spelled(block.events[e].from) /\ Spelled(block.events[e].to)

BlockSelected(entries, block) == \E row \in Rows(block) : Selected(entries, row)

----------------------------------------------------------------------------
(* IndexerManager: which handlers run, and over what                          *)

\* filterDataSources, by spec name and by the height the process starts from.
Active(handler) == OfThisChain(handler) /\ handler.startBlock <= startHeight

\* The parts of a block the base filter of a handler lets through.
BaseInputs(handler, block) ==
    IF BaseHandlerKind(handler.kind) = "Call"
    THEN FilterExtrinsics(block, BaseFilter(handler.kind))
    ELSE FilterEvents(block, BaseFilter(handler.kind))

HandlerInputs(handler, block) ==
    CASE handler.kind = "Block" -> IF FilterBlock(block, handler.filter) THEN {0} ELSE {}
      [] handler.kind = "Call" -> FilterExtrinsics(block, {handler.filter} \ {Undefined})
      [] handler.kind = "Event" -> FilterEvents(block, {handler.filter} \ {Undefined})
      [] handler.kind \in CustomKinds ->
            {i \in BaseInputs(handler, block) : FilterProcessor(handler, block, i)}

HandlerThrows(handler, block) ==
    /\ handler.kind \in CustomKinds
    /\ \E i \in BaseInputs(handler, block) : ProcessorThrows(handler, block, i)

----------------------------------------------------------------------------

\* filterDataSources ends the process when no data source is left.
Init ==
    /\ project \in Projects
    /\ useDictionary \in {FALSE, QueryEntries(project) # {}}
    /\ startHeight \in 1 .. MaxHeight
    /\ \E h \in Handlers(project) : Active(h)
    /\ height = startHeight
    /\ position = 0
    /\ inputs = {}
    /\ calls = <<>>
    /\ journal = [h \in {} |-> <<>>]
    /\ rejected = FALSE

\* The block at height is behind, with these calls.
Behind(blockCalls) ==
    /\ journal' = [h \in startHeight .. height |->
                      IF h = height THEN blockCalls ELSE journal[h]]
    /\ height' = height + 1
    /\ position' = 0

\* The dictionary answers, and this block is not in the answer.
SkipBlock ==
    /\ position = 0 /\ height <= MaxHeight
    /\ useDictionary
    /\ ~BlockSelected(QueryEntries(project), Chain[height])
    /\ Behind(<<>>)
    /\ UNCHANGED <<startVars, inputs, calls, rejected>>

\* indexBlockForRuntimeDs, indexBlockForCustomDs: the inputs of the next handler
\* are all filtered, and transformed, before its first call.
EnterHandler(p) ==
    /\ ~rejected
    /\ position' = p
    /\ IF ~Active(project[p])
       THEN inputs' = {} /\ UNCHANGED rejected
       ELSE /\ rejected' = HandlerThrows(project[p], Chain[height])
            /\ inputs' = IF rejected' THEN {} ELSE HandlerInputs(project[p], Chain[height])
    /\ UNCHANGED <<startVars, height, journal>>

\* A block is fetched: the dictionary selected it, or it lies in a range.
TakeBlock ==
    /\ position = 0 /\ height <= MaxHeight
    /\ EnterHandler(1)
    /\ calls' = <<>>

NextHandler ==
    /\ position \in 1 .. Len(project) - 1 /\ inputs = {}
    /\ EnterHandler(position + 1)
    /\ UNCHANGED calls

\* Inputs are in the order of the block.
NextInput(i) == i \in inputs /\ \A j \in inputs : i <= j

SecuredExec ==
    /\ \E i \in inputs : /\ NextInput(i)
                         /\ calls' = Append(calls, <<position, i>>)
                         /\ inputs' = inputs \ {i}
    /\ UNCHANGED <<startVars, height, position, journal, rejected>>

BlockIndexed ==
    /\ position = Len(project) /\ inputs = {} /\ ~rejected
    /\ Behind(calls)
    /\ UNCHANGED <<startVars, inputs, calls, rejected>>

Next == SkipBlock \/ TakeBlock \/ NextHandler \/ SecuredExec \/ BlockIndexed

Spec == Init /\ [][Next]_vars

----------------------------------------------------------------------------
(* Properties                                                               *)

TypeOK ==
    /\ project \in Projects
    /\ useDictionary \in BOOLEAN
    /\ startHeight \in 1 .. MaxHeight
    /\ height \in startHeight .. MaxHeight + 1
    /\ position \in 0 .. Len(project)
    /\ inputs \in SUBSET Nat
    /\ calls \in Seq(Nat \X Nat)
    /\ journal \in [startHeight .. height - 1 -> Seq(Nat \X Nat)]
    /\ rejected \in BOOLEAN

Called(sequence) == {sequence[i] : i \in DOMAIN sequence}

\* Every call the manifest asks for in a block.
WantedCalls(block) ==
    UNION {{<<p, i>> : i \in HandlerInputs(project[p], block)} :
        p \in {q \in DOMAIN project : Active(project[q])}}

\* In every block that is behind each handler was called with exactly the parts
\* its filter lets through, whether or not a dictionary chose the blocks: the query
\* entries (fetch.service.ts) never leave out a block the filters (indexer.manager.ts,
\* substrate.ts, moonbeam.ts) would have used.  A block a processor throws on is not
\* behind, and no later one is: nothing is said of how the node gets past it.
EveryCallMade ==
    \A h \in DOMAIN journal : Called(journal[h]) = WantedCalls(Chain[h])
=============================================================================
