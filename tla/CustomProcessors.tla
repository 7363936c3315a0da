-------------------------- MODULE CustomProcessors --------------------------
(* The processors of custom data sources: contract-processors/src/moonbeam.ts *)
(* (EVM logs and EVM transactions of a Moonbeam chain) and jsonfy.ts.  A hex   *)
(* string of a manifest is a record [id, canonical]: what it denotes, and      *)
(* whether it is spelled as the chain spells it, lower case and padded.        *)
(* A handler is a record that holds the fields of its data source it needs:    *)
(*   [kind, specName, startBlock, address, filter].                            *)
EXTENDS SubstrateFilters

CONSTANT Null  \* an address given as null: contract creations only

ASSUME UndefinedAssumption == Undefined \notin {"evm", "Log", "ethereum", "transact"}

\* stringNormalizedEq, hexStringEq
NormalizedEq(a, b) == a.id = b.id

AnyFilter == [module |-> Undefined, method |-> Undefined,
              specVersion |-> Undefined, success |-> Undefined]

\* The baseHandlerKind and the baseFilter of a handler processor.
CustomKinds == {"MoonbeamEvent", "MoonbeamCall", "JsonfyEvent"}

BaseHandlerKind(kind) == IF kind = "MoonbeamCall" THEN "Call" ELSE "Event"

BaseFilter(kind) ==
    CASE kind = "MoonbeamEvent" ->
            {[AnyFilter EXCEPT !.module = "evm", !.method = "Log"]}
      [] kind = "MoonbeamCall" ->
            {[AnyFilter EXCEPT !.module = "ethereum", !.method = "transact"]}
      [] kind = "JsonfyEvent" -> {}

AddressGiven(handler) == handler.address \notin {Undefined, Null}

\* Field of a filter that may be missing altogether.
FilterField(handler, field) ==
    IF NoFilter(handler.filter) THEN Undefined ELSE handler.filter[field]

\* getExecutionEvent finds the first ethereum.Executed event of an extrinsic.
ExecutionEvents(block, x) ==
    {e \in ExtrinsicEvents(block, x) :
        block.events[e].section = "ethereum" /\ block.events[e].method = "Executed"}

----------------------------------------------------------------------------
(* EventProcessor                                                           *)

TopicGiven(handler, i) ==
    /\ FilterField(handler, "topics") # Undefined
    /\ i \in DOMAIN handler.filter.topics
    /\ handler.filter.topics[i] # Undefined

TopicFits(handler, log, i) ==
    TopicGiven(handler, i) =>
        i \in DOMAIN log.topics /\ NormalizedEq(handler.filter.topics[i], log.topics[i])

LogAddressFits(handler, log) ==
    AddressGiven(handler) => NormalizedEq(handler.address, log.address)

LogPasses(handler, log) ==
    LogAddressFits(handler, log) /\ \A i \in 1 .. 4 : TopicFits(handler, log, i)

\* The first topic that does not fit is one that the log does not have.
LogThrows(handler, log) ==
    /\ LogAddressFits(handler, log)
    /\ \E i \in 1 .. 4 : /\ TopicGiven(handler, i) /\ i \notin DOMAIN log.topics
                         /\ \A j \in 1 .. i - 1 : TopicFits(handler, log, j)

----------------------------------------------------------------------------
(* CallProcessor: an exception of filterProcessor is caught and means false *)

TransactionPasses(handler, block, x) ==
    \E e \in ExecutionEvents(block, x) :
        LET from == FilterField(handler, "from")
            function == FilterField(handler, "function")
        IN  /\ \A f \in ExecutionEvents(block, x) : e <= f
            /\ from # Undefined => NormalizedEq(from, block.events[e].from)
            /\ AddressGiven(handler) => NormalizedEq(handler.address, block.events[e].to)
            /\ handler.address = Null => block.extrinsics[x].isCreate
            /\ Fits(function, block.extrinsics[x].function)

----------------------------------------------------------------------------
(* The three processors behind one interface                                *)

FilterProcessor(handler, block, i) ==
    CASE handler.kind = "MoonbeamEvent" -> LogPasses(handler, block.events[i])
      [] handler.kind = "MoonbeamCall" -> TransactionPasses(handler, block, i)
      [] handler.kind = "JsonfyEvent" ->
            /\ handler.filter.module = block.events[i].section
            /\ handler.filter.method = block.events[i].method

\* A filterProcessor or a transformer that throws: a log shorter than the topics
\* asked for, a log outside an executed extrinsic, a filter that is not there.
ProcessorThrows(handler, block, i) ==
    CASE handler.kind = "MoonbeamEvent" ->
            \/ LogThrows(handler, block.events[i])
            \/ /\ LogPasses(handler, block.events[i])
               /\ ExecutionEvents(block, block.events[i].extrinsic) = {}
      [] handler.kind = "MoonbeamCall" -> FALSE
      [] handler.kind = "JsonfyEvent" -> NoFilter(handler.filter)

----------------------------------------------------------------------------
(* dictionaryQuery: the entry that selects the rows of a handler's inputs,    *)
(* or none when the processor leaves it to its base filter.                   *)

Condition(field, value) == [field |-> field, value |-> value]

TopicField == <<"topics0", "topics1", "topics2", "topics3">>

LogEntry(handler) ==
    [entity |-> "evmLogs",
     conditions |-> {Condition("address", handler.address)} \cup
        {Condition(TopicField[i], handler.filter.topics[i]) :
            i \in {j \in 1 .. 4 : TopicGiven(handler, j)}}]

TransactionEntry(handler) ==
    [entity |-> "evmTransactions",
     conditions |->
        {c \in {Condition("to", IF AddressGiven(handler) THEN handler.address ELSE Undefined),
                Condition("from", FilterField(handler, "from")),
                Condition("func", FilterField(handler, "function"))} :
            c.value # Undefined}]

DictionaryQuery(handler) ==
    CASE handler.kind = "MoonbeamEvent" ->
            IF AddressGiven(handler) THEN {LogEntry(handler)} ELSE {}
      [] handler.kind = "MoonbeamCall" -> {TransactionEntry(handler)}
      [] handler.kind = "JsonfyEvent" -> {}
=============================================================================
