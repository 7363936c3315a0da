-------------------------- MODULE MCHandlerDispatch --------------------------
(* Small chains and manifests for HandlerDispatch.                           *)
EXTENDS HandlerDispatch

CONSTANTS Contract, Other, Alice, Transfer, Holder, Approve  \* what hex strings denote

Hex(id) == [id |-> id, canonical |-> TRUE]

Extrinsic(section, method) == [section |-> section, method |-> method]

Transact(function, isCreate) ==
    [section |-> "ethereum", method |-> "transact",
     function |-> Hex(function), isCreate |-> isCreate]

Event(section, method, x) == [section |-> section, method |-> method, extrinsic |-> x]

Executed(from, to, x) ==
    [section |-> "ethereum", method |-> "Executed", extrinsic |-> x,
     from |-> Hex(from), to |-> Hex(to)]

Log(address, topics, x) ==
    [section |-> "evm", method |-> "Log", extrinsic |-> x,
     address |-> Hex(address), topics |-> topics]

Success(x) == Event("system", "ExtrinsicSuccess", x)

\* A transfer that succeeds and one that fails; a contract call with two logs; a
\* contract creation, and an event of no extrinsic, under a new runtime; a
\* transaction that was never executed; a log with one topic, which the handlers
\* that ask for a second one throw on; a block with nothing.
MCChain == <<
    [specVersion |-> 1,
     extrinsics |-> <<Extrinsic("balances", "transfer"), Extrinsic("balances", "transfer")>>,
     events |-> <<Event("balances", "Transfer", 1), Success(1),
                  Event("system", "ExtrinsicFailed", 2)>>],
    [specVersion |-> 1,
     extrinsics |-> <<Transact(Approve, FALSE)>>,
     events |-> <<Log(Contract, <<Hex(Transfer), Hex(Holder)>>, 1),
                  Log(Other, <<Hex(Approve), Hex(Holder)>>, 1),
                  Executed(Alice, Contract, 1), Success(1)>>],
    [specVersion |-> 2,
     extrinsics |-> <<Transact(Transfer, TRUE)>>,
     events |-> <<Event("balances", "Transfer", 0), Executed(Alice, Other, 1), Success(1)>>],
    [specVersion |-> 2,
     extrinsics |-> <<Transact(Approve, FALSE)>>,
     events |-> <<Event("system", "ExtrinsicFailed", 1)>>],
    [specVersion |-> 2,
     extrinsics |-> <<Transact(Transfer, FALSE)>>,
     events |-> <<Log(Contract, <<Hex(Transfer)>>, 1), Executed(Alice, Contract, 1),
                  Success(1)>>],
    [specVersion |-> Undefined, extrinsics |-> <<>>, events |-> <<>>] >>

Handler(kind, filter) ==
    [kind |-> kind, filter |-> filter, specName |-> Undefined, startBlock |-> 1,
     address |-> Undefined]

OfContract(address, handler) == [handler EXCEPT !.address = address]

Names(module, method) == [AnyFilter EXCEPT !.module = module, !.method = method]

EvmCall(from, function) == [from |-> from, function |-> function]

RuntimeHandlers == {
    Handler("Block", [AnyFilter EXCEPT !.specVersion = <<2, Undefined>>]),
    Handler("Call", [Names("balances", "transfer") EXCEPT !.success = FALSE]),
    Handler("Call", [Names("ethereum", "transact") EXCEPT !.specVersion = <<Undefined, 1>>]),
    Handler("Call", Names("balances", Undefined)),
    Handler("Event", Names("balances", "Transfer")),
    Handler("Event", Undefined),
    [Handler("Event", Names("balances", "Transfer")) EXCEPT !.startBlock = 3],
    [Handler("Call", Undefined) EXCEPT !.specName = "elsewhere"]}

EvmHandlers == {
    Handler("MoonbeamEvent", [topics |-> <<Undefined, Hex(Holder)>>]),
    OfContract(Hex(Contract), Handler("MoonbeamEvent", [topics |-> <<Hex(Transfer)>>])),
    OfContract(Hex(Other), Handler("MoonbeamEvent", Undefined)),
    OfContract(Hex(Contract), Handler("MoonbeamCall", Undefined)),
    OfContract(Null, Handler("MoonbeamCall", EvmCall(Hex(Alice), Undefined))),
    Handler("MoonbeamCall", EvmCall(Undefined, Hex(Approve))),
    Handler("JsonfyEvent", Names("balances", "Transfer"))}

\* A handler of every EVM transaction, alone.
AnyTransaction == Handler("MoonbeamCall", Undefined)

MCProjects == {<<g, h>> : g \in RuntimeHandlers \cup EvmHandlers, h \in EvmHandlers}
              \cup {<<g, h>> : g, h \in RuntimeHandlers}
              \cup {<<h, AnyTransaction>> : h \in RuntimeHandlers}

\* With a second handler of EVM transactions that is more selective.
MCBareCall ==
    {<<AnyTransaction, h>> : h \in {g \in EvmHandlers : g.kind = "MoonbeamCall"}}

ASSUME MCAssumption ==
    /\ \A h \in 1 .. MaxHeight : SpelledByChain(Chain[h])
    /\ \A p \in MCProjects : Supported(p)
    /\ \A p \in MCBareCall : ~Supported(p)
=============================================================================
