------------------------- MODULE MCProjectMigration -------------------------
(* Manifests of each version for ProjectMigration.                          *)
EXTENDS ProjectMigration

CONSTANTS Endpoint, Dictionary, OtherGenesis, Block, Log, Call, Address

Runtime(name, startBlock, file) ==
    [kind |-> RuntimeKind, name |-> name, startBlock |-> startBlock, file |-> file,
     handlers |-> {Block}, processor |-> Undefined, assets |-> {}, options |-> Undefined]

Custom(handler, assets, options) ==
    [kind |-> "substrate/Moonbeam", name |-> Undefined, startBlock |-> 5, file |-> "dist",
     handlers |-> {handler}, processor |-> "processor.js", assets |-> assets, options |-> options]

\* Options that name an ABI need the asset.
MCPlugin ==
    [kind |-> "substrate/Moonbeam", handlers |-> {Log},
     validates |-> {<<Undefined, {}>>, <<Address, {Abi}>>}]

Old(registry, sources, unknown) ==
    [specVersion |-> "0.0.1", schema |-> <<"schema.graphql">>,
     network |-> [endpoint |-> Endpoint, dictionary |-> Dictionary, genesisHash |-> Undefined,
                  blockchainType |-> Undefined, chaintypes |-> Undefined, types |-> registry],
     dataSources |-> sources, unknown |-> unknown]

New(version, endpoint, genesis, chaintypes, sources) ==
    [specVersion |-> version, schema |-> <<"file", "schema.graphql">>,
     network |-> [endpoint |-> endpoint, dictionary |-> Undefined, genesisHash |-> genesis,
                  blockchainType |-> IF version = "0.2.1" THEN "algorand" ELSE Undefined,
                  chaintypes |-> chaintypes, types |-> NoTypes],
     dataSources |-> sources, unknown |-> FALSE]

Types(fields) == [f \in fields |-> f]

Sources == << Runtime("a", 5, Undefined), Runtime("b", Undefined, Undefined), Runtime("c", -1, Undefined) >>

Scripts == {"build", "codegen"}

MCPackages ==
    {[main |-> main, scripts |-> scripts, dependencies |-> {"@subql/cli"}] :
        main \in {"dist", Undefined}, scripts \in {Scripts, {"build"}}}

MCManifests ==
    {Old(Types(fields), Sources, FALSE) :
        fields \in {{}, {"types"}, {"typesAlias", "typesChain"}, {"types", "typesBundle", "typesSpec"}}}
    \cup {Old(Types({}), << >>, FALSE), Old(Types({"types"}), Sources, TRUE)}
    \cup {New(v, e, g, c, << Runtime(Undefined, 5, "dist") >>) :
             v \in {"0.2.0", "0.2.1"}, e \in {Endpoint, Undefined}, g \in {ChainGenesis, OtherGenesis},
             c \in {Undefined, <<"file", "types.json">>}}
    \cup {New(v, Endpoint, ChainGenesis, Undefined, << Custom(handler, {}, Undefined) >>) :
             v \in {"0.2.0", "0.2.1"}, handler \in {Log, Call}}
    \cup {New("0.2.0", Endpoint, ChainGenesis, Undefined, << Custom(Log, assets, Address) >>) :
             assets \in {{}, {"abi.json"}, {"lost.json"}}}
    \cup {New("0.2.0", Endpoint, ChainGenesis, Undefined, << Runtime(Undefined, 5, "lib") >>)}

MCTypesFiles == {Undefined, Types({"types", "typesAlias"})}
=============================================================================
