---------------------------- MODULE ProjectManifest ----------------------------
(* What a project manifest means: which manifests each version of the manifest *)
(* specification accepts, what the node makes of one, and what is deployed.    *)
(* The files a manifest names are given by a function from paths to contents.  *)
(* A value of the manifest is a string << v >> or an object with a single      *)
(* field file, << "file" >> \o v.                                              *)
EXTENDS Integers, Sequences

CONSTANTS
    Undefined,
    Rejected,       \* for a project the node, or a command, does not accept
    Torn,           \* a file whose writing did not come to its end
    ChainGenesis    \* the genesis hash the endpoint tells

RuntimeKind == "substrate/Runtime"

TypeFields == {"types", "typesAlias", "typesBundle", "typesChain", "typesSpec"}

NoTypes == [f \in {} |-> Undefined]

IsText(value) == value # Undefined /\ Len(value) = 1
IsFile(value) == value # Undefined /\ Len(value) = 2 /\ value[1] = "file"
PathOf(value) == value[Len(value)]

----------------------------------------------------------------------------
(* Validation                                                               *)

IsCustomDs(ds) == ds.kind # RuntimeKind /\ ds.processor # Undefined

\* Version 0.0.1 has runtime data sources with a name, and no property it does not
\* know: no file of a mapping, no genesis hash, no file of chain types.
ValidV0_0_1(m) ==
    /\ IsText(m.schema)
    /\ m.network.endpoint # Undefined
    /\ m.network.genesisHash = Undefined /\ m.network.blockchainType = Undefined
    /\ m.network.chaintypes = Undefined
    /\ ~m.unknown
    /\ \A i \in DOMAIN m.dataSources :
           LET ds == m.dataSources[i]
           IN  ds.kind = RuntimeKind /\ ds.name # Undefined
               /\ ds.file = Undefined /\ ds.processor = Undefined

ValidDataSource(ds) ==
    /\ ds.file # Undefined
    /\ ds.kind = RuntimeKind \/ ds.processor # Undefined

ValidNetwork(network, version) ==
    /\ network.genesisHash # Undefined
    /\ network.chaintypes # Undefined => IsFile(network.chaintypes)
    /\ version = "0.2.1" => network.blockchainType # Undefined

\* Later versions validate what is deployed, after a first validation has stripped it
\* of every property it does not know: neither those nor the endpoint count.
ValidDeployment(m) ==
    /\ IsFile(m.schema)
    /\ ValidNetwork(m.network, m.specVersion)
    /\ \A i \in DOMAIN m.dataSources : ValidDataSource(m.dataSources[i])

\* loadProjectManifest
Valid(m) ==
    /\ m \notin {Undefined, Torn}
    /\ \/ m.specVersion = "0.0.1" /\ ValidV0_0_1(m)
       \/ m.specVersion \in {"0.2.0", "0.2.1"} /\ ValidDeployment(m)

----------------------------------------------------------------------------
(* What the node makes of a manifest                                        *)

\* parseChainTypes
IsChainTypes(content) ==
    content \notin {Undefined, Torn} /\ DOMAIN content \subseteq TypeFields

ChainTypes(m, contents) ==
    IF m.specVersion = "0.0.1" THEN m.network.types
    ELSE IF m.network.chaintypes = Undefined THEN NoTypes
    ELSE IF IsChainTypes(contents[PathOf(m.network.chaintypes)])
         THEN contents[PathOf(m.network.chaintypes)]
         ELSE Rejected

\* The start block of the node is at least 1.
StartBlock(ds) ==
    IF ds.startBlock = Undefined \/ ds.startBlock < 1 THEN 1 ELSE ds.startBlock

\* getProjectEntry; main is that of package.json, with or without its leading ./
ProjectEntry(main) == IF main = Undefined THEN "dist" ELSE main

\* The code the handlers of a data source are taken from: the file of its mapping
\* counts for a runtime data source only.
DataSourceEntry(ds, main) ==
    IF ds.kind = RuntimeKind /\ ds.file # Undefined THEN ds.file ELSE ProjectEntry(main)

\* The standard validation of a custom data source: a plugin tells its kind and the
\* handlers, with their filters, it takes.
PluginAccepts(ds, plugin) ==
    /\ plugin # Undefined
    /\ ds.kind = plugin.kind
    /\ ds.handlers \subseteq plugin.handlers

FileThere(contents, path) == path \in DOMAIN contents /\ contents[path] # Undefined

\* getAssets: an asset that cannot be read ends the start.
AssetsThere(ds, contents) == \A path \in ds.assets : FileThere(contents, path)

\* The plugin's own validation: of the options and of what the assets hold, as an ABI.
PluginValidates(ds, plugin, contents) ==
    << ds.options, {contents[path] : path \in ds.assets} >> \in plugin.validates

PluginSatisfied(ds, contents) ==
    AssetsThere(ds, contents) /\ PluginValidates(ds, contents[ds.processor], contents)

\* validateCustomDs
CustomDsAccepted(m, contents) ==
    \A i \in DOMAIN m.dataSources :
        IsCustomDs(m.dataSources[i]) =>
            /\ PluginAccepts(m.dataSources[i], contents[m.dataSources[i].processor])
            /\ PluginSatisfied(m.dataSources[i], contents)

\* SubqueryProject.network; in version 0.0.1 the endpoint is part of the validation.
EndpointGiven(m) == m.network.endpoint # Undefined

\* ApiService.init compares a genesis hash that is given with that of the chain.
GenesisMatches(m) == m.network.genesisHash \in {Undefined, ChainGenesis}

NodeAccepts(m, contents) ==
    /\ Valid(m)
    /\ EndpointGiven(m)
    /\ ChainTypes(m, contents) # Rejected
    /\ GenesisMatches(m)
    /\ CustomDsAccepted(m, contents)

\* What a node that is started on a project directory indexes.
NodeView(m, contents, main) ==
    IF ~NodeAccepts(m, contents) THEN Rejected
    ELSE [endpoint   |-> m.network.endpoint,
          dictionary |-> m.network.dictionary,
          chainTypes |-> ChainTypes(m, contents),
          schema     |-> PathOf(m.schema),
          sources    |-> [i \in DOMAIN m.dataSources |->
                             [kind       |-> m.dataSources[i].kind,
                              startBlock |-> StartBlock(m.dataSources[i]),
                              handlers   |-> m.dataSources[i].handlers,
                              entry      |-> DataSourceEntry(m.dataSources[i], main)]]]

----------------------------------------------------------------------------
(* subql validate, of a directory, a repository on GitHub or what was       *)
(* published: readers of a location, each a function from paths to contents *)

Readers == {"local", "github", "ipfs"}

\* getPkg; what is published has no package.json.
ReadPackage(reader, package) == IF reader = "ipfs" THEN Undefined ELSE package

\* getFile; what a reader cannot read or parse it takes to be missing.
ReadFile(contents, path) ==
    IF path \in DOMAIN contents /\ contents[path] # Torn THEN contents[path] ELSE Undefined

\* The rules about package.json.
RequireBuildScript(package) == "build" \in package.scripts
RequireCodegenScript(package) == "codegen" \in package.scripts
RequireCliDep(package) == "@subql/cli" \in package.dependencies

RequireValidManifest(m) == Valid(m)

\* Variant with a bug: a file that is there is taken to hold chain types.
BugRequireValidChainTypes(m, contents) ==
    m.specVersion # "0.0.1" /\ m.network.chaintypes # Undefined =>
        PathOf(m.network.chaintypes) \in DOMAIN contents

RequireValidChainTypes(m, contents) ==
    m.specVersion # "0.0.1" /\ m.network.chaintypes # Undefined =>
        IsChainTypes(ReadFile(contents, PathOf(m.network.chaintypes)))

HasCustomDs(m) == \E i \in DOMAIN m.dataSources : IsCustomDs(m.dataSources[i])

\* Only version 0.2.0 is looked at, neither its assets nor what the plugin says of them
\* and of the options.  A processor is loaded from the directory: elsewhere it is not
\* found, and the command fails.
RequireCustomDsValidation(reader, m, contents) ==
    m.specVersion = "0.2.0" =>
        IF reader = "local"
        THEN \A i \in DOMAIN m.dataSources :
                 IsCustomDs(m.dataSources[i]) =>
                     PluginAccepts(m.dataSources[i], contents[m.dataSources[i].processor])
        ELSE ~HasCustomDs(m)

\* The rules about package.json are skipped when there is none; version 0.0.1 needs one.
PackagePasses(m, package) ==
    IF package = Undefined THEN m.specVersion # "0.0.1"
    ELSE RequireBuildScript(package) /\ RequireCodegenScript(package) /\ RequireCliDep(package)

ValidatorPasses(reader, m, contents, package) ==
    /\ RequireValidManifest(m)
    /\ PackagePasses(m, ReadPackage(reader, package))
    /\ RequireValidChainTypes(m, contents)
    /\ RequireCustomDsValidation(reader, m, contents)

----------------------------------------------------------------------------
(* subql publish                                                            *)

\* What ipfs.add answers names the content.  That of a file whose content makes no
\* difference here is as good as its path.
Cid(content) == << "ipfs", content >>

\* subql build, which publish begins with: a project that does not validate is not built.
Builds(m, contents, package) ==
    ValidatorPasses("local", m, contents, package)

\* Where it puts the code, and nothing else beside it.
BuildOutput(main) == IF main = Undefined THEN "dist" ELSE main

\* A file that is not there ends the command.
FilesThere(m, contents, main) ==
    /\ \A i \in DOMAIN m.dataSources : m.dataSources[i].file = BuildOutput(main)
    /\ m.network.chaintypes # Undefined => FileThere(contents, PathOf(m.network.chaintypes))
    /\ \A i \in DOMAIN m.dataSources :
           /\ IsCustomDs(m.dataSources[i]) => FileThere(contents, m.dataSources[i].processor)
           /\ AssetsThere(m.dataSources[i], contents)

Publishable(m, contents, package) ==
    /\ Builds(m, contents, package)
    /\ m.specVersion \in {"0.2.0", "0.2.1"}
    /\ FilesThere(m, contents, package.main)

\* The deployment was copied from the manifest when that was validated: the processor
\* packProcessor puts into the manifest afterwards is not in it, but its source.
DeployedDataSource(ds, contents) ==
    [ds EXCEPT !.file = Cid(@),
               !.processor = IF @ = Undefined THEN @ ELSE Cid(contents[@]),
               !.assets = {Cid(contents[path]) : path \in @}]

\* Variant with a bug: files are replaced in the data sources only.
BugDeployedChainTypes(value, contents) == Undefined

DeployedChainTypes(value, contents) ==
    IF value = Undefined THEN value ELSE << "file", Cid(contents[PathOf(value)]) >>

\* toDeployment after replaceFileReferences; the deployment has no endpoint.
Deployed(m, contents) ==
    [m EXCEPT !.schema = << "file", Cid(PathOf(@)) >>,
              !.network.endpoint = Undefined,
              !.network.dictionary = Undefined,
              !.network.chaintypes = DeployedChainTypes(@, contents),
              !.dataSources = [i \in DOMAIN @ |-> DeployedDataSource(@[i], contents)],
              !.unknown = FALSE]

\* The content behind each reference a deployment may hold.
Ipfs(contents) == [cid \in {Cid(contents[path]) : path \in DOMAIN contents} |-> cid[2]]
=============================================================================
