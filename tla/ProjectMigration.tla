---------------------------- MODULE ProjectMigration ----------------------------
(* subql migrate: the manifest of a project directory is converted from version *)
(* 0.0.1 to 0.2.0, chain types move to a file of their own.  The command writes *)
(* files one after the other and may be killed between any two of them, or in   *)
(* the middle of one; the user may then run it again.  The user takes the       *)
(* defaults the command offers, and decides what it asks for confirmation.      *)
(* Between two runs the user may publish the project as it is (subql publish).  *)
EXTENDS ProjectManifest, JsonRpcClient

CONSTANTS
    Manifests,      \* what project.yaml may be before the first run
    TypesFiles,     \* what types.json may be, Undefined when there is none
    Packages,       \* package.json: its main, scripts and dependencies
    Plugin,         \* the data source processor in processor.js
    Abi,            \* an asset of a custom data source, in abi.json
    MaxRuns

SourceFields == {"kind", "name", "startBlock", "file", "handlers", "processor",
                 "assets", "options"}

\* A manifest in memory: the properties every version has a place for.
IsManifest(m) ==
    /\ DOMAIN m = {"specVersion", "schema", "network", "dataSources", "unknown"}
    /\ DOMAIN m.network = {"endpoint", "dictionary", "genesisHash", "blockchainType",
                           "chaintypes", "types"}
    /\ \A i \in DOMAIN m.dataSources : DOMAIN m.dataSources[i] = SourceFields

\* Only version 0.0.1 has chain types in the manifest; what a file or a manifest holds
\* is none of the values that stand for having nothing.
ASSUME ManifestsAssumption ==
    \A m \in Manifests :
        /\ IsManifest(m)
        /\ m.schema \in Seq(STRING) \cup {Undefined}
        /\ m.network.types \notin {Undefined, Torn, Rejected}
        /\ DOMAIN m.network.types \subseteq TypeFields
        /\ m.specVersion # "0.0.1" => m.network.types = NoTypes

ASSUME ValuesAssumption ==
    /\ Rejected \notin TypesFiles \cup {Plugin, Abi, NoTypes, Torn}
    /\ ChainGenesis # Undefined /\ "types.json" # Undefined /\ <<"file", "types.json">> # Undefined

Files == {"project.yaml", "project_0_0_1.yaml", "project_0_2_0.yaml"}

VARIABLES
    manifests,  \* the content of each of Files
    types,      \* the content of types.json
    package,
    step,
    manifest,   \* what this run loaded
    chainTypes, \* the path of the file of chain types, for the new manifest
    runs,
    original,   \* project.yaml and types.json before the first run
    declined,   \* the user once kept a types.json that was there
    published   \* what was last published: the deployment, the files it refers to

directory == <<manifests, types>>
vars == <<directory, package, client, step, manifest, chainTypes, runs, original, declined, published>>

Contents(file) ==
    [p \in {"types.json", "processor.js", "abi.json"} |->
        IF p = "types.json" THEN file ELSE IF p = "processor.js" THEN Plugin ELSE Abi]

Init ==
    /\ \E m \in Manifests : manifests = [f \in Files |-> IF f = "project.yaml" THEN m ELSE Undefined]
    /\ types \in TypesFiles
    /\ package \in Packages
    /\ client = NoClient
    /\ step = "none" /\ manifest = Undefined /\ chainTypes = Undefined /\ runs = 0
    /\ original = [manifest |-> manifests["project.yaml"], types |-> types]
    /\ declined = FALSE
    /\ published = Undefined

Exit == step' = "none" /\ manifest' = Undefined /\ chainTypes' = Undefined /\ Destroy

\* A project that is migrated already, or not valid, or whose manifest is not there,
\* is left alone.
Run ==
    /\ step = "none" /\ runs < MaxRuns
    /\ runs' = runs + 1
    /\ IF Valid(manifests["project.yaml"]) /\ manifests["project.yaml"].specVersion # "0.2.0"
       THEN step' = "genesis" /\ manifest' = manifests["project.yaml"]
       ELSE UNCHANGED <<step, manifest>>
    /\ UNCHANGED <<directory, package, client, chainTypes, original, declined, published>>

\* prepare asks the endpoint for its genesis hash ...
GetGenesisHash ==
    /\ step = "genesis" /\ manifest.network.endpoint # Undefined
    /\ Send \/ Connection
    /\ UNCHANGED <<directory, package, step, manifest, chainTypes, runs, original, declined, published>>

\* ... whose answer the user confirms ...
GenesisHashAnswered ==
    /\ step = "genesis" /\ client.request = "answered"
    /\ Destroy
    /\ IF manifest.network.types = NoTypes
       THEN step' = "entry" /\ UNCHANGED chainTypes
       ELSE step' = "types" /\ chainTypes' = "types.json"
    /\ UNCHANGED <<directory, package, manifest, runs, original, declined, published>>

\* ... and fails when there is none, or no answer.
GetGenesisHashFails ==
    /\ step = "genesis"
    /\ manifest.network.endpoint = Undefined \/ client.request = "rejected"
    /\ Exit
    /\ UNCHANGED <<directory, package, runs, original, declined, published>>

\* Variant with a bug: the types of the chain are left out.
BugCreatedChainTypes(t) == [f \in DOMAIN t \ {"typesChain"} |-> t[f]]

\* createChainTypes writes typesSpec where typesChain belongs.
CreatedChainTypes(t) ==
    IF "typesSpec" \in DOMAIN t
    THEN [f \in (DOMAIN t \ {"typesSpec"}) \cup {"typesChain"} |->
             IF f = "typesChain" THEN t["typesSpec"] ELSE t[f]]
    ELSE t

ASSUME CreatedTypesAssumption ==
    \A m \in Manifests : CreatedChainTypes(m.network.types) # Rejected

CreateChainTypes ==
    /\ step = "types"
    /\ types' = CreatedChainTypes(manifest.network.types)
    /\ step' = "entry"
    /\ UNCHANGED <<manifests, package, client, manifest, chainTypes, runs, original, declined, published>>

\* A file that is there is not overridden unless the user confirms.
KeepChainTypes ==
    /\ step = "types" /\ types # Undefined
    /\ declined' = TRUE
    /\ step' = "entry"
    /\ UNCHANGED <<directory, package, client, manifest, chainTypes, runs, original, published>>

\* The default of the entry of each data source is that of package.json, which the
\* command takes for granted.
PatchDataSources ==
    /\ step = "entry"
    /\ package.main # Undefined \/ manifest.dataSources = << >>
    /\ manifest' = [manifest EXCEPT !.dataSources =
                       [i \in DOMAIN @ |-> [@[i] EXCEPT !.file = package.main, !.name = Undefined]]]
    /\ step' = "write"
    /\ UNCHANGED <<directory, package, client, chainTypes, runs, original, declined, published>>

PatchFails ==
    /\ step = "entry" /\ package.main = Undefined /\ manifest.dataSources # << >> /\ Exit
    /\ UNCHANGED <<directory, package, runs, original, declined, published>>

\* The new manifest, of what the loaded one has in the places of version 0.0.1.
NewManifest ==
    [specVersion |-> "0.2.0",
     schema |-> <<"file">> \o manifest.schema,
     network |-> [endpoint |-> manifest.network.endpoint,
                  dictionary |-> manifest.network.dictionary,
                  genesisHash |-> ChainGenesis,
                  blockchainType |-> Undefined,
                  chaintypes |-> IF chainTypes = Undefined THEN Undefined ELSE <<"file", chainTypes>>,
                  types |-> NoTypes],
     dataSources |-> manifest.dataSources,
     unknown |-> FALSE]

WriteManifest ==
    /\ step = "write"
    /\ manifests' = [manifests EXCEPT !["project_0_2_0.yaml"] = NewManifest]
    /\ step' = "validate"
    /\ UNCHANGED <<types, package, client, manifest, chainTypes, runs, original, declined, published>>

AfterValidation == IF Valid(manifests["project_0_2_0.yaml"]) THEN "backup" ELSE "invalid"

Validate ==
    /\ step = "validate"
    /\ step' = AfterValidation
    /\ UNCHANGED <<directory, package, client, manifest, chainTypes, runs, original, declined, published>>

\* The user keeps the file that is not valid for inspection, or has it removed.
Discard ==
    /\ step = "invalid"
    /\ \/ UNCHANGED manifests
       \/ manifests' = [manifests EXCEPT !["project_0_2_0.yaml"] = Undefined]
    /\ Exit
    /\ UNCHANGED <<types, package, runs, original, declined, published>>

Rename(from, to) == [manifests EXCEPT ![to] = manifests[from], ![from] = Undefined]

\* Variant with a bug: the new manifest is put in its place first.
BugConverted(s) == IF s = "backup" THEN Rename("project_0_2_0.yaml", "project.yaml")
                   ELSE Rename("project.yaml", "project_0_0_1.yaml")

Converted(s) == IF s = "backup" THEN Rename("project.yaml", "project_0_0_1.yaml")
                ELSE Rename("project_0_2_0.yaml", "project.yaml")

Conversion ==
    /\ step \in {"backup", "replace"}
    /\ manifests' = Converted(step)
    /\ IF step = "backup" THEN step' = "replace" /\ UNCHANGED <<client, manifest, chainTypes>>
       ELSE Exit
    /\ UNCHANGED <<types, package, runs, original, declined, published>>

\* Killed: a file that is being written is cut off.
Crash ==
    /\ step # "none"
    /\ \/ UNCHANGED directory
       \/ step = "types" /\ types' = Torn /\ UNCHANGED manifests
       \/ step = "write" /\ manifests' = [manifests EXCEPT !["project_0_2_0.yaml"] = Torn]
          /\ UNCHANGED types
    /\ Exit
    /\ UNCHANGED <<package, runs, original, declined, published>>

Publish ==
    /\ step = "none"
    /\ Publishable(manifests["project.yaml"], Contents(types), package)
    /\ published' =
           [deployment |-> Deployed(manifests["project.yaml"], Contents(types)),
            files |-> Ipfs(Contents(types))]
    /\ UNCHANGED <<directory, package, client, step, manifest, chainTypes, runs, original, declined>>

Next ==
    \/ Run \/ GetGenesisHash \/ GenesisHashAnswered \/ GetGenesisHashFails \/ CreateChainTypes \/ KeepChainTypes
    \/ PatchDataSources \/ PatchFails \/ WriteManifest \/ Validate \/ Discard
    \/ Conversion \/ Crash \/ Publish

Spec == Init /\ [][Next]_vars

----------------------------------------------------------------------------
(* Properties                                                               *)

TypeOK ==
    /\ DOMAIN manifests = Files
    /\ step \in {"none", "genesis", "types", "entry", "write", "validate", "invalid",
                 "backup", "replace"}
    /\ client \in [socket : {"none", "connecting", "open", "closed"},
                   request : {"none", "unsent", "sent", "lost", "answered", "rejected"}]
    /\ step # "genesis" => client = NoClient
    /\ step = "none" <=> manifest = Undefined
    /\ step \in {"backup", "replace"} => Valid(manifests["project_0_2_0.yaml"])
    /\ chainTypes \in {Undefined, "types.json"}
    /\ runs \in 0 .. MaxRuns /\ declined \in BOOLEAN

\* What a node made of the project before the first run, and makes of it now.
ViewBefore == NodeView(original.manifest, Contents(original.types), package.main)
ViewNow == NodeView(manifests["project.yaml"], Contents(types), package.main)

\* The user's manifest is in the directory at every moment, whole, under its own name
\* or that of the backup, however often the command is run and killed.
OriginalKept ==
    original.manifest \in {manifests["project.yaml"], manifests["project_0_0_1.yaml"]}

\* "Migrate Subquery project manifest v0.0.1 to v0.2.0" (migrate.ts:10): the node indexes
\* the same before, during and after.
SameProject ==
    original.manifest # Undefined /\ manifests["project.yaml"] # Undefined => ViewNow = ViewBefore

\* ... which holds when the user does not keep a file of other types, and the chain types
\* have no typesSpec.
MigrationKeepsProject ==
    declined \/ "typesSpec" \in DOMAIN original.manifest.network.types \/ SameProject

\* An endpoint comes from the flags of the node when the manifest has none.
WithEndpoint(m) == [m EXCEPT !.network.endpoint = ChainGenesis, !.network.dictionary = Undefined]

\* What subql validate passes of the directory, or of a repository that is cloned, the
\* node that is started on it accepts, at any moment of a migration, if it is given an
\* endpoint of the chain.  Of custom data sources it validates version 0.2.0 only, and
\* none of what is left to the plugin: its options and the assets.
LeftToThePlugin(m) ==
    \E i \in DOMAIN m.dataSources :
        /\ IsCustomDs(m.dataSources[i])
        /\ m.specVersion = "0.2.1" \/ ~PluginSatisfied(m.dataSources[i], Contents(types))

ValidatedProjectStarts ==
    LET m == manifests["project.yaml"]
    IN  /\ m # Undefined
        /\ \E reader \in Readers \ {"ipfs"} : ValidatorPasses(reader, m, Contents(types), package)
        /\ GenesisMatches(m)
        /\ ~LeftToThePlugin(m)
        => NodeAccepts(WithEndpoint(m), Contents(types))

\* The chain types a deployment refers to.
PublishedTypes ==
    IF published.deployment.network.chaintypes = Undefined THEN NoTypes
    ELSE published.files[PathOf(published.deployment.network.chaintypes)]

\* What is on IPFS is the project the user wrote before the first migration: the same
\* schema, data sources and, with the exceptions of MigrationKeepsProject, chain types,
\* for the chain of its endpoint, whatever runs of the command were killed before it was
\* published and since.  subql validate finds all of it there and passes it; in version
\* 0.2.0 it cannot load the processor of a custom data source from there.
PublishedIsProject ==
    published # Undefined =>
        LET d == published.deployment
            m == original.manifest
        IN  /\ \/ d.specVersion = "0.2.0" /\ HasCustomDs(d)
               \/ ValidatorPasses("ipfs", d, published.files, package)
            /\ d.network.genesisHash =
                   IF m.network.genesisHash = Undefined THEN ChainGenesis ELSE m.network.genesisHash
            /\ \/ declined \/ "typesSpec" \in DOMAIN m.network.types
               \/ PublishedTypes = ChainTypes(m, Contents(original.types))
            /\ d.schema = << "file", Cid(PathOf(m.schema)) >>
            /\ DOMAIN d.dataSources = DOMAIN m.dataSources
            /\ \A i \in DOMAIN m.dataSources :
                   /\ d.dataSources[i].kind = m.dataSources[i].kind
                   /\ d.dataSources[i].startBlock = m.dataSources[i].startBlock
                   /\ d.dataSources[i].handlers = m.dataSources[i].handlers
=============================================================================
