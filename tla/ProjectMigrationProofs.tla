------------------------- MODULE ProjectMigrationProofs -------------------------
(* What holds of every project that is migrated, killed, migrated again and       *)
(* published in between.  The proof follows project.yaml through the conversion:  *)
(* it is the manifest of the user, or it is gone and the backup is there, or it   *)
(* is what the conversion made of the manifest in the backup, and no later run    *)
(* touches it then.                                                               *)
EXTENDS ProjectMigration, TLAPS

Steps == {"none", "genesis", "types", "entry", "write", "validate", "invalid",
          "backup", "replace"}

----------------------------------------------------------------------------
(* What a manifest becomes                                                  *)

Patched(sources, main) ==
    [i \in DOMAIN sources |-> [sources[i] EXCEPT !.file = main, !.name = Undefined]]

Migrated(m, main, path) ==
    [specVersion |-> "0.2.0",
     schema |-> <<"file">> \o m.schema,
     network |-> [endpoint |-> m.network.endpoint,
                  dictionary |-> m.network.dictionary,
                  genesisHash |-> ChainGenesis,
                  blockchainType |-> Undefined,
                  chaintypes |-> IF path = Undefined THEN Undefined ELSE <<"file", path>>,
                  types |-> NoTypes],
     dataSources |-> Patched(m.dataSources, main),
     unknown |-> FALSE]

\* The entry of every data source is known.
EntriesKnown(m, main) == main # Undefined \/ m.dataSources = << >>

\* The file of chain types holds what was in the manifest, if there is one.
ChainTypesMoved(m, path, file, kept) ==
    \/ path = Undefined /\ m.network.types = NoTypes
    \/ path = "types.json" /\ (kept \/ file = CreatedChainTypes(m.network.types))

IsMigrated(new, m, main, file, kept) ==
    /\ Valid(m) /\ Valid(new)
    /\ EntriesKnown(m, main)
    /\ \E path \in {Undefined, "types.json"} :
           ChainTypesMoved(m, path, file, kept) /\ new = Migrated(m, main, path)

----------------------------------------------------------------------------
(* The inductive invariant                                                  *)

\* Where the manifest of the user is.
Before == step # "replace" /\ manifests["project.yaml"] = original.manifest

Between ==
    /\ step \in {"none", "replace"}
    /\ manifests["project.yaml"] = Undefined
    /\ manifests["project_0_0_1.yaml"] = original.manifest

After ==
    /\ step = "none"
    /\ manifests["project_0_0_1.yaml"] = original.manifest
    /\ IsMigrated(manifests["project.yaml"], original.manifest, package.main, types, declined)

OriginInv ==
    /\ original.manifest \in Manifests
    /\ original.types \in TypesFiles
    /\ DOMAIN manifests = Files
    /\ Before \/ Between \/ After

\* What a run knows at each of its steps.
StepInv ==
    /\ step \in Steps
    /\ step # "none" => Valid(original.manifest) /\ original.manifest.specVersion # "0.2.0"
    /\ step \in {"none", "genesis"} => chainTypes = Undefined
    /\ step \in {"genesis", "types", "entry"} => manifest = original.manifest
    /\ step = "types" =>
           chainTypes = "types.json" /\ original.manifest.network.types # NoTypes
    /\ step \in {"entry", "write", "validate", "invalid", "backup", "replace"} =>
           ChainTypesMoved(original.manifest, chainTypes, types, declined)
    /\ step = "write" =>
           manifest = [original.manifest EXCEPT !.dataSources = Patched(@, package.main)]
    /\ step \in {"write", "validate", "invalid", "backup", "replace"} =>
           EntriesKnown(original.manifest, package.main)
    /\ step \in {"validate", "invalid", "backup", "replace"} =>
           manifests["project_0_2_0.yaml"] = Migrated(original.manifest, package.main, chainTypes)
    /\ step \in {"backup", "replace"} => Valid(manifests["project_0_2_0.yaml"])

KnownTypes ==
    TypesFiles \cup {Torn} \cup {CreatedChainTypes(m.network.types) : m \in Manifests}

\* types.json is touched for a manifest that has types only.
TypesInv ==
    /\ types \in KnownTypes
    /\ types = original.types \/ (Valid(original.manifest) /\ original.manifest.specVersion = "0.0.1")

\* What is known of any manifest and of any contents the node reads.
WellFormed(m) == IsManifest(m) /\ m.network.types # Rejected

NoneRejected(contents) == \A path \in DOMAIN contents : contents[path] # Rejected

MigrationInv == OriginInv /\ StepInv /\ TypesInv

----------------------------------------------------------------------------
(* Manifests that are made of other ones                                    *)

\* What the conversion writes has the form of a manifest.
LEMMA MigratedForm ==
    ASSUME NEW m, NEW main, NEW path, IsManifest(m)
    PROVE  /\ WellFormed(Migrated(m, main, path))
           /\ Migrated(m, main, path).specVersion = "0.2.0"
<1>1. /\ DOMAIN Migrated(m, main, path) =
             {"specVersion", "schema", "network", "dataSources", "unknown"}
      /\ DOMAIN Migrated(m, main, path).network =
             {"endpoint", "dictionary", "genesisHash", "blockchainType", "chaintypes", "types"}
      /\ Migrated(m, main, path).network.types = NoTypes
      /\ Migrated(m, main, path).specVersion = "0.2.0"
      /\ Migrated(m, main, path).dataSources = Patched(m.dataSources, main)
  BY DEF Migrated
<1>2. /\ DOMAIN Patched(m.dataSources, main) = DOMAIN m.dataSources
      /\ \A i \in DOMAIN m.dataSources :
             DOMAIN Patched(m.dataSources, main)[i] = DOMAIN m.dataSources[i]
  BY DEF Patched
<1>3. IsManifest(Migrated(m, main, path))
  BY <1>1, <1>2 DEF IsManifest
<1>4. QED
  BY <1>1, <1>3, ValuesAssumption DEF WellFormed

\* The manifest of the user has the form of one.
LEMMA OriginalForm ==
    ASSUME NEW m \in Manifests
    PROVE  WellFormed(m) /\ m.network.types \notin {Undefined, Torn, Rejected}
  BY ManifestsAssumption DEF WellFormed

\* What is not there or cut off is not valid.
LEMMA ValidIsThere ==
    ASSUME NEW m, Valid(m)
    PROVE  m # Undefined /\ m # Torn
  BY DEF Valid

----------------------------------------------------------------------------
(* The user's manifest                                                      *)

LEMMA MigrationInit == Init => MigrationInv
<1> SUFFICES ASSUME Init PROVE MigrationInv
  OBVIOUS
<1>1. /\ manifests["project.yaml"] \in Manifests
      /\ original.manifest = manifests["project.yaml"]
      /\ original.types = types
      /\ DOMAIN manifests = Files
  BY DEF Init, Files
<1>2. OriginInv
  BY <1>1 DEF Init, OriginInv, Before
<1>3. StepInv
  BY DEF Init, StepInv, Steps
<1>4. TypesInv
  BY <1>1 DEF Init, TypesInv, KnownTypes
<1>5. QED
  BY <1>2, <1>3, <1>4 DEF MigrationInv

\* A run that begins loads the manifest of the user.
LEMMA RunLoadsOriginal ==
    ASSUME OriginInv, step = "none",
           Valid(manifests["project.yaml"]), manifests["project.yaml"].specVersion # "0.2.0"
    PROVE  manifests["project.yaml"] = original.manifest
<1>1. CASE Between
  BY <1>1, ValidIsThere DEF Between
<1>2. CASE After
  <2>1. PICK path \in {Undefined, "types.json"} :
            manifests["project.yaml"] = Migrated(original.manifest, package.main, path)
    BY <1>2 DEF After, IsMigrated
  <2>2. manifests["project.yaml"].specVersion = "0.2.0"
    BY <2>1 DEF Migrated
  <2>3. QED
    BY <2>2
<1>3. QED
  BY <1>1, <1>2 DEF OriginInv, Before

\* While a run is at work the manifest of the user is in its place.
LEMMA WorkingOnOriginal ==
    ASSUME OriginInv, step \notin {"none", "replace"}
    PROVE  Before
  BY DEF OriginInv, Between, After

LEMMA OriginStep == MigrationInv /\ [Next]_vars => OriginInv'
<1> SUFFICES ASSUME MigrationInv, [Next]_vars PROVE OriginInv'
  OBVIOUS
<1>0. OriginInv /\ StepInv
  BY DEF MigrationInv
<1>1. ASSUME UNCHANGED <<manifests, types, package, step, original, declined>>
      PROVE  OriginInv'
  <2>1. Before => Before'
    BY <1>1 DEF Before
  <2>2. Between => Between'
    BY <1>1 DEF Between
  <2>3. After => After'
    BY <1>1 DEF After
  <2>4. QED
    BY <1>0, <1>1, <2>1, <2>2, <2>3 DEF OriginInv
<1>2. ASSUME step \notin {"none", "replace"}, step' # "replace", UNCHANGED original,
             DOMAIN manifests' = DOMAIN manifests,
             manifests'["project.yaml"] = manifests["project.yaml"]
      PROVE  OriginInv'
  BY <1>0, <1>2, WorkingOnOriginal DEF OriginInv, Before
<1>3. CASE Run
  <2>1. CASE step' = step
    BY <1>1, <1>3, <2>1 DEF Run, directory
  <2>2. CASE step' # step
    <3>1. /\ step = "none" /\ step' = "genesis" /\ UNCHANGED <<manifests, original>>
          /\ Valid(manifests["project.yaml"])
          /\ manifests["project.yaml"].specVersion # "0.2.0"
      BY <1>3, <2>2 DEF Run, directory
    <3>2. manifests["project.yaml"] = original.manifest
      BY <1>0, <3>1, RunLoadsOriginal
    <3>3. QED
      BY <1>0, <3>1, <3>2 DEF OriginInv, Before
  <2>3. QED
    BY <2>1, <2>2
<1>4. CASE GetGenesisHash \/ GenesisHashAnswered \/ GetGenesisHashFails \/ CreateChainTypes
           \/ KeepChainTypes \/ PatchDataSources \/ PatchFails \/ Validate
  <2>1. /\ step \notin {"none", "replace"} /\ step' # "replace"
        /\ UNCHANGED <<manifests, original>>
    BY <1>4 DEF GetGenesisHash, GenesisHashAnswered, GetGenesisHashFails, CreateChainTypes,
         KeepChainTypes, PatchDataSources, PatchFails, Validate, AfterValidation, Exit, directory
  <2>2. QED
    BY <1>2, <2>1
<1>5. CASE WriteManifest \/ Discard
  <2>1. /\ step \notin {"none", "replace"} /\ step' # "replace" /\ UNCHANGED original
        /\ \/ manifests' = manifests
           \/ manifests' = [manifests EXCEPT !["project_0_2_0.yaml"] = NewManifest]
           \/ manifests' = [manifests EXCEPT !["project_0_2_0.yaml"] = Undefined]
    BY <1>5 DEF WriteManifest, Discard, Exit
  <2>2. QED
    BY <1>0, <1>2, <2>1 DEF OriginInv, Files
<1>6. CASE Conversion
  <2>1. CASE step = "backup"
    <3>1. /\ step' = "replace" /\ UNCHANGED original
          /\ manifests' = [manifests EXCEPT !["project_0_0_1.yaml"] = manifests["project.yaml"],
                                            !["project.yaml"] = Undefined]
      BY <1>6, <2>1 DEF Conversion, Converted, Rename
    <3>2. manifests["project.yaml"] = original.manifest
      BY <1>0, <2>1, WorkingOnOriginal DEF Before
    <3>3. Between'
      BY <1>0, <3>1, <3>2 DEF Between, OriginInv, Files
    <3>4. QED
      BY <1>0, <3>1, <3>3 DEF OriginInv
  <2>2. CASE step = "replace"
    <3>1. /\ step' = "none" /\ UNCHANGED <<original, package, types, declined>>
          /\ manifests' = [manifests EXCEPT !["project.yaml"] = manifests["project_0_2_0.yaml"],
                                            !["project_0_2_0.yaml"] = Undefined]
      BY <1>6, <2>2 DEF Conversion, Converted, Rename, Exit
    <3>2. manifests["project_0_0_1.yaml"] = original.manifest
      BY <1>0, <2>2 DEF OriginInv, Before, Between, After
    <3>3. /\ manifests'["project.yaml"] = manifests["project_0_2_0.yaml"]
          /\ manifests'["project_0_0_1.yaml"] = original.manifest
          /\ DOMAIN manifests' = Files
      BY <1>0, <3>1, <3>2 DEF OriginInv, Files
    <3>4. /\ ChainTypesMoved(original.manifest, chainTypes, types, declined)
          /\ manifests["project_0_2_0.yaml"] = Migrated(original.manifest, package.main, chainTypes)
          /\ EntriesKnown(original.manifest, package.main)
          /\ Valid(original.manifest) /\ Valid(manifests["project_0_2_0.yaml"])
      BY <1>0, <2>2 DEF StepInv
    <3>5. IsMigrated(manifests["project_0_2_0.yaml"], original.manifest, package.main, types, declined)
      BY <3>4 DEF IsMigrated, ChainTypesMoved
    <3>6. After'
      BY <3>1, <3>3, <3>5 DEF After
    <3>7. QED
      BY <1>0, <3>1, <3>3, <3>6 DEF OriginInv
  <2>3. QED
    BY <1>6, <2>1, <2>2 DEF Conversion
<1>7. CASE Crash
  <2>1. /\ step # "none" /\ step' = "none" /\ UNCHANGED original
        /\ \/ UNCHANGED manifests
           \/ /\ step = "write"
              /\ manifests' = [manifests EXCEPT !["project_0_2_0.yaml"] = Torn]
    BY <1>7 DEF Crash, Exit, directory
  <2>2. CASE step = "replace"
    <3>1. Between
      BY <1>0, <2>2 DEF OriginInv, Before, After
    <3>2. Between' /\ UNCHANGED manifests
      BY <2>1, <2>2, <3>1 DEF Between
    <3>3. QED
      BY <1>0, <2>1, <3>2 DEF OriginInv
  <2>3. CASE step # "replace"
    BY <1>0, <1>2, <2>1, <2>3 DEF OriginInv, Files
  <2>4. QED
    BY <2>2, <2>3
<1>8. CASE Publish \/ UNCHANGED vars
  BY <1>1, <1>8 DEF Publish, vars, directory
<1>9. QED
  BY <1>3, <1>4, <1>5, <1>6, <1>7, <1>8 DEF Next

\* What a run knows stays true while it does not move.
LEMMA StepStep == MigrationInv /\ [Next]_vars => StepInv'
<1> SUFFICES ASSUME MigrationInv, [Next]_vars PROVE StepInv'
  OBVIOUS
<1>0. OriginInv /\ StepInv
  BY DEF MigrationInv
<1>1. ASSUME Exit PROVE StepInv'
  BY <1>1 DEF StepInv, Exit, Steps
<1>2. ASSUME UNCHANGED <<manifests, types, package, step, manifest, chainTypes, original, declined>>
      PROVE  StepInv'
  BY <1>0, <1>2 DEF StepInv
<1>3. CASE Run
  <2>1. CASE step' = "genesis"
    <3>1. /\ step = "none" /\ manifest' = manifests["project.yaml"]
          /\ UNCHANGED <<chainTypes, original>>
          /\ Valid(manifests["project.yaml"])
          /\ manifests["project.yaml"].specVersion # "0.2.0"
      BY <1>3, <2>1 DEF Run
    <3>2. manifests["project.yaml"] = original.manifest
      BY <1>0, <3>1, RunLoadsOriginal
    <3>3. chainTypes' = Undefined
      BY <1>0, <3>1 DEF StepInv
    <3>4. QED
      BY <2>1, <3>1, <3>2, <3>3 DEF StepInv, Steps
  <2>2. CASE step' # "genesis"
    BY <1>2, <1>3, <2>2 DEF Run, directory
  <2>3. QED
    BY <2>1, <2>2
<1>4. CASE GetGenesisHash \/ Publish \/ UNCHANGED vars
  BY <1>2, <1>4 DEF GetGenesisHash, Publish, vars, directory
<1>5. CASE GetGenesisHashFails \/ PatchFails \/ Discard \/ Crash
  BY <1>1, <1>5 DEF GetGenesisHashFails, PatchFails, Discard, Crash
<1>6. CASE GenesisHashAnswered
  <2>1. /\ step = "genesis" /\ UNCHANGED <<manifests, types, package, manifest, original, declined>>
        /\ IF manifest.network.types = NoTypes
           THEN step' = "entry" /\ chainTypes' = chainTypes
           ELSE step' = "types" /\ chainTypes' = "types.json"
    BY <1>6 DEF GenesisHashAnswered, directory
  <2>2. /\ chainTypes = Undefined /\ manifest = original.manifest
        /\ Valid(original.manifest) /\ original.manifest.specVersion # "0.2.0"
    BY <1>0, <2>1 DEF StepInv
  <2>3. QED
    BY <2>1, <2>2 DEF StepInv, Steps, ChainTypesMoved
<1>7. CASE CreateChainTypes
  <2>1. /\ step = "types" /\ step' = "entry"
        /\ types' = CreatedChainTypes(manifest.network.types)
        /\ UNCHANGED <<manifests, package, manifest, chainTypes, original, declined>>
    BY <1>7 DEF CreateChainTypes
  <2>2. /\ chainTypes = "types.json" /\ manifest = original.manifest
        /\ Valid(original.manifest) /\ original.manifest.specVersion # "0.2.0"
    BY <1>0, <2>1 DEF StepInv
  <2>3. ChainTypesMoved(original.manifest, chainTypes, types', declined)
    BY <2>1, <2>2 DEF ChainTypesMoved
  <2>4. QED
    BY <2>1, <2>2, <2>3 DEF StepInv, Steps
<1>8. CASE KeepChainTypes
  <2>1. /\ step = "types" /\ step' = "entry" /\ declined' = TRUE
        /\ UNCHANGED <<manifests, types, package, manifest, chainTypes, original>>
    BY <1>8 DEF KeepChainTypes, directory
  <2>2. /\ chainTypes = "types.json" /\ manifest = original.manifest
        /\ Valid(original.manifest) /\ original.manifest.specVersion # "0.2.0"
    BY <1>0, <2>1 DEF StepInv
  <2>3. ChainTypesMoved(original.manifest, chainTypes, types, TRUE)
    BY <2>2 DEF ChainTypesMoved
  <2>4. QED
    BY <2>1, <2>2, <2>3 DEF StepInv, Steps
<1>9. CASE PatchDataSources
  <2>1. /\ step = "entry" /\ step' = "write"
        /\ package.main # Undefined \/ manifest.dataSources = << >>
        /\ manifest' = [manifest EXCEPT !.dataSources = Patched(@, package.main)]
        /\ UNCHANGED <<manifests, types, package, chainTypes, original, declined>>
    BY <1>9 DEF PatchDataSources, Patched, directory
  <2>2. /\ manifest = original.manifest
        /\ ChainTypesMoved(original.manifest, chainTypes, types, declined)
        /\ Valid(original.manifest) /\ original.manifest.specVersion # "0.2.0"
    BY <1>0, <2>1 DEF StepInv
  <2>3. EntriesKnown(original.manifest, package.main)
    BY <2>1, <2>2 DEF EntriesKnown
  <2>4. QED
    BY <2>1, <2>2, <2>3 DEF StepInv, Steps
<1>10. CASE WriteManifest
  <2>1. /\ step = "write" /\ step' = "validate"
        /\ manifests' = [manifests EXCEPT !["project_0_2_0.yaml"] = NewManifest]
        /\ UNCHANGED <<types, package, manifest, chainTypes, original, declined>>
    BY <1>10 DEF WriteManifest
  <2>2. /\ manifest = [original.manifest EXCEPT !.dataSources = Patched(@, package.main)]
        /\ ChainTypesMoved(original.manifest, chainTypes, types, declined)
        /\ Valid(original.manifest) /\ original.manifest.specVersion # "0.2.0"
        /\ EntriesKnown(original.manifest, package.main)
    BY <1>0, <2>1 DEF StepInv
  <2>3. IsManifest(original.manifest)
    BY <1>0, ManifestsAssumption DEF OriginInv
  <2>4. /\ manifest.schema = original.manifest.schema
        /\ manifest.network = original.manifest.network
        /\ manifest.dataSources = Patched(original.manifest.dataSources, package.main)
    BY <2>2, <2>3 DEF IsManifest
  <2>5. NewManifest = Migrated(original.manifest, package.main, chainTypes)
    BY <2>4 DEF NewManifest, Migrated
  <2>6. manifests'["project_0_2_0.yaml"] = Migrated(original.manifest, package.main, chainTypes)
    BY <1>0, <2>1, <2>5 DEF OriginInv, Files
  <2>7. QED
    BY <2>1, <2>2, <2>6 DEF StepInv, Steps
<1>11. CASE Validate
  <2>1. /\ step = "validate" /\ step' = AfterValidation
        /\ UNCHANGED <<manifests, types, package, manifest, chainTypes, original, declined>>
    BY <1>11 DEF Validate, directory
  <2>2. /\ step' \in {"backup", "invalid"}
        /\ step' = "backup" => Valid(manifests["project_0_2_0.yaml"])
    BY <2>1 DEF AfterValidation
  <2>3. /\ ChainTypesMoved(original.manifest, chainTypes, types, declined)
        /\ Valid(original.manifest) /\ original.manifest.specVersion # "0.2.0"
        /\ EntriesKnown(original.manifest, package.main)
        /\ manifests["project_0_2_0.yaml"] = Migrated(original.manifest, package.main, chainTypes)
    BY <1>0, <2>1 DEF StepInv
  <2>4. QED
    BY <2>1, <2>2, <2>3 DEF StepInv, Steps
<1>12. CASE Conversion
  <2>1. CASE step = "backup"
    <3>1. /\ step' = "replace"
          /\ UNCHANGED <<types, package, chainTypes, original, declined>>
          /\ manifests' = [manifests EXCEPT !["project_0_0_1.yaml"] = manifests["project.yaml"],
                                            !["project.yaml"] = Undefined]
      BY <1>12, <2>1 DEF Conversion, Converted, Rename
    <3>2. manifests'["project_0_2_0.yaml"] = manifests["project_0_2_0.yaml"]
      BY <1>0, <3>1 DEF OriginInv, Files
    <3>3. /\ ChainTypesMoved(original.manifest, chainTypes, types, declined)
          /\ Valid(original.manifest) /\ original.manifest.specVersion # "0.2.0"
          /\ EntriesKnown(original.manifest, package.main)
          /\ manifests["project_0_2_0.yaml"] = Migrated(original.manifest, package.main, chainTypes)
          /\ Valid(manifests["project_0_2_0.yaml"])
      BY <1>0, <2>1 DEF StepInv
    <3>4. QED
      BY <3>1, <3>2, <3>3 DEF StepInv, Steps
  <2>2. CASE step = "replace"
    BY <1>1, <1>12, <2>2 DEF Conversion
  <2>3. QED
    BY <1>12, <2>1, <2>2 DEF Conversion
<1>13. QED
  BY <1>3, <1>4, <1>5, <1>6, <1>7, <1>8, <1>9, <1>10, <1>11, <1>12 DEF Next

LEMMA TypesStep == MigrationInv /\ [Next]_vars => TypesInv'
<1> SUFFICES ASSUME MigrationInv, [Next]_vars PROVE TypesInv'
  OBVIOUS
<1>0. OriginInv /\ StepInv /\ TypesInv
  BY DEF MigrationInv
<1>1. CASE UNCHANGED <<types, original>>
  BY <1>0, <1>1 DEF TypesInv
<1>2. CASE types' # types \/ original' # original
  <2>1. /\ step = "types" /\ UNCHANGED original
        /\ types' = Torn \/ types' = CreatedChainTypes(manifest.network.types)
    BY <1>2 DEF Next, Run, GetGenesisHash, GenesisHashAnswered, GetGenesisHashFails,
         CreateChainTypes, KeepChainTypes, PatchDataSources, PatchFails, WriteManifest,
         Validate, Discard, Conversion, Crash, Publish, vars, directory
  <2>2. /\ manifest = original.manifest /\ original.manifest.network.types # NoTypes
        /\ original.manifest \in Manifests /\ Valid(original.manifest)
    BY <1>0, <2>1 DEF StepInv, OriginInv
  <2>3. original.manifest.specVersion = "0.0.1"
    BY <2>2, ManifestsAssumption
  <2>4. types' \in KnownTypes
    BY <2>1, <2>2 DEF KnownTypes
  <2>5. QED
    BY <2>1, <2>2, <2>3, <2>4 DEF TypesInv
<1>3. QED
  BY <1>1, <1>2

----------------------------------------------------------------------------
(* What is in the directory                                                 *)

\* project.yaml, if it is there, has the form of a manifest.
LEMMA ManifestWellFormed ==
    ASSUME OriginInv, manifests["project.yaml"] # Undefined
    PROVE  WellFormed(manifests["project.yaml"])
<1>1. WellFormed(original.manifest)
  BY OriginalForm DEF OriginInv
<1>2. CASE After
  <2>1. PICK path \in {Undefined, "types.json"} :
            manifests["project.yaml"] = Migrated(original.manifest, package.main, path)
    BY <1>2 DEF After, IsMigrated
  <2>2. QED
    BY <1>1, <2>1, MigratedForm DEF WellFormed
<1>3. QED
  BY <1>1, <1>2 DEF OriginInv, Before, Between

\* No file of the directory holds the value that stands for being rejected.
LEMMA ContentsNotRejected ==
    ASSUME TypesInv
    PROVE  NoneRejected(Contents(types))
<1>1. types # Rejected
  BY ValuesAssumption, CreatedTypesAssumption DEF TypesInv, KnownTypes
<1>2. QED
  BY <1>1, ValuesAssumption DEF NoneRejected, Contents

\* The invariant holds in every state.
THEOREM MigrationInvariant == Spec => []MigrationInv
<1>1. MigrationInv /\ [Next]_vars => MigrationInv'
  BY OriginStep, StepStep, TypesStep DEF MigrationInv
<1>2. QED
  BY <1>1, MigrationInit, PTL DEF Spec

\* The user's manifest is in the directory at every moment, whole, under its own name
\* or that of the backup: however often the command is run, wherever it is killed.
THEOREM ManifestNeverLost == Spec => []OriginalKept
<1>1. MigrationInv => OriginalKept
  BY DEF MigrationInv, OriginInv, Before, Between, After, OriginalKept
<1>2. QED
  BY <1>1, MigrationInvariant, PTL

----------------------------------------------------------------------------
(* What the node makes of the project                                       *)

\* Version 0.0.1 needs no file, and the node accepts what is valid.
LEMMA ViewOfOldManifest ==
    ASSUME NEW m \in Manifests, Valid(m), m.specVersion = "0.0.1", NEW contents, NEW main
    PROVE  /\ NodeAccepts(m, contents)
           /\ ChainTypes(m, contents) = m.network.types
<1>1. ValidV0_0_1(m)
  BY DEF Valid
<1>2. ChainTypes(m, contents) = m.network.types
  BY DEF ChainTypes
<1>3. EndpointGiven(m) /\ GenesisMatches(m)
  BY <1>1 DEF ValidV0_0_1, EndpointGiven, GenesisMatches
<1>4. CustomDsAccepted(m, contents)
  BY <1>1 DEF ValidV0_0_1, CustomDsAccepted, IsCustomDs
<1>5. QED
  BY <1>2, <1>3, <1>4, OriginalForm DEF NodeAccepts

LEMMA OneMore ==
    ASSUME NEW S, NEW x \in S, NEW s \in Seq(S)
    PROVE  /\ Len(<<x>> \o s) = Len(s) + 1
           /\ Len(s) = 1 => (<<x>> \o s)[2] = s[1]
  OBVIOUS

LEMMA ObjectOfSchema ==
    ASSUME NEW s \in Seq(STRING)
    PROVE  /\ Len(<<"file">> \o s) = Len(s) + 1
           /\ Len(s) = 1 => (<<"file">> \o s)[2] = s[1]
  BY OneMore

\* Only a manifest of version 0.0.1 is converted into one that is valid: of later ones
\* the schema, which is an object there, becomes something else.
LEMMA OnlyOldIsMigrated ==
    ASSUME NEW m \in Manifests, NEW main, NEW path,
           Valid(m), Valid(Migrated(m, main, path))
    PROVE  m.specVersion = "0.0.1"
<1> DEFINE new == Migrated(m, main, path)
<1>1. new.specVersion = "0.2.0" /\ new.schema = <<"file">> \o m.schema
  BY DEF Migrated
<1> HIDE DEF new
<1>2. IsFile(<<"file">> \o m.schema)
  BY <1>1 DEF Valid, ValidDeployment, new
<1>3. SUFFICES ASSUME m.specVersion # "0.0.1" PROVE FALSE
  OBVIOUS
<1>4. IsFile(m.schema)
  BY <1>3 DEF Valid, ValidDeployment
<1>5. m.schema \in Seq(STRING) /\ Len(m.schema) = 2
  BY <1>4, ManifestsAssumption DEF IsFile
<1>6. Len(<<"file">> \o m.schema) = 3
  <2>1. Len(<<"file">> \o m.schema) = Len(m.schema) + 1
    BY <1>5, ObjectOfSchema, Zenon
  <2>2. QED
    BY <1>5, <2>1
<1>7. QED
  BY <1>2, <1>6 DEF IsFile

\* The conversion moves the chain types as they are, if the user lets it and there is no
\* typesSpec ...
LEMMA MigratedChainTypes ==
    ASSUME NEW m \in Manifests, NEW main, NEW file, NEW kept,
           NEW path \in {Undefined, "types.json"},
           ChainTypesMoved(m, path, file, kept), ~kept,
           "typesSpec" \notin DOMAIN m.network.types
    PROVE  ChainTypes(Migrated(m, main, path), Contents(file)) = m.network.types
<1> DEFINE new == Migrated(m, main, path)
<1>1. /\ new.specVersion = "0.2.0"
      /\ new.network.chaintypes = IF path = Undefined THEN Undefined ELSE <<"file", path>>
  BY DEF Migrated
<1> HIDE DEF new
<1>2. CASE path = Undefined
  BY <1>1, <1>2, ValuesAssumption DEF ChainTypes, ChainTypesMoved, new
<1>3. CASE path # Undefined
  <2>1. path = "types.json" /\ file = m.network.types
    BY <1>3, ~kept DEF ChainTypesMoved, CreatedChainTypes
  <2>2. new.network.chaintypes = <<"file", "types.json">>
    BY <1>1, <1>3, <2>1
  <2>3. PathOf(new.network.chaintypes) = "types.json"
    BY <2>2 DEF PathOf
  <2>4. Contents(file)["types.json"] = file
    BY DEF Contents
  <2>5. IsChainTypes(file)
    BY <2>1, ManifestsAssumption DEF IsChainTypes
  <2>6. new.network.chaintypes # Undefined
    BY <2>2, ValuesAssumption
  <2>7. ChainTypes(new, Contents(file)) = m.network.types
    BY <1>1, <2>1, <2>3, <2>4, <2>5, <2>6 DEF ChainTypes
  <2>8. QED
    BY <2>7 DEF new
<1>4. QED
  BY <1>2, <1>3

\* ... puts the schema into an object ...
LEMMA MigratedSchema ==
    ASSUME NEW m \in Manifests, NEW main, NEW path, IsText(m.schema)
    PROVE  PathOf(Migrated(m, main, path).schema) = PathOf(m.schema)
<1>1. m.schema \in Seq(STRING) /\ Len(m.schema) = 1
  BY ManifestsAssumption DEF IsText
<1>2. /\ Len(<<"file">> \o m.schema) = Len(m.schema) + 1
      /\ (<<"file">> \o m.schema)[2] = m.schema[1]
  BY <1>1, ObjectOfSchema
<1>3. Migrated(m, main, path).schema = <<"file">> \o m.schema
  BY DEF Migrated
<1>4. QED
  BY <1>1, <1>2, <1>3 DEF PathOf

\* ... and tells each data source its file.
LEMMA MigratedSources ==
    ASSUME NEW m \in Manifests, NEW main, NEW path
    PROVE  LET new == Migrated(m, main, path)
           IN  /\ DOMAIN new.dataSources = DOMAIN m.dataSources
               /\ \A i \in DOMAIN m.dataSources :
                      /\ new.dataSources[i].kind = m.dataSources[i].kind
                      /\ new.dataSources[i].startBlock = m.dataSources[i].startBlock
                      /\ new.dataSources[i].handlers = m.dataSources[i].handlers
                      /\ new.dataSources[i].file = main
<1>1. \A i \in DOMAIN m.dataSources : DOMAIN m.dataSources[i] = SourceFields
  BY ManifestsAssumption DEF IsManifest
<1> DEFINE new == Migrated(m, main, path)
<1>2. /\ DOMAIN new.dataSources = DOMAIN m.dataSources
      /\ \A i \in DOMAIN m.dataSources :
             new.dataSources[i] = [m.dataSources[i] EXCEPT !.file = main, !.name = Undefined]
  BY DEF Migrated, Patched
<1> HIDE DEF new
<1>3. /\ DOMAIN new.dataSources = DOMAIN m.dataSources
      /\ \A i \in DOMAIN m.dataSources :
             /\ new.dataSources[i].kind = m.dataSources[i].kind
             /\ new.dataSources[i].startBlock = m.dataSources[i].startBlock
             /\ new.dataSources[i].handlers = m.dataSources[i].handlers
             /\ new.dataSources[i].file = main
  BY <1>1, <1>2 DEF SourceFields
<1>4. QED
  BY <1>3 DEF new

\* What the conversion made of a project is indexed as the project was.
LEMMA MigratedView ==
    ASSUME NEW m \in Manifests, NEW new, NEW main, NEW file, NEW kept, NEW contents,
           IsMigrated(new, m, main, file, kept), ~kept,
           "typesSpec" \notin DOMAIN m.network.types
    PROVE  NodeView(new, Contents(file), main) = NodeView(m, contents, main)
<1>1. PICK path \in {Undefined, "types.json"} :
          ChainTypesMoved(m, path, file, kept) /\ new = Migrated(m, main, path)
  BY DEF IsMigrated
<1>2. Valid(m) /\ Valid(new) /\ EntriesKnown(m, main)
  BY DEF IsMigrated
<1>3. m.specVersion = "0.0.1" /\ ValidV0_0_1(m)
  BY <1>1, <1>2, OnlyOldIsMigrated DEF Valid
<1>4. /\ new.specVersion = "0.2.0"
      /\ new.schema = <<"file">> \o m.schema
      /\ new.network.endpoint = m.network.endpoint
      /\ new.network.dictionary = m.network.dictionary
      /\ new.network.genesisHash = ChainGenesis
      /\ new.network.chaintypes = IF path = Undefined THEN Undefined ELSE <<"file", path>>
      /\ new.dataSources = Patched(m.dataSources, main)
  BY <1>1 DEF Migrated
<1>5. NodeAccepts(m, contents) /\ ChainTypes(m, contents) = m.network.types
  BY <1>2, <1>3, ViewOfOldManifest
<1>6. ChainTypes(new, Contents(file)) = m.network.types
  BY <1>1, MigratedChainTypes
<1>7. /\ DOMAIN new.dataSources = DOMAIN m.dataSources
      /\ \A i \in DOMAIN m.dataSources :
             /\ new.dataSources[i].kind = m.dataSources[i].kind
             /\ new.dataSources[i].startBlock = m.dataSources[i].startBlock
             /\ new.dataSources[i].handlers = m.dataSources[i].handlers
             /\ new.dataSources[i].file = main
  BY <1>1, MigratedSources
<1>8. NodeAccepts(new, Contents(file))
  <2>1. m.network.types # Rejected
    BY ManifestsAssumption
  <2>2. EndpointGiven(new) /\ GenesisMatches(new)
    BY <1>3, <1>4 DEF EndpointGiven, GenesisMatches, ValidV0_0_1
  <2>3. CustomDsAccepted(new, Contents(file))
    BY <1>3, <1>7 DEF CustomDsAccepted, IsCustomDs, ValidV0_0_1
  <2>4. QED
    BY <1>2, <1>6, <2>1, <2>2, <2>3 DEF NodeAccepts
<1>9. PathOf(new.schema) = PathOf(m.schema)
  BY <1>1, <1>3, MigratedSchema DEF ValidV0_0_1
<1>10. \A i \in DOMAIN m.dataSources :
           /\ StartBlock(new.dataSources[i]) = StartBlock(m.dataSources[i])
           /\ DataSourceEntry(new.dataSources[i], main) = DataSourceEntry(m.dataSources[i], main)
  <2> SUFFICES ASSUME NEW i \in DOMAIN m.dataSources
               PROVE  /\ StartBlock(new.dataSources[i]) = StartBlock(m.dataSources[i])
                      /\ DataSourceEntry(new.dataSources[i], main) =
                             DataSourceEntry(m.dataSources[i], main)
    OBVIOUS
  <2>1. StartBlock(new.dataSources[i]) = StartBlock(m.dataSources[i])
    BY <1>7 DEF StartBlock
  <2>2. main # Undefined
    BY <1>2 DEF EntriesKnown
  <2>3. m.dataSources[i].file = Undefined
    BY <1>3 DEF ValidV0_0_1
  <2>4. QED
    BY <1>7, <2>1, <2>2, <2>3 DEF DataSourceEntry, ProjectEntry
<1>11. QED
  BY <1>4, <1>5, <1>6, <1>7, <1>8, <1>9, <1>10 DEF NodeView

\* The manifest of the user is indexed as before while it is in its place, whatever
\* became of the file of chain types.
LEMMA OriginalView ==
    ASSUME MigrationInv, manifests["project.yaml"] = original.manifest
    PROVE  ViewNow = ViewBefore
<1>1. CASE types = original.types
  BY <1>1 DEF ViewNow, ViewBefore
<1>2. CASE Valid(original.manifest) /\ original.manifest.specVersion = "0.0.1"
  <2>1. original.manifest \in Manifests
    BY DEF MigrationInv, OriginInv
  <2>2. \A contents : /\ NodeAccepts(original.manifest, contents)
                      /\ ChainTypes(original.manifest, contents) = original.manifest.network.types
    BY <1>2, <2>1, ViewOfOldManifest
  <2>3. QED
    BY <2>2 DEF ViewNow, ViewBefore, NodeView
<1>3. QED
  BY <1>1, <1>2 DEF MigrationInv, TypesInv

\* The node indexes the same before, between and after migrations, whatever was killed,
\* unless the user keeps a file of other types, or the chain types have a typesSpec.
THEOREM MigrationPreservesProject == Spec => []MigrationKeepsProject
<1>1. ASSUME MigrationInv PROVE MigrationKeepsProject
  <2>1. SUFFICES ASSUME ~declined, "typesSpec" \notin DOMAIN original.manifest.network.types,
                        manifests["project.yaml"] # Undefined
                 PROVE  ViewNow = ViewBefore
    BY DEF MigrationKeepsProject, SameProject
  <2>2. OriginInv
    BY <1>1 DEF MigrationInv
  <2>3. CASE Before
    BY <1>1, <2>3, OriginalView DEF Before
  <2>4. CASE After
    <3>1. IsMigrated(manifests["project.yaml"], original.manifest, package.main, types, declined)
      BY <2>4 DEF After
    <3>2. original.manifest \in Manifests
      BY <2>2 DEF OriginInv
    <3>3. NodeView(manifests["project.yaml"], Contents(types), package.main)
              = NodeView(original.manifest, Contents(original.types), package.main)
      BY <2>1, <3>1, <3>2, MigratedView
    <3>4. QED
      BY <3>3 DEF ViewNow, ViewBefore
  <2>5. QED
    BY <2>1, <2>2, <2>3, <2>4 DEF OriginInv, Between
<1>2. QED
  BY <1>1, MigrationInvariant, PTL

----------------------------------------------------------------------------
(* What is validated                                                        *)

\* Undefined and Torn stand for files that hold no manifest.  TLC has model values for
\* them, which equal nothing else, and cannot be asked about every manifest there is.
NoManifests == \A m : IsManifest(m) => m \notin {Undefined, Torn}

\* The flags of the node change the endpoint and the dictionary, and nothing else.
LEMMA EndpointOnly ==
    ASSUME NEW m, IsManifest(m)
    PROVE  /\ IsManifest(WithEndpoint(m))
           /\ WithEndpoint(m).specVersion = m.specVersion
           /\ WithEndpoint(m).schema = m.schema
           /\ WithEndpoint(m).dataSources = m.dataSources
           /\ WithEndpoint(m).unknown = m.unknown
           /\ WithEndpoint(m).network.endpoint = ChainGenesis
           /\ WithEndpoint(m).network.dictionary = Undefined
           /\ WithEndpoint(m).network.genesisHash = m.network.genesisHash
           /\ WithEndpoint(m).network.blockchainType = m.network.blockchainType
           /\ WithEndpoint(m).network.chaintypes = m.network.chaintypes
           /\ WithEndpoint(m).network.types = m.network.types
<1>1. /\ DOMAIN m = {"specVersion", "schema", "network", "dataSources", "unknown"}
      /\ DOMAIN m.network = {"endpoint", "dictionary", "genesisHash", "blockchainType",
                             "chaintypes", "types"}
  BY DEF IsManifest
<1>2. /\ DOMAIN WithEndpoint(m) = DOMAIN m
      /\ DOMAIN WithEndpoint(m).network = DOMAIN m.network
      /\ WithEndpoint(m).specVersion = m.specVersion
      /\ WithEndpoint(m).schema = m.schema
      /\ WithEndpoint(m).dataSources = m.dataSources
      /\ WithEndpoint(m).unknown = m.unknown
  BY <1>1 DEF WithEndpoint
<1>3. /\ WithEndpoint(m).network.endpoint = ChainGenesis
      /\ WithEndpoint(m).network.dictionary = Undefined
      /\ WithEndpoint(m).network.genesisHash = m.network.genesisHash
      /\ WithEndpoint(m).network.blockchainType = m.network.blockchainType
      /\ WithEndpoint(m).network.chaintypes = m.network.chaintypes
      /\ WithEndpoint(m).network.types = m.network.types
  BY <1>1 DEF WithEndpoint
<1>4. QED
  BY <1>2, <1>3 DEF IsManifest

\* With an endpoint from the flags nothing is rejected that was not before.
LEMMA AcceptedWithEndpoint ==
    ASSUME NoManifests, NEW m, NEW contents, IsManifest(m), Valid(m), GenesisMatches(m),
           CustomDsAccepted(m, contents), ChainTypes(m, contents) # Rejected
    PROVE  NodeAccepts(WithEndpoint(m), contents)
<1> DEFINE n == WithEndpoint(m)
<1>1. /\ IsManifest(n) /\ n.specVersion = m.specVersion /\ n.schema = m.schema
      /\ n.dataSources = m.dataSources /\ n.unknown = m.unknown
      /\ n.network.endpoint = ChainGenesis
      /\ n.network.genesisHash = m.network.genesisHash
      /\ n.network.blockchainType = m.network.blockchainType
      /\ n.network.chaintypes = m.network.chaintypes
      /\ n.network.types = m.network.types
  BY EndpointOnly
<1> HIDE DEF n
<1>2. n \notin {Undefined, Torn}
  BY <1>1 DEF NoManifests
<1>3. ValidV0_0_1(m) => ValidV0_0_1(n)
  BY <1>1, ValuesAssumption DEF ValidV0_0_1
<1>4. ValidDeployment(m) => ValidDeployment(n)
  BY <1>1 DEF ValidDeployment, ValidNetwork
<1>5. Valid(n)
  BY <1>1, <1>2, <1>3, <1>4 DEF Valid
<1>6. ChainTypes(n, contents) = ChainTypes(m, contents)
  BY <1>1 DEF ChainTypes
<1>7. GenesisMatches(n) /\ CustomDsAccepted(n, contents) /\ EndpointGiven(n)
  BY <1>1, ValuesAssumption DEF GenesisMatches, CustomDsAccepted, EndpointGiven
<1>8. NodeAccepts(n, contents)
  BY <1>5, <1>6, <1>7 DEF NodeAccepts
<1>9. QED
  BY <1>8 DEF n

\* What a reader validates has chain types.
LEMMA ValidatedChainTypes ==
    ASSUME NEW m, NEW contents, WellFormed(m), NoneRejected(contents),
           RequireValidChainTypes(m, contents)
    PROVE  ChainTypes(m, contents) # Rejected
<1>1. CASE m.specVersion # "0.0.1" /\ m.network.chaintypes # Undefined
  <2> DEFINE path == PathOf(m.network.chaintypes)
  <2>1. IsChainTypes(ReadFile(contents, path))
    BY <1>1 DEF RequireValidChainTypes
  <2>2. path \in DOMAIN contents /\ ReadFile(contents, path) = contents[path]
    BY <2>1 DEF ReadFile, IsChainTypes
  <2>3. ChainTypes(m, contents) = contents[path]
    BY <1>1, <2>1, <2>2 DEF ChainTypes
  <2>4. QED
    BY <2>2, <2>3 DEF NoneRejected
<1>2. CASE ~(m.specVersion # "0.0.1" /\ m.network.chaintypes # Undefined)
  BY <1>2, ValuesAssumption DEF ChainTypes, WellFormed
<1>3. QED
  BY <1>1, <1>2

\* The custom data sources of what is validated are accepted, if the plugin is satisfied
\* with what it looks at itself.
LEMMA ValidatedCustomDs ==
    ASSUME NEW reader, NEW m, NEW contents, Valid(m),
           RequireCustomDsValidation(reader, m, contents),
           \A i \in DOMAIN m.dataSources :
               IsCustomDs(m.dataSources[i]) =>
                   m.specVersion # "0.2.1" /\ PluginSatisfied(m.dataSources[i], contents)
    PROVE  CustomDsAccepted(m, contents)
<1>1. CASE m.specVersion = "0.0.1"
  BY <1>1 DEF Valid, ValidV0_0_1, CustomDsAccepted, IsCustomDs
<1>2. CASE m.specVersion = "0.2.0"
  BY <1>2 DEF RequireCustomDsValidation, HasCustomDs, CustomDsAccepted
<1>3. CASE m.specVersion = "0.2.1"
  BY <1>3 DEF CustomDsAccepted
<1>4. QED
  BY <1>1, <1>2, <1>3 DEF Valid

\* What subql validate passes of the directory, or of a repository it is in, the node
\* accepts at every moment of every migration, but for what is left to a plugin.
THEOREM ValidationIsEnough ==
    ASSUME NoManifests
    PROVE  Spec => []ValidatedProjectStarts
<1>1. ASSUME MigrationInv PROVE ValidatedProjectStarts
  <2> DEFINE m == manifests["project.yaml"]
             contents == Contents(types)
  <2>1. SUFFICES ASSUME NEW reader \in Readers \ {"ipfs"}, m # Undefined,
                        ValidatorPasses(reader, m, contents, package),
                        GenesisMatches(m), ~LeftToThePlugin(m)
                 PROVE  NodeAccepts(WithEndpoint(m), contents)
    BY DEF ValidatedProjectStarts
  <2>2. WellFormed(m) /\ NoneRejected(contents)
    BY <1>1, <2>1, ManifestWellFormed, ContentsNotRejected DEF MigrationInv
  <2>3. /\ Valid(m)
        /\ RequireValidChainTypes(m, contents)
        /\ RequireCustomDsValidation(reader, m, contents)
    BY <2>1 DEF ValidatorPasses, RequireValidManifest
  <2>4. ChainTypes(m, contents) # Rejected
    BY <2>2, <2>3, ValidatedChainTypes
  <2>5. \A i \in DOMAIN m.dataSources :
            IsCustomDs(m.dataSources[i]) =>
                m.specVersion # "0.2.1" /\ PluginSatisfied(m.dataSources[i], contents)
    BY <2>1 DEF LeftToThePlugin
  <2> HIDE DEF m, contents
  <2>6. CustomDsAccepted(m, contents)
    BY <2>3, <2>5, ValidatedCustomDs
  <2>7. QED
    BY <2>1, <2>2, <2>3, <2>4, <2>6, AcceptedWithEndpoint DEF WellFormed
<1>2. QED
  BY <1>1, MigrationInvariant, PTL

----------------------------------------------------------------------------
(* What is published                                                        *)

\* Nor is Undefined a reference to a file.
NoReferences == \A kind, value : << kind, value >> # Undefined

\* The deployment has the form of a manifest.
LEMMA DeployedForm ==
    ASSUME NEW m, NEW contents, WellFormed(m)
    PROVE  WellFormed(Deployed(m, contents))
<1>1. /\ DOMAIN Deployed(m, contents) = DOMAIN m
      /\ DOMAIN Deployed(m, contents).network = DOMAIN m.network
      /\ Deployed(m, contents).network.types = m.network.types
      /\ Deployed(m, contents).dataSources =
             [i \in DOMAIN m.dataSources |-> DeployedDataSource(m.dataSources[i], contents)]
  BY DEF WellFormed, IsManifest, Deployed
<1>2. \A i \in DOMAIN m.dataSources :
          DOMAIN DeployedDataSource(m.dataSources[i], contents) = SourceFields
  BY DEF WellFormed, IsManifest, DeployedDataSource, SourceFields
<1>3. QED
  BY <1>1, <1>2 DEF WellFormed, IsManifest

\* What is deployed of a manifest.
LEMMA DeployedFields ==
    ASSUME NEW m, NEW contents, IsManifest(m)
    PROVE  LET d == Deployed(m, contents)
           IN  /\ d.specVersion = m.specVersion
               /\ d.schema = << "file", Cid(PathOf(m.schema)) >>
               /\ d.network.genesisHash = m.network.genesisHash
               /\ d.network.blockchainType = m.network.blockchainType
               /\ d.network.chaintypes = DeployedChainTypes(m.network.chaintypes, contents)
               /\ d.network.types = m.network.types
               /\ d.dataSources = [i \in DOMAIN m.dataSources |->
                                     DeployedDataSource(m.dataSources[i], contents)]
  BY DEF IsManifest, Deployed

LEMMA DeployedSource ==
    ASSUME NEW ds, NEW contents, DOMAIN ds = SourceFields
    PROVE  LET d == DeployedDataSource(ds, contents)
           IN  /\ d.kind = ds.kind /\ d.startBlock = ds.startBlock /\ d.handlers = ds.handlers
               /\ d.file = Cid(ds.file)
               /\ d.processor = IF ds.processor = Undefined THEN Undefined
                                ELSE Cid(contents[ds.processor])
  BY DEF DeployedDataSource, SourceFields

\* A file is found by the name of its content.
LEMMA IpfsFile ==
    ASSUME NEW contents, NEW path \in DOMAIN contents
    PROVE  /\ Cid(contents[path]) \in DOMAIN Ipfs(contents)
           /\ Ipfs(contents)[Cid(contents[path])] = contents[path]
  BY DEF Ipfs, Cid

\* What can be published deploys to a valid manifest ...
LEMMA DeployedValid ==
    ASSUME NoManifests, NoReferences, NEW m, NEW contents, IsManifest(m), WellFormed(m),
           Valid(m), m.specVersion # "0.0.1"
    PROVE  Valid(Deployed(m, contents))
<1> DEFINE d == Deployed(m, contents)
<1>1. /\ d.specVersion = m.specVersion
      /\ d.schema = << "file", Cid(PathOf(m.schema)) >>
      /\ d.network.genesisHash = m.network.genesisHash
      /\ d.network.blockchainType = m.network.blockchainType
      /\ d.network.chaintypes = DeployedChainTypes(m.network.chaintypes, contents)
      /\ d.dataSources = [i \in DOMAIN m.dataSources |->
                             DeployedDataSource(m.dataSources[i], contents)]
  BY DeployedFields
<1>2. IsManifest(d)
  BY DeployedForm DEF WellFormed
<1> HIDE DEF d
<1>3. d \notin {Undefined, Torn}
  BY <1>2 DEF NoManifests
<1>4. ValidDeployment(m)
  BY DEF Valid
<1>5. \A v : IsFile(<< "file", v >>)
  BY DEF IsFile, NoReferences
<1>6. IsFile(d.schema)
  BY <1>1, <1>5
<1>7. ValidNetwork(d.network, d.specVersion)
  <2>1. d.network.chaintypes # Undefined => IsFile(d.network.chaintypes)
    BY <1>1, <1>5 DEF DeployedChainTypes
  <2>2. QED
    BY <1>1, <1>4, <2>1 DEF ValidDeployment, ValidNetwork
<1>8. ASSUME NEW i \in DOMAIN m.dataSources
      PROVE  ValidDataSource(DeployedDataSource(m.dataSources[i], contents))
  <2> DEFINE e == DeployedDataSource(m.dataSources[i], contents)
  <2>1. ValidDataSource(m.dataSources[i]) /\ DOMAIN m.dataSources[i] = SourceFields
    BY <1>4, <1>8 DEF ValidDeployment, IsManifest
  <2>2. /\ e.kind = m.dataSources[i].kind /\ e.file = Cid(m.dataSources[i].file)
        /\ e.processor = IF m.dataSources[i].processor = Undefined THEN Undefined
                         ELSE Cid(contents[m.dataSources[i].processor])
    BY <2>1, DeployedSource
  <2> HIDE DEF e
  <2>3. \A v : Cid(v) # Undefined
    BY DEF Cid, NoReferences
  <2>4. ValidDataSource(e)
    BY <2>1, <2>2, <2>3 DEF ValidDataSource
  <2>5. QED
    BY <2>4 DEF e
<1>9. ValidDeployment(d)
  BY <1>1, <1>6, <1>7, <1>8 DEF ValidDeployment
<1>10. d.specVersion \in {"0.2.0", "0.2.1"}
  BY <1>1 DEF Valid
<1>11. Valid(d)
  BY <1>3, <1>9, <1>10 DEF Valid
<1>12. QED
  BY <1>11 DEF d

\* ... whose references find the same chain types ...
LEMMA DeployedChainTypesSame ==
    ASSUME NoReferences, NEW m, NEW contents, IsManifest(m), m.specVersion # "0.0.1",
           RequireValidChainTypes(m, contents)
    PROVE  LET types_ == Deployed(m, contents).network.chaintypes
           IN  /\ RequireValidChainTypes(Deployed(m, contents), Ipfs(contents))
               /\ ChainTypes(m, contents) =
                      IF types_ = Undefined THEN NoTypes ELSE Ipfs(contents)[PathOf(types_)]
<1> DEFINE d == Deployed(m, contents)
<1>1. /\ d.specVersion = m.specVersion
      /\ d.network.chaintypes = DeployedChainTypes(m.network.chaintypes, contents)
  BY DeployedFields
<1> HIDE DEF d
<1>2. CASE m.network.chaintypes = Undefined
  BY <1>1, <1>2 DEF ChainTypes, DeployedChainTypes, RequireValidChainTypes, d
<1>3. CASE m.network.chaintypes # Undefined
  <2> DEFINE path == PathOf(m.network.chaintypes)
             content == contents[path]
  <2>1. IsChainTypes(ReadFile(contents, path))
    BY <1>3 DEF RequireValidChainTypes
  <2>2. path \in DOMAIN contents /\ content # Torn /\ IsChainTypes(content)
    BY <2>1 DEF ReadFile, IsChainTypes
  <2>3. d.network.chaintypes = << "file", Cid(content) >>
    BY <1>1, <1>3 DEF DeployedChainTypes
  <2>4. d.network.chaintypes # Undefined /\ PathOf(d.network.chaintypes) = Cid(content)
    BY <2>3 DEF NoReferences, PathOf
  <2>5. Cid(content) \in DOMAIN Ipfs(contents) /\ Ipfs(contents)[Cid(content)] = content
    BY <2>2, IpfsFile
  <2>6. ChainTypes(m, contents) = content
    BY <1>3, <2>2 DEF ChainTypes
  <2> HIDE DEF content, path
  <2>7. ReadFile(Ipfs(contents), Cid(content)) = content
    BY <2>2, <2>5 DEF ReadFile
  <2>8. RequireValidChainTypes(d, Ipfs(contents))
    BY <2>2, <2>4, <2>7 DEF RequireValidChainTypes
  <2>9. QED
    BY <2>4, <2>5, <2>6, <2>8 DEF d
<1>4. QED
  BY <1>2, <1>3

\* ... so that subql validate passes it where it is.
LEMMA DeployedPasses ==
    ASSUME NoManifests, NoReferences, NEW m, NEW contents, NEW pkg, NEW later,
           WellFormed(m), Publishable(m, contents, pkg)
    PROVE  LET d == Deployed(m, contents)
           IN  \/ d.specVersion = "0.2.0" /\ HasCustomDs(d)
               \/ ValidatorPasses("ipfs", d, Ipfs(contents), later)
<1> DEFINE d == Deployed(m, contents)
<1>1. /\ IsManifest(m) /\ Valid(m) /\ m.specVersion # "0.0.1"
      /\ RequireValidChainTypes(m, contents)
  BY DEF WellFormed, Publishable, Builds, ValidatorPasses, RequireValidManifest
<1>2. Valid(d)
  BY <1>1, DeployedValid
<1>3. d.specVersion = m.specVersion
  BY <1>1, DeployedFields
<1>4. RequireValidChainTypes(d, Ipfs(contents))
  BY <1>1, DeployedChainTypesSame
<1> HIDE DEF d
<1>5. PackagePasses(d, ReadPackage("ipfs", later))
  BY <1>1, <1>3 DEF PackagePasses, ReadPackage
<1>6. ~(d.specVersion = "0.2.0" /\ HasCustomDs(d)) =>
          RequireCustomDsValidation("ipfs", d, Ipfs(contents))
  BY DEF RequireCustomDsValidation
<1>7. \/ d.specVersion = "0.2.0" /\ HasCustomDs(d)
      \/ ValidatorPasses("ipfs", d, Ipfs(contents), later)
  BY <1>2, <1>4, <1>5, <1>6 DEF ValidatorPasses, RequireValidManifest
<1>8. QED
  BY <1>7 DEF d

\* A project says the same as the one the user wrote: its chain, its schema, what is
\* indexed from where and, unless other ones were kept, its chain types.
SaysTheSame(m, contents, of, ofContents, kept) ==
    /\ m.network.genesisHash =
           IF of.network.genesisHash = Undefined THEN ChainGenesis ELSE of.network.genesisHash
    /\ kept \/ ChainTypes(m, contents) = ChainTypes(of, ofContents)
    /\ PathOf(m.schema) = PathOf(of.schema)
    /\ DOMAIN m.dataSources = DOMAIN of.dataSources
    /\ \A i \in DOMAIN of.dataSources :
           /\ m.dataSources[i].kind = of.dataSources[i].kind
           /\ m.dataSources[i].startBlock = of.dataSources[i].startBlock
           /\ m.dataSources[i].handlers = of.dataSources[i].handlers

\* What can be published of the directory is the project of the user: as it was written, in
\* a later version of the manifest, or converted.
LEMMA PublishableIsOriginal ==
    ASSUME NoReferences, MigrationInv,
           Publishable(manifests["project.yaml"], Contents(types), package)
    PROVE  SaysTheSame(manifests["project.yaml"], Contents(types),
                       original.manifest, Contents(original.types),
                       declined \/ "typesSpec" \in DOMAIN original.manifest.network.types)
<1> DEFINE new == manifests["project.yaml"]
           m == original.manifest
           kept == declined \/ "typesSpec" \in DOMAIN m.network.types
<1>1. /\ m \in Manifests /\ IsManifest(m) /\ ChainGenesis # Undefined
      /\ new # Undefined /\ Valid(new) /\ new.specVersion \in {"0.2.0", "0.2.1"}
  BY ManifestsAssumption, ValuesAssumption, ValidIsThere
     DEF MigrationInv, OriginInv, Publishable, Builds, ValidatorPasses, RequireValidManifest
<1>2. CASE new = m
  <2>1. types = original.types
    BY <1>1, <1>2 DEF MigrationInv, TypesInv
  <2>2. m.network.genesisHash # Undefined
    BY <1>1, <1>2 DEF Valid, ValidDeployment, ValidNetwork
  <2>3. QED
    BY <1>2, <2>1, <2>2 DEF SaysTheSame
<1>3. CASE After
  <2>1. IsMigrated(new, m, package.main, types, declined)
    BY <1>3 DEF After
  <2>2. PICK path \in {Undefined, "types.json"} :
            ChainTypesMoved(m, path, types, declined) /\ new = Migrated(m, package.main, path)
    BY <2>1 DEF IsMigrated
  <2>3. m.specVersion = "0.0.1" /\ ValidV0_0_1(m)
    BY <1>1, <2>1, <2>2, OnlyOldIsMigrated DEF IsMigrated, Valid
  <2>4. m.network.genesisHash = Undefined /\ new.network.genesisHash = ChainGenesis
    BY <2>2, <2>3 DEF ValidV0_0_1, Migrated
  <2>5. PathOf(new.schema) = PathOf(m.schema)
    BY <1>1, <2>2, <2>3, MigratedSchema DEF ValidV0_0_1
  <2>6. kept \/ ChainTypes(new, Contents(types)) = ChainTypes(m, Contents(original.types))
    <3>1. CASE kept
      BY <3>1
    <3>2. CASE ~kept
      <4>1. ChainTypes(new, Contents(types)) = m.network.types
        BY <1>1, <2>2, <3>2, MigratedChainTypes
      <4>2. ChainTypes(m, Contents(original.types)) = m.network.types
        BY <1>1, <2>1, <2>3, ViewOfOldManifest DEF IsMigrated
      <4>3. QED
        BY <4>1, <4>2
    <3>3. QED
      BY <3>1, <3>2
  <2>7. /\ DOMAIN new.dataSources = DOMAIN m.dataSources
        /\ \A i \in DOMAIN m.dataSources :
               /\ new.dataSources[i].kind = m.dataSources[i].kind
               /\ new.dataSources[i].startBlock = m.dataSources[i].startBlock
               /\ new.dataSources[i].handlers = m.dataSources[i].handlers
    BY <1>1, <2>2, MigratedSources
  <2> HIDE DEF new, m, kept
  <2>8. SaysTheSame(new, Contents(types), m, Contents(original.types), kept)
    BY <2>4, <2>5, <2>6, <2>7 DEF SaysTheSame
  <2>9. QED
    BY <2>8 DEF new, m, kept
<1>4. QED
  BY <1>1, <1>2, <1>3 DEF MigrationInv, OriginInv, Before, Between

\* What was published is the user's project, with references to what its files held then,
\* until the next publication, and whatever migrations and kills do to the directory in
\* the meantime.
THEOREM PublishedAsWritten ==
    ASSUME NoManifests, NoReferences
    PROVE  Spec => []PublishedIsProject
<1>1. Init => PublishedIsProject
  BY DEF Init, PublishedIsProject
<1>2. ASSUME MigrationInv, PublishedIsProject, [Next]_vars
      PROVE  PublishedIsProject'
  <2>1. UNCHANGED <<package, original>>
    BY <1>2 DEF Next, Run, GetGenesisHash, GenesisHashAnswered, GetGenesisHashFails,
         CreateChainTypes, KeepChainTypes, PatchDataSources, PatchFails, WriteManifest,
         Validate, Discard, Conversion, Crash, Publish, vars
  <2>2. CASE UNCHANGED published
    <3>1. CASE KeepChainTypes
      <4>1. declined' = TRUE
        BY <3>1 DEF KeepChainTypes
      <4>2. QED
        BY <1>2, <2>1, <2>2, <4>1 DEF PublishedIsProject, PublishedTypes
    <3>2. CASE ~KeepChainTypes
      <4>1. declined' = declined
        BY <1>2, <3>2 DEF Next, Run, GetGenesisHash, GenesisHashAnswered, GetGenesisHashFails,
             CreateChainTypes, PatchDataSources, PatchFails, WriteManifest, Validate, Discard,
             Conversion, Crash, Publish, vars
      <4>2. QED
        BY <1>2, <2>1, <2>2, <4>1 DEF PublishedIsProject, PublishedTypes
    <3>3. QED
      BY <3>1, <3>2
  <2>3. CASE Publish
    <3> DEFINE m == manifests["project.yaml"]
               contents == Contents(types)
               d == Deployed(m, contents)
               of == original.manifest
    <3>1. Publishable(m, contents, package)
      BY <2>3 DEF Publish
    <3>2. WellFormed(m) /\ m.specVersion # "0.0.1" /\ RequireValidChainTypes(m, contents)
      <4>1. /\ Valid(m) /\ m.specVersion # "0.0.1" /\ RequireValidChainTypes(m, contents)
        BY <3>1 DEF Publishable, Builds, ValidatorPasses, RequireValidManifest
      <4>2. QED
        BY <1>2, <4>1, ValidIsThere, ManifestWellFormed DEF MigrationInv
    <3>3. \/ d.specVersion = "0.2.0" /\ HasCustomDs(d)
          \/ ValidatorPasses("ipfs", d, Ipfs(contents), package)
      BY <3>1, <3>2, DeployedPasses
    <3>4. /\ d.schema = << "file", Cid(PathOf(m.schema)) >>
          /\ d.network.genesisHash = m.network.genesisHash
          /\ d.dataSources = [i \in DOMAIN m.dataSources |->
                                 DeployedDataSource(m.dataSources[i], contents)]
      BY <3>2, DeployedFields DEF WellFormed
    <3>5. ChainTypes(m, contents) =
              IF d.network.chaintypes = Undefined THEN NoTypes
              ELSE Ipfs(contents)[PathOf(d.network.chaintypes)]
      BY <3>2, DeployedChainTypesSame DEF WellFormed
    <3>6. SaysTheSame(m, contents, of, Contents(original.types),
                      declined \/ "typesSpec" \in DOMAIN of.network.types)
      BY <1>2, <3>1, PublishableIsOriginal
    <3>7. /\ published'.deployment = d
          /\ published'.files = Ipfs(contents)
      BY <2>3 DEF Publish
    <3>8. declined' = declined
      BY <2>3 DEF Publish
    <3>9. \A i \in DOMAIN m.dataSources :
              /\ d.dataSources[i].kind = m.dataSources[i].kind
              /\ d.dataSources[i].startBlock = m.dataSources[i].startBlock
              /\ d.dataSources[i].handlers = m.dataSources[i].handlers
      BY <3>2, <3>4, DeployedSource DEF WellFormed, IsManifest
    <3> HIDE DEF m, contents, d
    <3>10. PublishedTypes' = ChainTypes(m, contents)
      BY <3>5, <3>7 DEF PublishedTypes
    <3>11. /\ DOMAIN d.dataSources = DOMAIN of.dataSources
           /\ \A i \in DOMAIN of.dataSources :
                  /\ d.dataSources[i].kind = of.dataSources[i].kind
                  /\ d.dataSources[i].startBlock = of.dataSources[i].startBlock
                  /\ d.dataSources[i].handlers = of.dataSources[i].handlers
      BY <3>4, <3>6, <3>9 DEF SaysTheSame
    <3>12. /\ d.schema = << "file", Cid(PathOf(of.schema)) >>
           /\ d.network.genesisHash =
                  IF of.network.genesisHash = Undefined THEN ChainGenesis ELSE of.network.genesisHash
      BY <3>4, <3>6 DEF SaysTheSame
    <3>13. \/ declined' \/ "typesSpec" \in DOMAIN of.network.types
           \/ PublishedTypes' = ChainTypes(of, Contents(original.types))
      BY <3>6, <3>8, <3>10 DEF SaysTheSame
    <3>14. original' = original /\ package' = package
      BY <2>1
    <3> HIDE DEF of
    <3>15. of = (original.manifest)'
      BY <3>14 DEF of
    <3>16. Contents(original.types)' = Contents(original.types)
      BY <3>14 DEF Contents
    <3>17. QED
      BY <3>3, <3>7, <3>11, <3>12, <3>13, <3>14, <3>15, <3>16 DEF PublishedIsProject
  <2>4. QED
    BY <1>2, <2>2, <2>3 DEF Next, Run, GetGenesisHash, GenesisHashAnswered, GetGenesisHashFails,
         CreateChainTypes, KeepChainTypes, PatchDataSources, PatchFails, WriteManifest,
         Validate, Discard, Conversion, Crash, vars
<1>3. QED
  BY <1>1, <1>2, MigrationInvariant, PTL DEF Spec

----------------------------------------------------------------------------
(* Types                                                                    *)

Clients ==
    [socket : {"none", "connecting", "open", "closed"},
     request : {"none", "unsent", "sent", "lost", "answered", "rejected"}]

\* What a run has in memory: a manifest from its first step to its last, and a client
\* while it asks for the genesis hash.
MemoryInv ==
    /\ client \in Clients
    /\ step # "genesis" => client = NoClient
    /\ step = "none" => manifest = Undefined
    /\ step # "none" => IsManifest(manifest)
    /\ chainTypes \in {Undefined, "types.json"}
    /\ runs \in 0 .. MaxRuns /\ declined \in BOOLEAN

\* The client goes through its own states.
LEMMA ClientStep ==
    ASSUME client \in Clients, Send \/ Connection \/ Destroy
    PROVE  client' \in Clients
<1>1. CASE Send
  BY <1>1 DEF Send, WsJsonRpcClient, WsConnectThrows, HttpSend, Clients
<1>2. CASE Connection
  BY <1>2 DEF Connection, OnOpen, OnSocketClose, Reconnect, OnSocketMessage, Clients
<1>3. CASE Destroy
  BY <1>3 DEF Destroy, NoClient, Clients
<1> QED
  BY <1>1, <1>2, <1>3

LEMMA MemoryStep ==
    ASSUME MaxRuns \in Nat, MigrationInv, MemoryInv, [Next]_vars
    PROVE  MemoryInv'
<1>0. OriginInv /\ StepInv
  BY DEF MigrationInv
<1>1. NoClient \in Clients
  BY DEF NoClient, Clients
<1>2. ASSUME Exit, UNCHANGED <<runs, declined>>
      PROVE  MemoryInv'
  BY <1>1, <1>2 DEF Exit, Destroy, MemoryInv
<1>3. ASSUME step # "genesis", step' \notin {"genesis", "none"},
             UNCHANGED <<client, chainTypes, runs>>,
             declined' \in {declined, TRUE}, IsManifest(manifest')
      PROVE  MemoryInv'
  BY <1>3 DEF MemoryInv
<1>4. CASE Run
  <2>1. CASE step' = step
    BY <1>4, <2>1 DEF Run, MemoryInv
  <2>2. CASE step' # step
    <3>1. /\ step = "none" /\ step' = "genesis" /\ manifest' = manifests["project.yaml"]
          /\ Valid(manifests["project.yaml"])
          /\ runs < MaxRuns /\ runs' = runs + 1
          /\ UNCHANGED <<client, chainTypes, declined>>
      BY <1>4, <2>2 DEF Run
    <3>2. IsManifest(manifest')
      BY <1>0, <3>1, ValidIsThere, ManifestWellFormed DEF WellFormed
    <3> QED
      BY <3>1, <3>2 DEF MemoryInv
  <2> QED
    BY <2>1, <2>2
<1>5. CASE GetGenesisHash
  BY <1>5, ClientStep DEF GetGenesisHash, MemoryInv
<1>6. CASE GenesisHashAnswered
  <2>1. /\ step = "genesis" /\ step' \in {"entry", "types"} /\ client' = NoClient
        /\ chainTypes' \in {chainTypes, "types.json"}
        /\ UNCHANGED <<manifest, runs, declined>>
    BY <1>6 DEF GenesisHashAnswered, Destroy
  <2> QED
    BY <1>1, <2>1 DEF MemoryInv
<1>7. CASE GetGenesisHashFails \/ PatchFails \/ Discard \/ Crash
  BY <1>2, <1>7 DEF GetGenesisHashFails, PatchFails, Discard, Crash
<1>8. CASE CreateChainTypes \/ KeepChainTypes \/ WriteManifest \/ Validate
  BY <1>3, <1>8 DEF CreateChainTypes, KeepChainTypes, WriteManifest, Validate, AfterValidation,
       MemoryInv
<1>9. CASE PatchDataSources
  <2>1. /\ step = "entry" /\ step' = "write" /\ UNCHANGED <<client, chainTypes, runs, declined>>
        /\ manifest' = [manifest EXCEPT !.dataSources = Patched(@, package.main)]
    BY <1>9 DEF PatchDataSources, Patched
  <2>2. IsManifest(manifest)
    BY <2>1 DEF MemoryInv
  <2>3. IsManifest(manifest')
    <3>1. /\ DOMAIN manifest' = DOMAIN manifest
          /\ manifest'.network = manifest.network
          /\ manifest'.dataSources = Patched(manifest.dataSources, package.main)
      BY <2>1, <2>2 DEF IsManifest
    <3> QED
      BY <2>2, <3>1 DEF IsManifest, Patched
  <2> QED
    BY <1>3, <2>1, <2>3
<1>10. CASE Conversion
  <2>1. CASE step = "backup"
    BY <1>3, <1>10, <2>1 DEF Conversion, MemoryInv
  <2>2. CASE step # "backup"
    BY <1>2, <1>10, <2>2 DEF Conversion
  <2> QED
    BY <2>1, <2>2
<1>11. CASE Publish \/ UNCHANGED vars
  BY <1>11 DEF Publish, vars, MemoryInv
<1> QED
  BY <1>4, <1>5, <1>6, <1>7, <1>8, <1>9, <1>10, <1>11 DEF Next

\* Every variable of the directory and of the command has its type: a run holds a manifest
\* exactly while it is at work and a client only while it asks for the genesis hash, and
\* puts in its place what passed the validation.
THEOREM TypeCorrect ==
    ASSUME NoManifests, MaxRuns \in Nat
    PROVE  Spec => []TypeOK
<1>1. Init => MemoryInv
  <2>1. NoClient \in Clients /\ 0 \in 0 .. MaxRuns
    BY DEF NoClient, Clients
  <2> QED
    BY <2>1 DEF Init, MemoryInv
<1>2. MigrationInv /\ MemoryInv /\ [Next]_vars => MemoryInv'
  BY MemoryStep
<1>3. MigrationInv /\ MemoryInv => TypeOK
  <2> SUFFICES ASSUME MigrationInv, MemoryInv PROVE TypeOK
    OBVIOUS
  <2>1. DOMAIN manifests = Files
    BY DEF MigrationInv, OriginInv
  <2>2. step \in Steps /\ (step \in {"backup", "replace"} => Valid(manifests["project_0_2_0.yaml"]))
    BY DEF MigrationInv, StepInv
  <2>3. step = "none" <=> manifest = Undefined
    BY DEF MemoryInv, NoManifests
  <2> QED
    BY <2>1, <2>2, <2>3 DEF MemoryInv, TypeOK, Steps, Clients
<1> QED
  BY <1>1, <1>2, <1>3, MigrationInvariant, PTL DEF Spec
=============================================================================
