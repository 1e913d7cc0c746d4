------------------------------ MODULE RequestOptions ------------------------------
(***************************************************************************)
(* What becomes of the options of a VolumeDriver.Create request: which of  *)
(* the operations they ask for, on which backend, or that the request is   *)
(* refused.  The options of a volume are looked at twice, by               *)
(* request_validator.py and again by volumedriver_create; those of a share *)
(* by request_context.py.                                                  *)
(*                                                                         *)
(* A request is a function from the options given to their values; of a    *)
(* value, only what the code tells apart is kept.                          *)
(***************************************************************************)
EXTENDS Naturals, FiniteSets

CONSTANTS
  Block,      \* backends of the configuration of the block driver
  File,       \* backends of the configuration of the file driver
  Replicated  \* those of Block with a replication_device that is in order

\* A default backend is DEFAULT, or that of the driver.  The plugin does not start with
\* the other driver's among its backends.  "none" is None, which names no section.
DefaultOf(backends, own) == IF "DEFAULT" \in backends THEN "DEFAULT" ELSE own

ASSUME OptionsAssumption ==
  /\ DefaultOf(Block, "DEFAULT_BLOCK") \in Block
  /\ DefaultOf(File, "DEFAULT_FILE") \in File
  /\ "DEFAULT_FILE" \notin Block
  /\ "DEFAULT_BLOCK" \notin File
  /\ Block \intersect File = {}
  /\ "none" \notin Block \union File
  /\ Replicated \subseteq Block

\* Of a value: good, empty, bad (refused where it is looked at), or the name of a backend.
Given(r, o) == o \in DOMAIN r /\ r[o] # "empty"

None == [op |-> "refused", backend |-> "none"]

-----------------------------------------------------------------------------
(* The validator *)

Exclusive == {"virtualCopyOf", "cloneOf", "importVol", "replicationGroup"}

ScheduleMandatory == {"scheduleName", "snapshotPrefix", "scheduleFrequency"}

ValidOptions ==
  [create |-> {"compression", "size", "provisioning", "flash-cache", "qos-name", "fsOwner",
               "fsMode", "mountConflictDelay", "cpg", "snapcpg", "backend", "manager"},
   clone |-> {"cloneOf", "size", "cpg", "snapcpg", "mountConflictDelay", "manager"},
   snapshot |-> {"virtualCopyOf", "retentionHours", "expirationHours",
                 "mountConflictDelay", "size", "manager"},
   schedule |-> ScheduleMandatory \union
                {"virtualCopyOf", "expHrs", "retHrs", "mountConflictDelay", "size", "manager"},
   import |-> {"importVol", "backend", "mountConflictDelay", "manager"},
   replicated |-> {"replicationGroup", "size", "provisioning", "backend",
                   "mountConflictDelay", "compression", "manager"},
   help |-> {"help"}]

\* operations_map, the first that matches; snapshotPrefix is misspelt there.
Operation(opts) ==
  CASE "virtualCopyOf" \in opts /\
       opts \intersect {"scheduleName", "scheduleFrequency", "snaphotPrefix"} # {} -> "schedule"
    [] "virtualCopyOf" \in opts /\
       opts \intersect {"scheduleName", "scheduleFrequency", "snaphotPrefix"} = {} -> "snapshot"
    [] "virtualCopyOf" \notin opts /\ "cloneOf" \in opts -> "clone"
    [] opts \intersect {"virtualCopyOf", "cloneOf"} = {} /\ "importVol" \in opts -> "import"
    [] opts \intersect Exclusive = {"replicationGroup"} -> "replicated"
    [] opts \intersect Exclusive = {} /\ "help" \in opts -> "help"
    [] OTHER -> "create"

ValidNames(opts) ==
  /\ Cardinality(opts \intersect Exclusive) <= 1
  /\ opts \subseteq ValidOptions[Operation(opts)]
  /\ Operation(opts) = "schedule" => ScheduleMandatory \subseteq opts

\* An import without a backend needs the one called DEFAULT, not the default one.
ValidImport(r) ==
  Operation(DOMAIN r) = "import" =>
    (IF Given(r, "backend") THEN r["backend"] ELSE "DEFAULT") \in Block

Validated(r) == ValidNames(DOMAIN r) /\ ValidImport(r)

-----------------------------------------------------------------------------
(* volumedriver_create, after the validator *)

ScheduleOptions == ScheduleMandatory \union {"expHrs", "retHrs"}

KnownOptions ==
  UNION {ValidOptions[op] : op \in DOMAIN ValidOptions}

\* What it refuses by the names of the options.
NamesRefused(opts) ==
  \/ ~(opts \subseteq KnownOptions)
  \/ Cardinality(opts \intersect {"virtualCopyOf", "cloneOf", "qos-name", "replicationGroup"}) >= 2
  \/ Cardinality(opts \intersect {"virtualCopyOf", "cloneOf", "backend"}) >= 2
  \/ /\ "virtualCopyOf" \in opts
     /\ \/ opts \intersect {"cpg", "snapcpg"} # {}
        \/ opts \intersect ScheduleOptions # {} /\ "scheduleName" \notin opts
        \/ /\ "scheduleName" \in opts
           /\ ~(ScheduleMandatory \subseteq opts) \/
              opts \intersect {"expirationHours", "retentionHours"} # {}
  \/ opts \intersect {"virtualCopyOf", "cloneOf"} = {} /\ opts \intersect ScheduleOptions # {}

\* The branch it takes, with replicationGroup by its value and the others by name.
Branch(r) ==
  LET opts == DOMAIN r
  IN CASE "importVol" \in opts -> "import"
       [] "importVol" \notin opts /\ "help" \in opts -> "help"
       [] "virtualCopyOf" \in opts /\ opts \intersect {"importVol", "help"} = {} ->
            IF "scheduleName" \in opts THEN "schedule" ELSE "snapshot"
       [] "cloneOf" \in opts /\ opts \intersect {"importVol", "help", "virtualCopyOf"} = {} -> "clone"
       [] OTHER -> IF Given(r, "replicationGroup") THEN "replicated" ELSE "create"

\* The options whose value the branch looks at, and those that it does not skip when
\* they are empty.
Checked(op) ==
  CASE op \in {"import", "help"} -> {}
    [] op \in {"create", "replicated"} ->
         {"size", "compression", "flash-cache", "fsOwner", "fsMode", "mountConflictDelay"}
    [] op = "clone" -> {"size", "mountConflictDelay"}
    [] op = "snapshot" -> {"size", "mountConflictDelay", "expirationHours", "retentionHours"}
    [] OTHER -> {"size", "mountConflictDelay"} \union ScheduleOptions

NotEmpty(op) ==
  CASE op \in {"create", "replicated"} -> {"compression"}
    [] op = "clone" -> {"size"}
    [] op = "snapshot" -> {"expirationHours", "retentionHours"}
    [] op = "schedule" -> ScheduleOptions
    [] OTHER -> {}

ValuesRefused(r) ==
  \E o \in DOMAIN r :
    \/ r[o] = "bad" /\ o \in Checked(Branch(r))
    \/ r[o] = "empty" /\ o \in NotEmpty(Branch(r))

\* The backend of a creation or an import; that of a copy is its source's.
BlockBackend(r) ==
  IF Given(r, "backend") THEN r["backend"] ELSE DefaultOf(Block, "DEFAULT_BLOCK")

\* _validate_rcg_params: no replication_device, or its mode, sync_period or witness do not
\* go together.
ReplicationRefused(r) == Branch(r) = "replicated" /\ BlockBackend(r) \notin Replicated

BlockOutcome(r) ==
  IF \/ ~Validated(r) \/ NamesRefused(DOMAIN r) \/ BlockBackend(r) \notin Block
     \/ ValuesRefused(r) \/ ReplicationRefused(r)
  THEN None
  ELSE [op |-> Branch(r), backend |-> BlockBackend(r)]

-----------------------------------------------------------------------------
(* FileRequestContextBuilder *)

ShareOptions ==
  {"backend", "filePersona", "cpg", "fpg", "size", "mountConflictDelay", "fsMode", "fsOwner"}

FileBackend(r) ==
  IF Given(r, "backend") THEN r["backend"] ELSE DefaultOf(File, "DEFAULT_FILE")

\* Mode bits or an ACL need an owner; a size that is too large for the FPG is bad, too.
ShareRefused(r) ==
  \/ ~(DOMAIN r \subseteq ShareOptions)
  \/ FileBackend(r) \notin File
  \/ Given(r, "fsMode") /\ ~Given(r, "fsOwner")
  \/ \E o \in DOMAIN r : r[o] = "bad" /\ o \in {"fsMode", "fsOwner", "size"}

HelpRefused(r) ==
  ~(DOMAIN r \subseteq {"filePersona", "help", "mountConflictDelay"}) \/ r["help"] = "bad"

FileOutcome(r) ==
  CASE "help" \in DOMAIN r /\ ~HelpRefused(r) -> [op |-> "help", backend |-> "none"]
    [] "help" \notin DOMAIN r /\ ~ShareRefused(r) -> [op |-> "share", backend |-> FileBackend(r)]
    [] OTHER -> None

-----------------------------------------------------------------------------
\* volumedriver_create, for a name that no volume and no share has.
Outcome(r) == IF "filePersona" \in DOMAIN r THEN FileOutcome(r) ELSE BlockOutcome(r)
=============================================================================
