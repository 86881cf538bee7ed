------------------------------- MODULE StartUp -------------------------------
(***************************************************************************)
(* How the processes of a deployment come up: servers, workers and the     *)
(* scheduler read the same settings, build their containers, wire routes   *)
(* and tasks to them and install the task middlewares; a server then seeds *)
(* the bootstrap administrator (AdminAccounts), racing the other servers   *)
(* and the wizard.  A process may die at any step and is started again,    *)
(* and a server process may build its application a second time.           *)
(***************************************************************************)
EXTENDS AdminAccounts, Configuration, Sequences

CONSTANTS Procs,        \* the processes; a server's id is also its seed's request
          Kind,         \* what each of them runs
          Deployments   \* records of settings, installed extras and processes,
                        \* and two bounds: builds, the applications one server
                        \* process builds, and crashes, the processes that die

ASSUME ProcsAssumption == /\ Procs \subseteq Reqs
                          /\ Kind \in [Procs -> {"server", "worker", "scheduler"}]
ASSUME SettingsAssumption == \A d \in Deployments : Fits(d.settings)
ASSUME BoundsAssumption == \A d \in Deployments : d.builds \in Nat /\ d.crashes \in Nat

VARIABLES deployment,   \* the one this behaviour is about
          migrated,     \* the tables exist
          stage,        \* where a process is
          tree,         \* its newest container tree; 0 is the one of worker/broker.py
          used,         \* the trees that were wired or handed to the domains
          at,           \* which tree each part of the process hangs off
          stack,        \* the middlewares of its task broker
          exporters,    \* the trace exporters it runs
          crashes

process == <<stage, tree, used, at, stack, exporters>>
startVars == <<vars, deployment, migrated, process, crashes>>

Parts == {"app", "health", "routes", "tasks", "audit", "notifier", "admin"}
Stages == {"new", "broker", "prepare", "containers", "schema", "core_routes", "domains", "inline",
           "admin", "startup", "seeding", "wire_tasks", "wire_audit", "middleware",
           "serving", "refused", "down"}

settings == deployment.settings
has(extra) == extra \in deployment.extras

StartInit == /\ Init
             /\ deployment \in Deployments
             /\ migrated = FALSE
             /\ stage = [p \in Procs |-> IF p \in deployment.procs THEN "new" ELSE "refused"]
             /\ tree = [p \in Procs |-> 0]
             /\ used = [p \in Procs |-> {}]
             /\ at = [p \in Procs |-> [x \in Parts |-> None]]
             /\ stack = [p \in Procs |-> <<>>]
             /\ exporters = [p \in Procs |-> 0]
             /\ crashes = 0

-----------------------------------------------------------------------------
(* Steps of a process.                                                     *)

Enter(p, from, to) == stage[p] = from /\ stage' = [stage EXCEPT ![p] = to]

Hang(p, parts, t) == at' = [at EXCEPT ![p] = [x \in Parts |-> IF x \in parts THEN t ELSE @[x]]]

\* wire() and a domain container's override both leave their mark on a tree.
Use(p, t) == used' = [used EXCEPT ![p] = @ \union {t}]

\* Settings() runs when the first module imports it, and raises on any error.
ImportSettings(p) ==
  /\ Enter(p, "new", IF ~Accepted(settings) THEN "refused"
                     ELSE IF Kind[p] = "server" THEN "prepare" ELSE "broker")
  /\ UNCHANGED <<vars, deployment, migrated, tree, used, at, stack, exporters, crashes>>

\* worker/broker.py builds a tree of its own and the broker at import.
BrokerBuilds == CASE Broker(settings) \in {"sqs", "hollow"} -> has("sqs")
                  [] Broker(settings) = "rabbitmq" -> has("rabbitmq")
                  [] Broker(settings) = "crash" -> FALSE
                  [] OTHER -> TRUE

Inline == Broker(settings) = "inmemory"

\* A worker may not run on the inline broker: the launcher refuses it, and
\* under the taskiq command line listen() raises.
WorkerCapable(p) == Kind[p] = "worker" => ~Inline

ImportBroker(p) ==
  /\ Enter(p, "broker", IF BrokerBuilds /\ WorkerCapable(p) THEN "prepare" ELSE "refused")
  /\ UNCHANGED <<vars, deployment, migrated, tree, used, at, stack, exporters, crashes>>

\* A provider that is already installed is left alone; without the extra the
\* process goes on and says so.
ConfigureOtel(p) ==
  exporters' = [exporters EXCEPT ![p] =
    IF settings.otel_enabled /\ has("otel") /\ @ = 0 THEN 1 ELSE @]

\* Logging, tracing and, in a server, handlers and middlewares on a new app.
Prepare(p) ==
  /\ Enter(p, "prepare", "containers")
  /\ ConfigureOtel(p)
  /\ UNCHANGED <<vars, deployment, migrated, tree, used, at, stack, crashes>>

\* Building the domain containers over a tree fails once the tree was wired.
BuildDomains(p, t, next) ==
  /\ Enter(p, "containers", IF t \in used[p] THEN "down" ELSE next)
  /\ Use(p, t)

ServerContainer(p) ==
  LET t == tree[p] + 1 IN
  /\ Kind[p] = "server"
  /\ BuildDomains(p, t, "schema")
  /\ tree' = [tree EXCEPT ![p] = t]
  /\ Hang(p, {"app"}, t)
  /\ UNCHANGED <<vars, deployment, migrated, stack, exporters, crashes>>

\* create_all, in quickstart only.
CreateSchema(p) ==
  /\ Enter(p, "schema", "core_routes")
  /\ migrated' = (migrated \/ Lowered(settings.env) = "quickstart")
  /\ UNCHANGED <<vars, deployment, tree, used, at, stack, exporters, crashes>>

CoreRoutes(p) ==
  /\ Enter(p, "core_routes", "domains")
  /\ Hang(p, {"health"}, tree[p])
  /\ Use(p, tree[p])
  /\ UNCHANGED <<vars, deployment, migrated, tree, stack, exporters, crashes>>

\* The docs router imports the ingestion task, and with it worker/broker.py.
\* An ImportError of a missing broker extra is not one of the skipped errors.
ServerDomains(p) ==
  /\ Enter(p, "domains", IF BrokerBuilds THEN "inline" ELSE "refused")
  /\ Hang(p, {"routes"}, tree[p])
  /\ UNCHANGED <<vars, deployment, migrated, tree, used, stack, exporters, crashes>>

\* on_error runs in reverse: the alert before the retry counts the attempt.
Contract == <<"context", "retry", "log", "alert">>

InstalledIn(st) == \E i \in DOMAIN st : st[i] = "alert"

\* mutant: a second installation appends a second stack
InstallAgain(p, t) == stack' = [stack EXCEPT ![p] = @ \o Contract]

\* install_task_middleware: the first call installs, a later one rebinds.
InstallTaskMiddleware(p, t) ==
  stack' = [stack EXCEPT ![p] = IF InstalledIn(@) THEN @ ELSE @ \o Contract]

\* mutant: the rebinding is skipped once the broker has middlewares
InlineRuntimeOnce(p) ==
  /\ Enter(p, "inline", "admin")
  /\ IF ~Inline THEN UNCHANGED <<at, stack, used>>
                ELSE /\ InstallTaskMiddleware(p, tree[p])
                     /\ Hang(p, {"tasks", "audit"}
                                  \union (IF stack[p] = <<>> THEN {"notifier"} ELSE {}), tree[p])
                     /\ Use(p, tree[p])
  /\ UNCHANGED <<vars, deployment, migrated, tree, exporters, crashes>>

\* Only where tasks run in this process: a stack, a notifier of this tree,
\* the domains' tasks, and the audit task that is no domain's.
InlineRuntime(p) ==
  /\ Enter(p, "inline", "admin")
  /\ IF ~Inline THEN UNCHANGED <<at, stack, used>>
                ELSE /\ InstallTaskMiddleware(p, tree[p])
                     /\ Hang(p, {"tasks", "audit", "notifier"}, tree[p])
                     /\ Use(p, tree[p])
  /\ UNCHANGED <<vars, deployment, migrated, tree, exporters, crashes>>

\* A view over the server's tree; without the extra the server goes on.
MountAdmin(p) ==
  /\ Enter(p, "admin", "startup")
  /\ IF has("admin") THEN Hang(p, {"admin"}, tree[p]) ELSE UNCHANGED at
  /\ UNCHANGED <<vars, deployment, migrated, tree, used, stack, exporters, crashes>>

SeedInstalled == has("admin") /\ settings.bootstrap # "off"

\* The application starts: the seed is its startup handler.
StartServing(p) ==
  /\ IF SeedInstalled THEN Enter(p, "startup", "seeding") /\ SeedStart(p)
                      ELSE Enter(p, "startup", "serving") /\ UNCHANGED vars
  /\ UNCHANGED <<deployment, migrated, tree, used, at, stack, exporters, crashes>>

\* One session of the seed.  A server whose seed raised does not come up.
Seed(p) ==
  /\ stage[p] = "seeding" /\ migrated
  /\ \/ SeedCheck(p) \/ SeedSelect(p) \/ SeedUpdate(p)
     \/ (\E i \in Ids : SeedInsert(p, i)) \/ SeedConflict(p)
  /\ stage' = [stage EXCEPT ![p] = CASE out'[p] \in {"ok", "skipped"} -> "serving"
                                     [] out'[p] = "boot_failed" -> "down"
                                     [] OTHER -> @]
  /\ UNCHANGED <<deployment, migrated, tree, used, at, stack, exporters, crashes>>

\* The first query of the seed finds no table.
SeedWithoutTables(p) ==
  /\ ~migrated
  /\ Enter(p, "seeding", "down")
  /\ UNCHANGED <<vars, deployment, migrated, tree, used, at, stack, exporters, crashes>>

\* mutant: the audit task is wired before the domain containers are built
WorkerContainerWired(p) ==
  /\ Kind[p] # "server"
  /\ Enter(p, "containers", "down")
  /\ Use(p, 0)
  /\ Hang(p, {"audit"}, 0)
  /\ UNCHANGED <<vars, deployment, migrated, tree, stack, exporters, crashes>>

\* A worker builds its domains over the tree its broker came from.
WorkerContainer(p) ==
  /\ Kind[p] # "server"
  /\ BuildDomains(p, 0, "wire_tasks")
  /\ UNCHANGED <<vars, deployment, migrated, tree, at, stack, exporters, crashes>>

WireTasks(p) ==
  /\ Enter(p, "wire_tasks", "wire_audit")
  /\ Hang(p, {"tasks"}, 0)
  /\ UNCHANGED <<vars, deployment, migrated, tree, used, stack, exporters, crashes>>

WireAudit(p) ==
  /\ Enter(p, "wire_audit", "middleware")
  /\ Hang(p, {"audit"}, 0)
  /\ Use(p, 0)
  /\ UNCHANGED <<vars, deployment, migrated, tree, stack, exporters, crashes>>

WorkerMiddleware(p) ==
  /\ Enter(p, "middleware", "serving")
  /\ InstallTaskMiddleware(p, 0)
  /\ Hang(p, {"notifier"}, 0)
  /\ UNCHANGED <<vars, deployment, migrated, tree, used, exporters, crashes>>

Boot(p) ==
  \/ ImportSettings(p) \/ ImportBroker(p) \/ Prepare(p) \/ ServerContainer(p) \/ CreateSchema(p)
  \/ CoreRoutes(p) \/ ServerDomains(p) \/ InlineRuntime(p) \/ MountAdmin(p) \/ StartServing(p)
  \/ Seed(p) \/ SeedWithoutTables(p)
  \/ WorkerContainer(p) \/ WireTasks(p) \/ WireAudit(p) \/ WorkerMiddleware(p)

\* The seed's request is over and a new start makes a new one.
ForgetSeed(p) == /\ op' = [op EXCEPT ![p] = "none"]
                 /\ pc' = [pc EXCEPT ![p] = "idle"]
                 /\ tgt' = [tgt EXCEPT ![p] = None]
                 /\ out' = [out EXCEPT ![p] = "none"]
                 /\ UNCHANGED <<accounts, pages, arg, grant, raced>>

\* create_app() runs again in a process that lives on (tests, reloads).
BuildAgain(p) ==
  /\ Kind[p] = "server" /\ tree[p] < deployment.builds
  /\ Enter(p, "serving", "prepare")
  /\ ForgetSeed(p)
  /\ UNCHANGED <<deployment, migrated, tree, used, at, stack, exporters, crashes>>

Die(p) ==
  /\ stage[p] \notin {"refused", "down"}
  /\ crashes < deployment.crashes /\ crashes' = crashes + 1
  /\ stage' = [stage EXCEPT ![p] = "down"]
  /\ UNCHANGED <<vars, deployment, migrated, tree, used, at, stack, exporters>>

\* restart: unless-stopped.  Nothing of the old process is left.
StartAgain(p) ==
  /\ Enter(p, "down", "new")
  /\ tree' = [tree EXCEPT ![p] = 0]
  /\ used' = [used EXCEPT ![p] = {}]
  /\ at' = [at EXCEPT ![p] = [x \in Parts |-> None]]
  /\ stack' = [stack EXCEPT ![p] = <<>>]
  /\ exporters' = [exporters EXCEPT ![p] = 0]
  /\ ForgetSeed(p)
  /\ UNCHANGED <<deployment, migrated, crashes>>

\* The migrate service, which the others need not wait for.
Migrate == /\ ~migrated /\ migrated' = TRUE
           /\ UNCHANGED <<vars, deployment, process, crashes>>

\* The first-admin wizard, in a server that serves the admin pages.
Wizard(r) ==
  /\ r \in Reqs \ Procs
  /\ \E p \in Procs : stage[p] = "serving" /\ at[p]["admin"] # None
  /\ migrated
  /\ \/ SetupGranted(r) \/ (\E n \in Names : SetupSubmit(r, n)) \/ Validate(r)
     \/ (\E i \in Ids : InsertAccount(r, i)) \/ InsertConflict(r) \/ Retire(r) \/ Respond(r)
  /\ UNCHANGED <<deployment, migrated, process, crashes>>

StartNext == \/ \E p \in Procs : Boot(p) \/ BuildAgain(p) \/ Die(p) \/ StartAgain(p)
             \/ Migrate
             \/ \E r \in Reqs : Wizard(r)

\* A process that can run does, what died is started again, and the
\* migration is run.
StartSpec == /\ StartInit /\ [][StartNext]_startVars
             /\ \A p \in Procs : WF_startVars(Boot(p) \/ StartAgain(p))
             /\ WF_startVars(Migrate)

-----------------------------------------------------------------------------
(* Properties.                                                             *)

\* Written as the documentation writes it: no capitals or spaces, no empty
\* credential, and the region the SQS client cannot do without.
Tidy(s) ==
  /\ \A v \in {s.env, s.database_engine, s.storage_type, s.vector_store_type, s.broker_type,
               s.llm_provider, s.embedding_provider, s.notification_provider} : v.spelt = "plain"
  /\ \A c \in {s.s3, s.minio, s.dynamodb, s.s3vectors, s.sqs, s.llm_bedrock,
               s.embedding_bedrock} : c # "blank"
  /\ s.broker_type.name = "sqs" => s.sqs_region

ClientsHonour(s) ==
  /\ s.storage_type # Unset => StorageClient(s) = "real"
  /\ s.vector_store_type.name = "s3vectors" => VectorStore(s) = "real"
  /\ s.broker_type # Unset => Broker(s) = s.broker_type.name
  /\ s.dynamodb # "none" => DynamodbClient(s) = "real"

ModelsHonour(s) ==
  /\ EmbeddingNamed(s) =>
       /\ EmbeddingClient(s) = "real" /\ Embedder(s) = "real"
       /\ s.embedding_provider.name \in {"openai", "bedrock", "google"} =>
            DimensionTable(s) = s.embedding_provider.name
  /\ LlmNamed(s) => LlmModel(s) = "real" /\ AnswerAgent(s) = "real" /\ Classifier(s) = "real"

\* Every channel that was given gets the alerts of its tier.
AlertsHonour(s) ==
  /\ s.notification_provider # Unset =>
       AlertTarget(s, "critical") # "none" /\ Adapter(s) = s.notification_provider.name
  /\ s.warning_threshold # "unset" => AlertTarget(s, "warning") # "none"
  /\ s.critical => AlertTarget(s, "critical") = "critical"
  /\ s.warning => AlertTarget(s, "warning") = "warning"

ProfilesHonour(s) ==
  /\ Strict(s) => DatabaseProfile(s) = s.env.name /\ ~IsDev(s)
  /\ Strict(s) /\ s.database_engine.name # "sqlite" => ConnectTimeouts(s)
  /\ s.env.name = "prod" => HttpProfile(s) = "prod"

Honoured(s) == ClientsHonour(s) /\ ModelsHonour(s) /\ AlertsHonour(s) /\ ProfilesHonour(s)

\* Settings are refused, or what they name works: a process that serves has a
\* usable client behind every part its tidy settings name, none of them a
\* stub, a client without credentials, a missing branch, or a channel no
\* alert reaches (the couplings of config.py against the selectors of
\* core_container.py and docs_container.py, which read the fields otherwise).
SettingsHonoured ==
  \A p \in Procs : stage[p] = "serving" /\ Tidy(settings) => Honoured(settings)

Runs(p, part) == CASE part = "admin" -> Kind[p] = "server" /\ has("admin")
                   [] part \in {"tasks", "audit", "notifier"} -> Kind[p] # "server" \/ Inline
                   [] OTHER -> Kind[p] = "server"

\* One process, one container tree: when a process serves, whatever it runs
\* (routes, health check, inline tasks, the task notifier, the admin pages)
\* hangs off its newest tree, so that there is one engine, one cooldown and
\* one database to override (#324, create_admin_container).
OneTreeServes ==
  \A p \in Procs : stage[p] = "serving" =>
    \A x \in Parts : at[p][x] = IF Runs(p, x) THEN tree[p] ELSE None

\* Wherever a task may run it runs whole: the four middlewares are there
\* once and in the order the retry count depends on, and nowhere else; no
\* process exports its traces twice.
TasksRunWhole ==
  \A p \in Procs :
    /\ stage[p] = "serving" => stack[p] = IF Runs(p, "tasks") THEN Contract ELSE <<>>
    /\ stack[p] \in {<<>>, Contract}
    /\ exporters[p] <= 1

Viable(p) == /\ p \in deployment.procs
             /\ Accepted(settings) /\ BrokerBuilds /\ WorkerCapable(p)

\* Every process whose settings are accepted, whose broker is installed and
\* which may run on it comes up for good, whatever the seeds, the wizard, the
\* migration and its own restarts do in between.
EveryProcessServes == \A p \in Procs : Viable(p) ~> [](stage[p] = "serving")

=============================================================================
