---------------------------- MODULE Configuration ----------------------------
(***************************************************************************)
(* The settings of a process, the checks that accept or refuse them when   *)
(* it starts, and what the containers build from them.  The checks and the *)
(* selectors read the same fields in different ways: a check compares the  *)
(* stripped, lower-case text and asks whether a credential is present,     *)
(* while a selector may only ask whether a text is empty.  No state: the   *)
(* module is about a record s of settings, of which one group of fields is *)
(* varied at a time.                                                       *)
(***************************************************************************)
EXTENDS FiniteSets

-----------------------------------------------------------------------------
(* Values.  A free text is a known name, a typo or nothing, as written in  *)
(* the documentation, in capitals or with spaces around it.  A group of    *)
(* credentials is absent, partial, complete, or present but empty (KEY=).  *)

Unset == [name |-> "", spelt |-> "plain"]
Plain(n) == [name |-> n, spelt |-> "plain"]

Texts(names) == [name : names \union {"typo"}, spelt : {"plain", "capitals", "padded"}]
                  \union {Unset, [name |-> "", spelt |-> "padded"]}

Credentials == {"none", "some", "all", "blank"}

\* if value:
Truthy(v) == v # Unset

\* value.lower()
Lowered(v) == IF v.spelt = "padded" THEN "padded" ELSE v.name

\* (value or "").lower().strip()
Stripped(v) == v.name

\* The text as it stands, compared with a lower-case literal.
Verbatim(v) == IF v.spelt = "plain" THEN v.name ELSE "other"

\* A required field is there when it is not None: "" counts.
Complete(c) == c \in {"all", "blank"}

\* What a selector that tests the access key's truth finds.
KeyTruthy(c) == c = "all"

KnownEnvs == {"quickstart", "local", "dev", "stg", "prod"}
StrictEnvs == {"stg", "prod"}
KnownEngines == {"postgresql", "mysql", "sqlite"}
KnownStorageTypes == {"s3", "minio"}
KnownVectorStoreTypes == {"inmemory", "s3vectors"}
KnownBrokerTypes == {"sqs", "rabbitmq", "inmemory"}
KnownLlmProviders == {"openai", "anthropic", "bedrock"}
KnownEmbeddingProviders == {"openai", "bedrock", "google", "ollama", "sentence-transformers"}
KnownNotificationProviders == {"slack", "discord"}

-----------------------------------------------------------------------------
(* The fields, by the group the class lists them in.                       *)

EnvFields == [env : Texts(KnownEnvs)]

\* database_defaults: the password or the host is the shipped one.
DatabaseFields == [database_engine : Texts(KnownEngines), database_defaults : BOOLEAN]

RealmFields == [secrets : {"given", "generated", "equal", "weak"}, hs256 : BOOLEAN,
                issuers_differ : BOOLEAN, audiences_differ : BOOLEAN]

BootstrapFields == [bootstrap : {"off", "password", "admin", "empty"}]

StorageFields == [storage_type : Texts(KnownStorageTypes), s3 : Credentials, minio : Credentials]

NosqlFields == [dynamodb : Credentials, dynamodb_endpoint : {"none", "local", "aws"}]

VectorFields == [vector_store_type : Texts(KnownVectorStoreTypes), s3vectors : Credentials]

BrokerFields == [broker_type : Texts(KnownBrokerTypes), sqs : Credentials, sqs_region : BOOLEAN,
                 rabbitmq_url : BOOLEAN]

LlmFields == [llm_provider : Texts(KnownLlmProviders), llm_model : BOOLEAN,
              llm_api_key : BOOLEAN, llm_bedrock : Credentials]

EmbeddingFields == [embedding_provider : Texts(KnownEmbeddingProviders), embedding_model : BOOLEAN,
                    embedding_api_key : BOOLEAN, embedding_bedrock : Credentials]

\* The thresholds are compared with each other only.
NotificationFields == [notification_provider : Texts(KnownNotificationProviders),
                       slack : BOOLEAN, discord : BOOLEAN, critical : BOOLEAN, warning : BOOLEAN,
                       warning_threshold : {"unset", "below", "above"}]

ExposureFields == [otel_enabled : BOOLEAN, otel_endpoint : BOOLEAN, public_usage : BOOLEAN,
                   any_origin : BOOLEAN]

\* What the fields that the checks and the selectors tell apart may hold.
Fits(s) ==
  /\ s.env \in Texts(KnownEnvs) /\ s.database_engine \in Texts(KnownEngines)
  /\ s.storage_type \in Texts(KnownStorageTypes)
  /\ s.vector_store_type \in Texts(KnownVectorStoreTypes)
  /\ s.broker_type \in Texts(KnownBrokerTypes)
  /\ s.llm_provider \in Texts(KnownLlmProviders)
  /\ s.embedding_provider \in Texts(KnownEmbeddingProviders)
  /\ s.notification_provider \in Texts(KnownNotificationProviders)
  /\ \A c \in {s.s3, s.minio, s.dynamodb, s.s3vectors, s.sqs, s.llm_bedrock,
              s.embedding_bedrock} : c \in Credentials
  /\ s.warning_threshold \in {"unset", "below", "above"}

-----------------------------------------------------------------------------
(* _validate_environment_safety: every check runs, and one error refuses.  *)

Strict(s) == Lowered(s.env) \in StrictEnvs

\* t is set to something the validator does not know.
Unknown(t, known) == Stripped(t) # "" /\ Stripped(t) \notin known

EnvironmentSafe(s) ==
  /\ Lowered(s.env) \in KnownEnvs
  /\ Lowered(s.database_engine) \in KnownEngines
  /\ Strict(s) => /\ ~s.database_defaults
                  /\ s.secrets # "generated"
                  /\ s.bootstrap # "admin"
                  /\ s.dynamodb_endpoint # "local"

RealmsApart(s) ==
  /\ s.hs256
  /\ s.secrets \notin {"equal", "weak"}
  /\ s.issuers_differ /\ s.audiences_differ
  /\ s.bootstrap # "empty"

StorageCoupled(s) ==
  /\ ~Unknown(s.storage_type, KnownStorageTypes)
  /\ s.s3 # "some" /\ s.minio # "some"
  /\ Stripped(s.storage_type) = "s3" => Complete(s.s3)
  /\ Stripped(s.storage_type) = "minio" => Complete(s.minio)

NosqlComplete(s) == s.dynamodb # "some"

\* mutant: the vector store's name is checked, not the credentials it needs
VectorsNamed(s) ==
  /\ ~Unknown(s.vector_store_type, KnownVectorStoreTypes)
  /\ s.s3vectors # "some"

VectorsCoupled(s) ==
  /\ ~Unknown(s.vector_store_type, KnownVectorStoreTypes)
  /\ s.s3vectors # "some"
  /\ Stripped(s.vector_store_type) = "s3vectors" => Complete(s.s3vectors)

BrokerCoupled(s) ==
  /\ Strict(s) => Stripped(s.broker_type) # ""
  /\ ~Unknown(s.broker_type, KnownBrokerTypes)
  /\ Stripped(s.broker_type) = "sqs" => Complete(s.sqs)
  /\ Stripped(s.broker_type) = "rabbitmq" => s.rabbitmq_url

LlmCoupled(s) ==
  /\ ~Unknown(s.llm_provider, KnownLlmProviders)
  /\ Stripped(s.llm_provider) \in {"openai", "anthropic"} => s.llm_api_key
  /\ Stripped(s.llm_provider) = "bedrock" => Complete(s.llm_bedrock)

EmbeddingCoupled(s) ==
  /\ ~Unknown(s.embedding_provider, KnownEmbeddingProviders)
  /\ Stripped(s.embedding_provider) = "openai" => s.embedding_api_key
  /\ Stripped(s.embedding_provider) = "bedrock" => Complete(s.embedding_bedrock)

NotificationCoupled(s) ==
  LET provider == Stripped(s.notification_provider)
  IN  /\ ~Unknown(s.notification_provider, KnownNotificationProviders)
      /\ provider = "slack" => s.slack
      /\ provider = "discord" => s.discord
      /\ provider = "" => ~s.slack /\ ~s.discord /\ s.warning_threshold = "unset"
      /\ s.warning_threshold # "above"
      /\ s.critical \/ s.warning => provider # "" /\ s.warning_threshold # "unset"

ExposureSafe(s) ==
  /\ s.otel_enabled => s.otel_endpoint
  /\ Strict(s) => ~s.public_usage /\ ~s.any_origin

Accepted(s) == /\ EnvironmentSafe(s) /\ RealmsApart(s) /\ StorageCoupled(s) /\ NosqlComplete(s)
               /\ VectorsCoupled(s) /\ BrokerCoupled(s) /\ LlmCoupled(s) /\ EmbeddingCoupled(s)
               /\ NotificationCoupled(s) /\ ExposureSafe(s)

-----------------------------------------------------------------------------
(* What the properties of the settings and the containers make of them:    *)
(* "none", "stub", "real", "hollow" (built, but unable to serve a call),   *)
(* or "crash" (the selector has no such branch).                           *)

IsDev(s) == Lowered(s.env) \in {"quickstart", "dev", "local"}

\* storage_access_key and its siblings
StorageCredentials(s) == CASE Lowered(s.storage_type) = "s3" -> s.s3
                           [] Lowered(s.storage_type) = "minio" -> s.minio
                           [] OTHER -> "none"

\* The factory takes an absent credential for an empty one.
BuildStorageClient(c) == IF c = "all" THEN "real" ELSE "hollow"

StorageClient(s) == IF Truthy(s.storage_type) THEN BuildStorageClient(StorageCredentials(s)) ELSE "none"

DynamodbClient(s) == IF KeyTruthy(s.dynamodb) THEN "real" ELSE "none"

S3VectorClient(s) == IF KeyTruthy(s.s3vectors) THEN "real" ELSE "none"

\* (value or default).lower().strip() of the two selectors that have a default
Defaulted(v) == IF Truthy(v) THEN Stripped(v) ELSE "inmemory"

VectorStore(s) == CASE Defaulted(s.vector_store_type) = "inmemory" -> "memory"
                    [] Defaulted(s.vector_store_type) = "s3vectors" ->
                         IF S3VectorClient(s) = "real" THEN "real" ELSE "hollow"
                    [] OTHER -> "crash"

Broker(s) == CASE Defaulted(s.broker_type) = "inmemory" -> "inmemory"
               [] Defaulted(s.broker_type) = "rabbitmq" -> "rabbitmq"
               [] Defaulted(s.broker_type) = "sqs" ->
                    IF s.sqs = "all" /\ s.sqs_region THEN "sqs" ELSE "hollow"
               [] OTHER -> "crash"

\* embedding_model_name and llm_model_name: both halves, or nothing.
EmbeddingNamed(s) == Stripped(s.embedding_provider) # "" /\ s.embedding_model
LlmNamed(s) == Stripped(s.llm_provider) # "" /\ s.llm_model

\* Without credentials the library looks for some in the environment: meant
\* for google, ollama and sentence-transformers, hollow for bedrock.
BuildEmbeddingModel(s) ==
  IF Stripped(s.embedding_provider) = "bedrock" /\ ~KeyTruthy(s.embedding_bedrock)
  THEN "hollow" ELSE "real"

BuildLlmModel(s) ==
  IF Stripped(s.llm_provider) = "bedrock" /\ ~KeyTruthy(s.llm_bedrock) THEN "hollow" ELSE "real"

EmbeddingClient(s) == IF EmbeddingNamed(s) THEN BuildEmbeddingModel(s) ELSE "stub"

LlmModel(s) == IF LlmNamed(s) THEN BuildLlmModel(s) ELSE "stub"

\* The domains choose between the core's client and a stub of their own.
Embedder(s) == IF EmbeddingNamed(s) THEN EmbeddingClient(s) ELSE "stub"
AnswerAgent(s) == IF LlmNamed(s) THEN LlmModel(s) ELSE "stub"
Classifier(s) == IF LlmNamed(s) THEN LlmModel(s) ELSE "stub"

\* embedding_dimension looks the table up without strip(); the default is OpenAI's.
DimensionTable(s) ==
  CASE Lowered(s.embedding_provider) \in {"bedrock", "google"} -> Lowered(s.embedding_provider)
    [] Lowered(s.embedding_provider) \in {"ollama", "sentence-transformers"} -> "local"
    [] OTHER -> "openai"

\* notification_webhook_url: the URL of the provider, if there is one.
Webhook(s) == CASE Stripped(s.notification_provider) = "slack" /\ s.slack -> "slack"
                [] Stripped(s.notification_provider) = "discord" /\ s.discord -> "discord"
                [] OTHER -> "none"

\* _build_notification_client: the payload's format.
Adapter(s) == IF Stripped(s.notification_provider) = "discord" THEN "discord" ELSE "slack"

\* _notification_tier_selector: its own channel, the shared one, or disabled.
TierTarget(s, override, own) == IF override THEN own ELSE Webhook(s)

Routed(s) == s.warning_threshold # "unset"

\* Where the alerts of a tier end up.  Without a router only the critical
\* band exists, and it goes to the one client.
AlertTarget(s, tier) ==
  IF ~Routed(s) THEN IF tier = "critical" THEN Webhook(s) ELSE "none"
  ELSE IF tier = "critical" THEN TierTarget(s, s.critical, "critical")
  ELSE TierTarget(s, s.warning, "warning")

\* from_env looks the profile up under the text as it was written.
DatabaseProfile(s) == IF Verbatim(s.env) \in {"local", "dev", "stg", "prod"} THEN Verbatim(s.env)
                                                                             ELSE "local"

HttpProfile(s) == IF Verbatim(s.env) = "prod" THEN "prod" ELSE "other"

ConnectTimeouts(s) == /\ Verbatim(s.env) \in StrictEnvs
                      /\ Verbatim(s.database_engine) \in {"postgresql", "mysql"}

=============================================================================
