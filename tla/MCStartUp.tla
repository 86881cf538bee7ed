----------------------------- MODULE MCStartUp -----------------------------
(***************************************************************************)
(* Deployments for StartUp: one server under every setting of one group of *)
(* fields, and a few processes together under settings that are accepted.  *)
(***************************************************************************)
EXTENDS StartUp, TLC

Base == [env |-> Plain("local"), database_engine |-> Plain("sqlite"), database_defaults |-> TRUE,
         secrets |-> "generated", hs256 |-> TRUE, issuers_differ |-> TRUE,
         audiences_differ |-> TRUE, bootstrap |-> "off",
         storage_type |-> Unset, s3 |-> "none", minio |-> "none",
         dynamodb |-> "none", dynamodb_endpoint |-> "none",
         vector_store_type |-> Unset, s3vectors |-> "none",
         broker_type |-> Unset, sqs |-> "none", sqs_region |-> FALSE, rabbitmq_url |-> FALSE,
         llm_provider |-> Unset, llm_model |-> FALSE, llm_api_key |-> FALSE, llm_bedrock |-> "none",
         embedding_provider |-> Unset, embedding_model |-> FALSE, embedding_api_key |-> FALSE,
         embedding_bedrock |-> "none",
         notification_provider |-> Unset, slack |-> FALSE, discord |-> FALSE, critical |-> FALSE,
         warning |-> FALSE, warning_threshold |-> "unset",
         otel_enabled |-> FALSE, otel_endpoint |-> FALSE, public_usage |-> FALSE,
         any_origin |-> TRUE]

Prod == [Base EXCEPT !.env = Plain("prod"), !.database_engine = Plain("postgresql"),
                     !.database_defaults = FALSE, !.secrets = "given",
                     !.broker_type = Plain("rabbitmq"), !.rabbitmq_url = TRUE, !.any_origin = FALSE]

With(base, group) == {f @@ base : f \in group}

Variants == UNION {With(base, g) :
  base \in {Base, Prod, [Base EXCEPT !.env = Plain("quickstart")]},
  g \in {{e @@ d : e \in EnvFields, d \in DatabaseFields}, RealmFields, BootstrapFields, StorageFields, NosqlFields, VectorFields,
         BrokerFields, LlmFields, EmbeddingFields, NotificationFields, ExposureFields}}

Extras == {"admin", "sqs", "rabbitmq", "otel"}

Seeded(s) == [s EXCEPT !.bootstrap = "password", !.otel_enabled = TRUE, !.otel_endpoint = TRUE]

Deploy(s, x, ps, b, c) ==
  [settings |-> s, extras |-> x, procs |-> ps, builds |-> b, crashes |-> c]

MCDeployments ==
  {Deploy(s, Extras, {"server1"}, 1, 0) : s \in Variants}
    \union {Deploy(Seeded(s), x, ps, 2, 1) :
              s \in {Base, Prod}, x \in {Extras, Extras \ {"admin"}, Extras \ {"rabbitmq"}},
              ps \in {{"server1", "worker1"}, {"scheduler1"}}}
    \union {Deploy(Seeded(s), Extras, {"server1", "server2"}, 1, 1) : s \in {Base, Prod}}

MCKind == [p \in Procs |-> CASE p \in {"server1", "server2"} -> "server"
                             [] p = "worker1" -> "worker"
                             [] OTHER -> "scheduler"]

=============================================================================
