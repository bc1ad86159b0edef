---------------------------- MODULE Configuration ----------------------------
(***************************************************************************)
(* CrawlerConfig (crates/fc-core/src/config.rs): a TOML file, environment  *)
(* variables layered on top, and serde.  A setting is a path of a section  *)
(* and a key; a layer gives some of them a value that converts to the type *)
(* of the field ("file", "env") or not ("bad").  Paths that no struct has  *)
(* are ignored, as serde does without deny_unknown_fields.                 *)
(***************************************************************************)
EXTENDS FiniteSets

CONSTANTS
  ConfigFile,  \* the files that may lie at the path, as layers
  NoFile,      \* no file, or one that is not TOML
  Invalid,     \* Err(CrawlError::Config)
  Environment  \* the environments the program may be started in, as layers

\* What a layer may say of a path.
ASSUME LayerAssumption ==
  /\ \A file \in ConfigFile : \A p \in DOMAIN file : file[p] \in {"file", "bad"}
  /\ \A env \in Environment : \A p \in DOMAIN env : env[p] \in {"env", "bad"}

CoreConfig == {"concurrency", "depth", "request_timeout_secs", "user_agent",
               "follow_redirects", "max_redirects", "max_body_bytes",
               "respect_robots_txt"}
SchedulerConfig == {"max_queue_size", "priority_mode"}
DedupConfig == {"bloom_capacity", "bloom_fpr"}
RateLimiterConfig == {"default_rps", "burst", "per_domain"}
ProxyConfig == {"enabled", "rotation", "proxies", "failure_threshold",
                "quarantine_secs"}
ExportConfig == {"sink", "output_dir", "parquet_batch_size"}
ClickHouseConfig == {"url", "database", "table", "username", "password", "batch_size"}
RedisConfig == {"url", "stream", "consumer_group", "visibility_timeout_secs",
                "read_batch_size"}
ApiConfig == {"host", "port", "auth_token", "trace_requests"}

\* The sections; "export.clickhouse" is a table inside "export".
CrawlerConfig ==
  [s \in {"crawler", "scheduler", "dedup", "rate_limiter", "proxy", "export",
          "export.clickhouse", "redis", "api"} |->
     CASE s = "crawler" -> CoreConfig
       [] s = "scheduler" -> SchedulerConfig
       [] s = "dedup" -> DedupConfig
       [] s = "rate_limiter" -> RateLimiterConfig
       [] s = "proxy" -> ProxyConfig
       [] s = "export" -> ExportConfig
       [] s = "export.clickhouse" -> ClickHouseConfig
       [] s = "redis" -> RedisConfig
       [] s = "api" -> ApiConfig]

Section == DOMAIN CrawlerConfig
Field == UNION {{s} \X CrawlerConfig[s] : s \in Section}

\* An error is not a configuration.
ASSUME InvalidAssumption == Invalid \notin [Field -> {"env", "file", "default"}]

\* The fields that may be missing in a table: #[serde(default)], and an Option.
Optional == {<<"rate_limiter", "per_domain">>, <<"api", "auth_token">>}

VARIABLES
  layers,      \* the file and the environment of the last load
  config       \* what it returned: the source of each field's value, or Invalid

configVars == <<layers, config>>

NoLayers == [file |-> NoFile, env |-> <<>>]
Defaults == [f \in Field |-> "default"]

ConfigInit == layers = NoLayers /\ config = Defaults

-----------------------------------------------------------------------------
\* Mutant: the later source wins, table by table.
MergedByTable(file, env) ==
  [p \in {q \in DOMAIN file : \A e \in DOMAIN env : e[1] # q[1]} \cup DOMAIN env |->
     IF p \in DOMAIN env THEN env[p] ELSE file[p]]

\* Config::builder: the later source wins, path by path.
Merged(file, env) ==
  [p \in DOMAIN file \cup DOMAIN env |-> IF p \in DOMAIN env THEN env[p] ELSE file[p]]

\* The tables of the merged layers; a table inside another makes that one a table.
Tables(given) ==
  {p[1] : p \in DOMAIN given}
    \cup IF \E p \in DOMAIN given : p[1] = "export.clickhouse" THEN {"export"} ELSE {}

\* A section that no layer mentions is its struct's Default; in one that is
\* mentioned each value must convert and only optional fields may be missing.
Deserializes(given) ==
  \A f \in Field :
    f[1] \in Tables(given) =>
      IF f \in DOMAIN given THEN given[f] # "bad" ELSE f \in Optional

\* CrawlerConfig::load(path).
Load(file, env) ==
  /\ layers' = [file |-> file, env |-> env]
  /\ config' =
       IF file # NoFile /\ Deserializes(Merged(file, env))
       THEN LET given == Merged(file, env)
            IN  [f \in Field |-> IF f \in DOMAIN given THEN given[f] ELSE "default"]
       ELSE Invalid

\* CrawlerConfig::default_config(): no layer is read.
DefaultConfig == layers' = NoLayers /\ config' = Defaults

ConfigNext ==
  \/ \E file \in ConfigFile \cup {NoFile}, env \in Environment : Load(file, env)
  \/ DefaultConfig

ConfigSpec == ConfigInit /\ [][ConfigNext]_configVars

-----------------------------------------------------------------------------
\* Overrides are layered on top key by key (config.rs:50-52): if a file loads by
\* itself, variables of the right type for keys of its own tables never fail the
\* load, though they give each table only in part.
OverridesSpoilNothing ==
  /\ layers.file # NoFile
  /\ Deserializes(layers.file)
  /\ \A p \in DOMAIN layers.env : p[1] \in Tables(layers.file) /\ layers.env[p] = "env"
  => config # Invalid

\* "All structs implement Default so that a minimal config file that only
\* overrides a few keys still produces a fully-populated config" (config.rs:10):
\* a file whose values are all right loads, however few they are.
MinimalConfigLoads ==
  layers.file # NoFile
    /\ (\A f \in DOMAIN layers.file : layers.file[f] = "file")
    /\ (\A f \in DOMAIN layers.env : layers.env[f] = "env")
  => config # Invalid
=============================================================================
