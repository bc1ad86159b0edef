--------------------------- MODULE MCConfiguration ---------------------------
(***************************************************************************)
(* Files and environments for TLC: the file of the repository and the one  *)
(* of its README, a complete file, and files that give one section, whole  *)
(* or in part, or a value of the wrong type.                               *)
(***************************************************************************)
EXTENDS Configuration

\* A file that gives these paths, all of the right type.
Giving(paths) == [p \in paths |-> "file"]

Whole(s) == {s} \X CrawlerConfig[s]

\* config/crawler.toml: every section but export.clickhouse, none of them whole
\* except the scheduler's, the filter's and the rate limiter's.
CrawlerToml ==
  Giving(
    ({"crawler"} \X {"concurrency", "depth", "request_timeout", "user_agent"})
    \cup Whole("scheduler") \cup Whole("dedup")
    \cup ({"rate_limiter"} \X {"default_rps", "burst"})
    \cup ({"proxy"} \X {"enabled", "rotation", "proxies"})
    \cup ({"export"} \X {"sink", "output_dir", "parquet_batch"})
    \cup ({"redis"} \X {"url", "stream", "consumer_group"})
    \cup ({"api"} \X {"host", "port"}))

\* README.md: the same, with a token and a [clickhouse] section on the top level.
ReadmeToml ==
  Giving(DOMAIN CrawlerToml \cup {<<"api", "auth_token">>}
           \cup ({"clickhouse"} \X {"url", "database", "table"}))

MCConfigFile ==
  {CrawlerToml, ReadmeToml, Giving({}), Giving(Field),
   [Giving(Field) EXCEPT ![<<"crawler", "concurrency">>] = "bad"],
   Giving({<<"rate_limiter", "burst">>, <<"rate_limiter", "default_rps">>}),
   Giving(Whole("export.clickhouse")), Giving(Whole("export")),
   Giving({<<"crawlers", "depth">>})}
    \cup {Giving(Whole(s)) : s \in {"crawler", "api"}}

Variable == {<<"crawler", "concurrency">>, <<"api", "auth_token">>,
             <<"export.clickhouse", "url">>, <<"api", "nonsense">>}

MCEnvironment == UNION {[paths -> {"env", "bad"}] : paths \in SUBSET Variable}
=============================================================================
