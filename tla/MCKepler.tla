------------------------------- MODULE MCKepler --------------------------------
EXTENDS KeplerRecovery

Repositories ==
    [pg |-> "postgres", rd |-> "redis", docs |-> "kepler/docs-search",
     gl |-> "gitlab/gitlab-ce", air |-> "apache/airflow", tr |-> "pytorch",
     f5 |-> "kepler/f5-tts-server", ai |-> "piper"]

Service(project, name, image, mount, pin) ==
    [project |-> project, service |-> name, image |-> image, mounts |-> {mount},
     network |-> "kepler", pin |-> pin, models |-> name = "docs"]

Services ==
    [postgres |-> Service("infra", "postgres", "pg", "/fast/postgres", "registry"),
     redis    |-> Service("infra", "redis", "rd", "infra_redis_data", "registry"),
     docs     |-> Service("docs-search", "docs", "docs", "/fast/models", "local")]

ReviewedLegacy ==
    [n \in {"redis"} |-> [image |-> "rd", mounts |-> {"homelab_redis_data"},
                          becomes |-> {"infra_redis_data"}]]

Container(project, name, image, mount, state) ==
    [id |-> 0, state |-> state, project |-> project, service |-> name, image |-> image,
     mounts |-> {mount}, network |-> IF project \in {"infra", "docs-search", "homelab"}
                                     THEN "kepler" ELSE "bridge"]

Volume(name, project, logical) == [name |-> name, project |-> project, logical |-> logical]

Redis(legacy, state) ==
    IF legacy THEN Container("homelab", "redis", "rd", "homelab_redis_data", state)
    ELSE Container("infra", "redis", "rd", "infra_redis_data", state)

\* A world has some of the containers; on a quiet one nobody interferes or fails.
Host(quiet, names, postgres, redis, legacy, docs) ==
    [quiet |-> quiet,
     containers |->
        [n \in names |->
            CASE n = "postgres" -> Container("infra", n, "pg", "/fast/postgres", postgres)
              [] n = "redis" -> Redis(legacy, redis)
              [] n = "docs" -> Container("docs-search", n, "docs", "/fast/models", docs)
              [] n = "gitlab" -> Container("gitlab", n, "gl", "/bulk/git", "exited")
              [] n = "airflow-worker" ->
                    Container("airflow", n, "air", "airflow_airflow_logs", "exited")
              [] n = "ha-train-run" -> Container("", "", "tr", "/fast/work", "exited")
              [] n = "f5-tts-server" -> Container("", "", "f5", "/fast/ai-models/f5-tts", "running")
              [] n = "piper" -> Container("ai-serving", n, "ai", "/fast/ai-models", "running")],
     volumes |-> {Volume("homelab_redis_data", "homelab", "redis_data"),
                  Volume("infra_redis_data", "infra", "redis_data"),
                  Volume("airflow_airflow_logs", "airflow", "airflow_logs"),
                  Volume("orchestration_restate_data", "orchestration", "restate_data")},
     images |-> DOMAIN Repositories,
     paths |-> {"/bulk/git", "/fast/ai-models", "/fast/ai-models/f5-tts"}]

Stack == {"postgres", "redis", "docs"}

\* A host to retire from; one that still serves AI, and a quiet one with something
\* to retire besides; hosts as they are judged before and after, with and without a
\* legacy Redis; and one whose F5 server still runs.
StartingWorlds ==
    {Host(FALSE, (Stack \ {"docs"}) \union {"gitlab", "airflow-worker", "ha-train-run"},
          "exited", "exited", TRUE, "exited"),
     Host(FALSE, Stack \union {"piper"}, "running", "running", FALSE, "running"),
     Host(TRUE, Stack \union {"ha-train-run", "piper"},
          "running", "running", FALSE, "running"),
     Host(TRUE, Stack \union {"ha-train-run", F5}, "exited", "exited", FALSE, "exited")}
    \union {Host(TRUE, Stack \union {"gitlab"}, s, s, legacy, s) :
                s \in {"exited", "running"}, legacy \in BOOLEAN}
    \union {Host(TRUE, Stack, s, s, FALSE, s) : s \in {"exited", "running"}}

Ai == [n \in {"piper"} |-> [id |-> 0, image |-> "ai"]]
================================================================================
