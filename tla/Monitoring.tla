----------------------------- MODULE Monitoring -----------------------------
(***************************************************************************)
(* What looks at the API from outside: the health check of its container,  *)
(* which /health/ready answers and the judge worker waits for, and the     *)
(* scrapes of /metrics, while Redis, the database and the process itself   *)
(* fail and come back (docker-compose.yml, HealthController,               *)
(* MetricsController).                                                     *)
(***************************************************************************)
EXTENDS Naturals

CONSTANTS
    Watching,   \* who may look: docker's health check and some scrapes
    Scrapes,    \* scrapes that may overlap: one answers late, the next is sent
    Retries,    \* failed probes in a row until a container is unhealthy
    MaxOpen     \* bound: open submissions

ASSUME MonitoringAssumption ==
    /\ Watching \subseteq SUBSET (Scrapes \union {"docker"})
    /\ Retries \in Nat \ {0} /\ MaxOpen \in Nat

VARIABLES
    watching,   \* who does
    redis, db,  \* whether they are reached
    open,       \* submissions that wait for a verdict, each with its job
    schema,     \* the migrations have been applied to the database file
    api,        \* the step of the container's command
    worker,     \* whether compose has started the judge worker
    health,     \* the container's health status: status, failed probes, start_period
    probe,      \* the probe in flight: where its handler is, the database's status
    gauge,      \* the gauges as the registry has them
    scrape      \* per scrape: refreshes to come, gauges that were right meanwhile

world == <<watching, redis, db, open>>
container == <<schema, api, worker, health, probe>>
metrics == <<gauge, scrape>>
vars == <<world, container, metrics>>

Gauges == {"database_up", "submissions", "queue_jobs"}

\* What a query returns; submissions count as none when it fails.
Value(g) == CASE g = "database_up" -> IF db = "up" THEN 1 ELSE 0
              [] g = "submissions" -> IF db = "up" THEN open ELSE 0
              [] g = "queue_jobs"  -> open

Fresh == [status |-> "starting", failed |-> 0, young |-> TRUE]
NoProbe == [at |-> "none", database |-> "OK"]
NoScrape == [at |-> "none", todo |-> {}, right |-> {}, cut |-> FALSE]

Init ==
    /\ watching \in Watching
    /\ redis = "up" /\ db = "up" /\ open = 0
    /\ schema = FALSE /\ api = "migrate" /\ worker = "waiting"
    /\ health = Fresh /\ probe = NoProbe
    /\ gauge = [g \in Gauges |-> 0]
    /\ scrape = [s \in Scrapes |-> NoScrape]

-----------------------------------------------------------------------------
\* After a step: which gauges, as they are, have been right at some time since
\* the start of a scrape, and whether Redis has been away.
Witnessed(f) ==
    [s \in Scrapes |->
        IF f[s].at = "none" THEN f[s]
        ELSE [f[s] EXCEPT
                !.right = {g \in Gauges : \/ gauge'[g] = Value(g)'
                                          \/ g \in @ /\ gauge'[g] = gauge[g]},
                !.cut = @ \/ redis' = "down"]]

(* Outages, and work.                                                      *)

Toggles(state) == IF state = "up" THEN "down" ELSE "up"

RedisToggles ==
    /\ redis' = Toggles(redis)
    /\ UNCHANGED <<watching, db, open, container, gauge>>
    /\ scrape' = Witnessed(scrape)
DatabaseToggles ==
    /\ db' = Toggles(db)
    /\ UNCHANGED <<watching, redis, open, container, gauge>>
    /\ scrape' = Witnessed(scrape)
WorkChanges ==
    /\ redis = "up" /\ db = "up" /\ schema
    /\ open' \in {open - 1, open + 1} \intersect (0 .. MaxOpen)
    /\ UNCHANGED <<watching, redis, db, container, gauge>>
    /\ scrape' = Witnessed(scrape)

-----------------------------------------------------------------------------
(* The container: migrate deploy, (the seed script,) start:prod; it starts *)
(* again when a step fails or the process ends (restart: unless-stopped).  *)

Restarts ==
    /\ api' = "migrate" /\ health' = Fresh /\ probe' = NoProbe
    /\ gauge' = [g \in Gauges |-> 0]
    /\ scrape' = [s \in Scrapes |-> NoScrape]
    /\ UNCHANGED <<world, worker>>

Migrates ==
    /\ api = "migrate" /\ db = "up"
    /\ schema' = TRUE /\ api' = "start"
    /\ UNCHANGED <<world, worker, health, probe, metrics>>

\* Variant: the recovery waits for the verdicts of what it requeues.
StartsWhenJudged ==
    /\ api = "start" /\ db = "up" /\ open = 0
    /\ api' = "listening"
    /\ UNCHANGED <<world, schema, worker, health, probe, metrics>>

\* Prisma connects; the recovery waits for Redis if it has jobs to requeue.
Starts ==
    /\ api = "start" /\ db = "up" /\ (redis = "up" \/ open = 0)
    /\ api' = "listening"
    /\ UNCHANGED <<world, schema, worker, health, probe, metrics>>

\* Variant: the probe in flight is kept.
ExitsProbed ==
    /\ api = "listening" \/ db = "down"
    /\ api' = "migrate" /\ health' = Fresh
    /\ gauge' = [g \in Gauges |-> 0] /\ scrape' = [s \in Scrapes |-> NoScrape]
    /\ UNCHANGED <<world, worker, schema, probe>>

\* A step of the command failed, or the process has ended.
Exits ==
    /\ api = "listening" \/ db = "down"
    /\ Restarts /\ UNCHANGED schema

-----------------------------------------------------------------------------
(* The health check, one probe at a time.                                  *)

ProbeSucceeds ==
    /\ health' = [health EXCEPT !.status = "healthy", !.failed = 0]
    /\ probe' = NoProbe
\* Not counted in the start_period before the first success.
ProbeFails ==
    LET failed == health.failed + 1
        counts == ~health.young \/ health.status # "starting"
    IN /\ health' = IF ~counts THEN health
                    ELSE IF failed < Retries THEN [health EXCEPT !.failed = failed]
                    ELSE [health EXCEPT !.status = "unhealthy", !.failed = Retries]
       /\ probe' = NoProbe

ProbeStarts ==
    /\ probe.at = "none" /\ "docker" \in watching
    /\ IF api = "listening"
       THEN probe' = [NoProbe EXCEPT !.at = "database"] /\ UNCHANGED health
       ELSE ProbeFails
    /\ UNCHANGED <<world, schema, api, worker, metrics>>

\* readiness: the counts in their try.
ReadinessCounts ==
    /\ probe.at = "database"
    /\ probe' = [at |-> "queue", database |-> IF db = "up" THEN "OK" ELSE "DOWN"]
    /\ UNCHANGED <<world, schema, api, worker, health, metrics>>

\* Variant: the ping is not awaited.
ReadinessSkipsPing ==
    /\ probe.at = "queue"
    /\ IF probe.database = "OK" THEN ProbeSucceeds ELSE ProbeFails
    /\ UNCHANGED <<world, schema, api, worker, metrics>>

\* isReady: the connection (maxRetriesPerRequest: null) keeps the ping until
\* Redis is back.
ReadinessPings ==
    /\ probe.at = "queue" /\ redis = "up"
    /\ IF probe.database = "OK" THEN ProbeSucceeds ELSE ProbeFails
    /\ UNCHANGED <<world, schema, api, worker, metrics>>

\* After 5 s: the handler takes milliseconds unless it waits for something.
ProbeTimesOut ==
    /\ \/ probe.at = "database" /\ db = "down"
       \/ probe.at = "queue" /\ redis = "down"
    /\ ProbeFails
    /\ UNCHANGED <<world, schema, api, worker, metrics>>

StartPeriodEnds ==
    /\ health.young
    /\ health' = [health EXCEPT !.young = FALSE]
    /\ UNCHANGED <<world, schema, api, worker, probe, metrics>>

\* Variant: condition service_started.
ComposeStartsWorkerAtOnce ==
    /\ worker = "waiting"
    /\ worker' = "up"
    /\ UNCHANGED <<world, schema, api, health, probe, metrics>>

\* depends_on with condition service_healthy.
ComposeStartsWorker ==
    /\ worker = "waiting"
    /\ health.status = "healthy" /\ redis = "up"
    /\ worker' = "up"
    /\ UNCHANGED <<world, schema, api, health, probe, metrics>>

-----------------------------------------------------------------------------
(* The scrapes.                                                            *)

ScrapeStarts(s) ==
    /\ api = "listening" /\ scrape[s].at = "none" /\ s \in watching
    /\ UNCHANGED <<world, container, gauge>>
    /\ scrape' = Witnessed([scrape EXCEPT ![s] = [NoScrape EXCEPT !.at = "refresh", !.todo = Gauges]])

\* The three refreshes run at once; queries are answered in their order.
Refreshes(s, g) ==
    /\ g \in scrape[s].todo
    /\ g = "queue_jobs" => redis = "up"
    /\ gauge' = [gauge EXCEPT ![g] = Value(g)]
    /\ UNCHANGED <<world, container>>
    /\ scrape' = Witnessed([scrape EXCEPT ![s].todo = @ \ {g}])

\* getStats gives up (the queue's connection retries 20 times): kept as it is.
QueueRefreshFails(s) ==
    /\ "queue_jobs" \in scrape[s].todo /\ redis = "down"
    /\ scrape' = [scrape EXCEPT ![s].todo = @ \ {"queue_jobs"}]
    /\ UNCHANGED <<world, container, gauge>>

\* Variant: the refreshes are not awaited.
ScrapeAnswersAtOnce(s) ==
    /\ scrape[s].at = "refresh"
    /\ scrape' = [scrape EXCEPT ![s] = NoScrape]
    /\ UNCHANGED <<world, container, gauge>>

ScrapeAnswers(s) ==
    /\ scrape[s].at = "refresh" /\ scrape[s].todo = {}
    /\ scrape' = [scrape EXCEPT ![s] = NoScrape]
    /\ UNCHANGED <<world, container, gauge>>

Next ==
    \/ RedisToggles \/ DatabaseToggles \/ WorkChanges
    \/ Migrates \/ Starts \/ Exits
    \/ ProbeStarts \/ ReadinessCounts \/ ReadinessPings \/ ProbeTimesOut
    \/ StartPeriodEnds \/ ComposeStartsWorker
    \/ \E s \in Scrapes :
         \/ ScrapeStarts(s) \/ QueueRefreshFails(s) \/ ScrapeAnswers(s)
         \/ \E g \in Gauges : Refreshes(s, g)

\* A step of the command goes on while what it needs is there; docker keeps
\* probing, every probe ends, by its timeout at the latest, and so does the
\* start_period.
Fairness ==
    /\ WF_vars(Migrates) /\ WF_vars(Starts)
    /\ WF_vars(ProbeStarts) /\ WF_vars(ReadinessCounts \/ ReadinessPings \/ ProbeTimesOut)
    /\ WF_vars(StartPeriodEnds)

Spec == Init /\ [][Next]_vars /\ Fairness

-----------------------------------------------------------------------------
\* Every variable has its type; a probe or a scrape in flight has a process.
MonitoringTypeOK ==
    /\ watching \in Watching
    /\ redis \in {"up", "down"} /\ db \in {"up", "down"} /\ open \in 0 .. MaxOpen
    /\ schema \in BOOLEAN
    /\ api \in {"migrate", "start", "listening"} /\ worker \in {"waiting", "up"}
    /\ health \in [status : {"starting", "healthy", "unhealthy"}, failed : 0 .. Retries,
                   young : BOOLEAN]
    /\ probe \in [at : {"none", "database", "queue"}, database : {"OK", "DOWN"}]
    /\ gauge \in [Gauges -> 0 .. MaxOpen + 1]
    /\ scrape \in [Scrapes -> [at : {"none", "refresh"}, todo : SUBSET Gauges,
                               right : SUBSET Gauges, cut : BOOLEAN]]
    /\ api # "listening" =>
         /\ probe.at = "none"
         /\ \A s \in Scrapes : scrape[s] = NoScrape

\* The judge worker never runs on a database without the schema, whatever fails
\* while the deployment comes up.
WorkerNeedsSchema == worker = "up" => schema

\* A gauge in an answered scrape is what was the case at some time between its
\* start and its answer, also when scrapes overlap; only the queue's is an
\* earlier one, and only if Redis was away meanwhile.
GaugesAreFresh ==
    [][\A s \in Scrapes : scrape[s].at = "refresh" /\ scrape'[s].at = "none" /\ api' = "listening" =>
         \A g \in Gauges : g \in scrape[s].right \/ (g = "queue_jobs" /\ scrape[s].cut)]_vars

\* "While Redis or the database cannot be reached, the API is not marked healthy"
\* (docs/DEPLOYMENT_GUIDE.md): not for good.
OutageIsNoticed ==
    (<>[](redis = "down") \/ <>[](db = "down")) => <>[](health.status # "healthy")

\* When both stay reachable and the process stays up, docker's health check
\* finds the container healthy.
RecoveryIsNoticed ==
    ("docker" \in watching /\ <>[](redis = "up" /\ db = "up" /\ api # "migrate")) => <>[](health.status = "healthy")

=============================================================================
