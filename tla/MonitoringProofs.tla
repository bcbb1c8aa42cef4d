-------------------------- MODULE MonitoringProofs --------------------------
(***************************************************************************)
(* For every number of scrapes, retries and submissions: the types, that   *)
(* the worker waits for the schema, and that scraped gauges are fresh.     *)
(***************************************************************************)
EXTENDS Monitoring, TLAPS

\* A scrape has seen that Redis is away, and a refresh that has been made leaves
\* its gauge right, or the queue was away.
RefreshedIsRight ==
    \A s \in Scrapes : scrape[s].at = "refresh" =>
        /\ redis = "down" => scrape[s].cut
        /\ \A g \in Gauges \ scrape[s].todo :
             g \in scrape[s].right \/ (g = "queue_jobs" /\ scrape[s].cut)

\* What answers a probe has been migrated.
HealthyIsMigrated ==
    /\ api # "migrate" => schema
    /\ probe.at # "none" => schema
    /\ health.status = "healthy" => schema

\* The initial state has its types.
LEMMA MonitoringTypeInit == Init => MonitoringTypeOK
<1> SUFFICES ASSUME Init PROVE MonitoringTypeOK
  OBVIOUS
<1>1. health \in [status : {"starting", "healthy", "unhealthy"}, failed : 0 .. Retries,
                  young : BOOLEAN]
  BY MonitoringAssumption DEF Init, Fresh
<1>2. gauge \in [Gauges -> 0 .. MaxOpen + 1]
  BY MonitoringAssumption, SMT DEF Init
<1>3. scrape \in [Scrapes -> [at : {"none", "refresh"}, todo : SUBSET Gauges,
                              right : SUBSET Gauges, cut : BOOLEAN]]
  BY DEF Init, NoScrape
<1>4. open \in 0 .. MaxOpen
  BY MonitoringAssumption DEF Init
<1> QED BY <1>1, <1>2, <1>3, <1>4 DEF Init, NoProbe, MonitoringTypeOK

\* What a refresh returns fits its gauge.
LEMMA ValueTyped ==
    ASSUME MonitoringTypeOK, NEW g \in Gauges
    PROVE  Value(g) \in 0 .. MaxOpen + 1
BY MonitoringAssumption DEF MonitoringTypeOK, Gauges, Value

ScrapeType ==
    [Scrapes -> [at : {"none", "refresh"}, todo : SUBSET Gauges,
                 right : SUBSET Gauges, cut : BOOLEAN]]

\* Looking at the gauges keeps the type of the scrapes, and who is in flight.
LEMMA WitnessedTyped ==
    ASSUME NEW f \in ScrapeType
    PROVE  /\ Witnessed(f) \in ScrapeType
           /\ \A s \in Scrapes : /\ Witnessed(f)[s].at = f[s].at
                                 /\ Witnessed(f)[s].todo = f[s].todo
                                 /\ f[s].at = "none" => Witnessed(f)[s] = f[s]
BY DEF Witnessed, ScrapeType

\* A scrape in flight that finds Redis away remembers it.
LEMMA WitnessedCut ==
    ASSUME NEW f \in ScrapeType, NEW s \in Scrapes, f[s].at = "refresh", redis' = "down"
    PROVE  Witnessed(f)[s].cut
BY DEF Witnessed, ScrapeType

\* A gauge that was right stays so unless it is set, and is right when it is set
\* to what is the case; that Redis was away is not forgotten.
LEMMA WitnessedRight ==
    ASSUME NEW f \in ScrapeType, NEW s \in Scrapes, f[s].at = "refresh",
           NEW g \in Gauges
    PROVE  /\ g \in f[s].right /\ gauge'[g] = gauge[g] => g \in Witnessed(f)[s].right
           /\ gauge'[g] = Value(g)' => g \in Witnessed(f)[s].right
           /\ f[s].cut => Witnessed(f)[s].cut
BY DEF Witnessed, ScrapeType

MonitoringInv ==
    MonitoringTypeOK /\ HealthyIsMigrated /\ WorkerNeedsSchema /\ RefreshedIsRight

\* A restart has no scrape in flight.
LEMMA RestartsTyped ==
    ASSUME MonitoringTypeOK, Restarts, schema' \in BOOLEAN
    PROVE  MonitoringTypeOK'
<1>1. health' \in [status : {"starting", "healthy", "unhealthy"}, failed : 0 .. Retries,
                   young : BOOLEAN]
  BY MonitoringAssumption DEF Restarts, Fresh
<1>2. gauge' \in [Gauges -> 0 .. MaxOpen + 1]
  BY MonitoringAssumption, SMT DEF Restarts
<1>3. scrape' \in [Scrapes -> [at : {"none", "refresh"}, todo : SUBSET Gauges,
                               right : SUBSET Gauges, cut : BOOLEAN]]
  BY DEF Restarts, NoScrape
<1> QED BY <1>1, <1>2, <1>3 DEF Restarts, NoProbe, MonitoringTypeOK, world

\* Failed and successful probes keep the type of the health status.
LEMMA ProbeTyped ==
    ASSUME MonitoringTypeOK, ProbeFails \/ ProbeSucceeds
    PROVE  /\ health' \in [status : {"starting", "healthy", "unhealthy"}, failed : 0 .. Retries,
                            young : BOOLEAN]
           /\ probe' = NoProbe
<1>t. /\ health \in [status : {"starting", "healthy", "unhealthy"}, failed : 0 .. Retries,
                      young : BOOLEAN]
      /\ Retries \in Nat /\ 0 \in 0 .. Retries /\ Retries \in 0 .. Retries
  BY MonitoringAssumption DEF MonitoringTypeOK
<1>1. CASE ProbeSucceeds
  BY <1>1, <1>t DEF ProbeSucceeds
<1>2. CASE ProbeFails
  <2>1. health.failed \in 0 .. Retries
    BY <1>t
  <2>2. health.failed + 1 < Retries => health.failed + 1 \in 0 .. Retries
    BY <2>1, <1>t
  <2> QED BY <1>2, <1>t, <2>2 DEF ProbeFails
<1> QED BY <1>1, <1>2

\* Every step keeps the types.
LEMMA MonitoringTypeStep == MonitoringTypeOK /\ [Next]_vars => MonitoringTypeOK'
<1> SUFFICES ASSUME MonitoringTypeOK, [Next]_vars PROVE MonitoringTypeOK'
  OBVIOUS
<1> USE DEF world, container, metrics
<1>t. scrape \in ScrapeType
  BY DEF MonitoringTypeOK, ScrapeType
<1>w. ASSUME scrape' = Witnessed(scrape), api' = api
      PROVE  /\ scrape' \in ScrapeType
             /\ api' # "listening" => \A s \in Scrapes : scrape'[s] = NoScrape
  <2>1. scrape' \in ScrapeType
    BY <1>t, <1>w, WitnessedTyped
  <2>2. ASSUME api' # "listening", NEW s \in Scrapes PROVE scrape'[s] = NoScrape
    <3>1. scrape[s] = NoScrape
      BY <1>w, <2>2 DEF MonitoringTypeOK
    <3>2. scrape[s].at = "none"
      BY <3>1 DEF NoScrape
    <3> QED BY <1>t, <1>w, <3>1, <3>2, WitnessedTyped
  <2> QED BY <2>1, <2>2
<1>1. CASE RedisToggles
  BY <1>1, <1>w DEF RedisToggles, Toggles, MonitoringTypeOK, ScrapeType
<1>2. CASE DatabaseToggles
  BY <1>2, <1>w DEF DatabaseToggles, Toggles, MonitoringTypeOK, ScrapeType
<1>3. CASE WorkChanges
  BY <1>3, <1>w DEF WorkChanges, MonitoringTypeOK, ScrapeType
<1>4. CASE Migrates
  BY <1>4 DEF Migrates, MonitoringTypeOK
<1>5. CASE Starts
  BY <1>5 DEF Starts, MonitoringTypeOK
<1>6. CASE Exits
  BY <1>6, RestartsTyped DEF Exits, MonitoringTypeOK
<1>7. CASE ProbeStarts
  <2>1. CASE api = "listening"
    BY <1>7, <2>1 DEF ProbeStarts, MonitoringTypeOK, NoProbe
  <2>2. CASE api # "listening"
    BY <1>7, <2>2, ProbeTyped DEF ProbeStarts, MonitoringTypeOK, NoProbe
  <2> QED BY <2>1, <2>2
<1>8. CASE ReadinessCounts
  BY <1>8 DEF ReadinessCounts, MonitoringTypeOK
<1>9. CASE ReadinessPings
  BY <1>9, ProbeTyped DEF ReadinessPings, MonitoringTypeOK, NoProbe
<1>10. CASE ProbeTimesOut
  BY <1>10, ProbeTyped DEF ProbeTimesOut, MonitoringTypeOK, NoProbe
<1>11. CASE StartPeriodEnds
  BY <1>11 DEF StartPeriodEnds, MonitoringTypeOK
<1>12. CASE ComposeStartsWorker
  BY <1>12 DEF ComposeStartsWorker, MonitoringTypeOK
<1>13. ASSUME NEW s \in Scrapes, ScrapeStarts(s) PROVE MonitoringTypeOK'
  <2> DEFINE f == [scrape EXCEPT ![s] = [NoScrape EXCEPT !.at = "refresh", !.todo = Gauges]]
  <2>1. f \in ScrapeType
    BY <1>t DEF ScrapeType, NoScrape
  <2> QED BY <1>13, <2>1, WitnessedTyped DEF ScrapeStarts, MonitoringTypeOK, ScrapeType
<1>14. ASSUME NEW s \in Scrapes, NEW g \in Gauges, Refreshes(s, g) PROVE MonitoringTypeOK'
  <2> DEFINE f == [scrape EXCEPT ![s].todo = @ \ {g}]
  <2>1. f \in ScrapeType
    BY <1>t DEF ScrapeType
  <2>2. gauge' \in [Gauges -> 0 .. MaxOpen + 1]
    BY <1>14, ValueTyped DEF Refreshes, MonitoringTypeOK
  <2>3. api = "listening"
    BY <1>14 DEF Refreshes, MonitoringTypeOK, NoScrape
  <2>4. Witnessed(f) \in ScrapeType
    BY <2>1, WitnessedTyped
  <2> QED BY <1>14, <2>2, <2>3, <2>4 DEF Refreshes, MonitoringTypeOK, ScrapeType
<1>15. ASSUME NEW s \in Scrapes, QueueRefreshFails(s) PROVE MonitoringTypeOK'
  <2>1. api = "listening"
    BY <1>15 DEF QueueRefreshFails, MonitoringTypeOK, NoScrape
  <2> QED BY <1>15, <2>1 DEF QueueRefreshFails, MonitoringTypeOK
<1>16. ASSUME NEW s \in Scrapes, ScrapeAnswers(s) PROVE MonitoringTypeOK'
  BY <1>16 DEF ScrapeAnswers, MonitoringTypeOK, NoScrape
<1>17. CASE UNCHANGED vars
  BY <1>17 DEF vars, MonitoringTypeOK
<1> QED BY <1>1, <1>2, <1>3, <1>4, <1>5, <1>6, <1>7, <1>8, <1>9, <1>10, <1>11, <1>12,
           <1>13, <1>14, <1>15, <1>16, <1>17 DEF Next

\* Only a process that has been migrated makes the container healthy, and only
\* then is the worker started; no step takes the schema away.
LEMMA MigratedStep ==
    MonitoringTypeOK /\ HealthyIsMigrated /\ WorkerNeedsSchema /\ [Next]_vars
        => HealthyIsMigrated' /\ WorkerNeedsSchema'
<1> SUFFICES ASSUME MonitoringTypeOK, HealthyIsMigrated, WorkerNeedsSchema, [Next]_vars
             PROVE  HealthyIsMigrated' /\ WorkerNeedsSchema'
  OBVIOUS
<1> USE DEF HealthyIsMigrated, WorkerNeedsSchema, world, container, metrics
<1>1. CASE RedisToggles \/ DatabaseToggles \/ WorkChanges
  BY <1>1 DEF RedisToggles, DatabaseToggles, WorkChanges
<1>2. CASE Migrates \/ Starts
  BY <1>2 DEF Migrates, Starts
<1>3. CASE Exits
  BY <1>3 DEF Exits, Restarts, Fresh, NoProbe
<1>p. ASSUME ProbeFails PROVE /\ health'.status = "healthy" => health.status = "healthy"
                              /\ probe'.at = "none"
  BY <1>p DEF ProbeFails, NoProbe, MonitoringTypeOK
<1>4. CASE ProbeStarts
  BY <1>4, <1>p DEF ProbeStarts, NoProbe, MonitoringTypeOK
<1>5. CASE ReadinessCounts
  BY <1>5 DEF ReadinessCounts
<1>6. CASE ReadinessPings
  BY <1>6, <1>p DEF ReadinessPings, ProbeSucceeds, NoProbe, MonitoringTypeOK
<1>7. CASE ProbeTimesOut
  BY <1>7, <1>p DEF ProbeTimesOut, MonitoringTypeOK
<1>8. CASE StartPeriodEnds
  BY <1>8 DEF StartPeriodEnds, MonitoringTypeOK
<1>9. CASE ComposeStartsWorker
  BY <1>9 DEF ComposeStartsWorker
<1>10. ASSUME NEW s \in Scrapes,
              ScrapeStarts(s) \/ QueueRefreshFails(s) \/ ScrapeAnswers(s)
                \/ \E g \in Gauges : Refreshes(s, g)
       PROVE  HealthyIsMigrated' /\ WorkerNeedsSchema'
  BY <1>10 DEF ScrapeStarts, QueueRefreshFails, ScrapeAnswers, Refreshes
<1>11. CASE UNCHANGED vars
  BY <1>11 DEF vars
<1> QED BY <1>1, <1>2, <1>3, <1>4, <1>5, <1>6, <1>7, <1>8, <1>9, <1>10, <1>11 DEF Next

\* Every step keeps refreshed gauges right.
LEMMA RefreshedStep ==
    MonitoringTypeOK /\ RefreshedIsRight /\ [Next]_vars => RefreshedIsRight'
<1> SUFFICES ASSUME MonitoringTypeOK, RefreshedIsRight, [Next]_vars
             PROVE  RefreshedIsRight'
  OBVIOUS
<1> USE DEF world, container, metrics
<1>t. scrape \in ScrapeType
  BY DEF MonitoringTypeOK, ScrapeType
<1>w. ASSUME scrape' = Witnessed(scrape), gauge' = gauge PROVE RefreshedIsRight'
  <2>c. ASSUME NEW s \in Scrapes, scrape'[s].at = "refresh", redis' = "down"
        PROVE  scrape'[s].cut
    BY <1>w, <2>c, <1>t, WitnessedTyped, WitnessedCut
  <2> SUFFICES ASSUME NEW s \in Scrapes, scrape'[s].at = "refresh",
                      NEW g \in Gauges \ scrape'[s].todo
               PROVE  g \in scrape'[s].right \/ (g = "queue_jobs" /\ scrape'[s].cut)
    BY <2>c DEF RefreshedIsRight
  <2>1. scrape[s].at = "refresh" /\ scrape[s].todo = scrape'[s].todo
    BY <1>t, <1>w, WitnessedTyped
  <2>2. g \in scrape[s].right \/ (g = "queue_jobs" /\ scrape[s].cut)
    BY <2>1 DEF RefreshedIsRight
  <2> QED BY <1>t, <1>w, <2>1, <2>2, WitnessedRight
<1>1. CASE RedisToggles \/ DatabaseToggles \/ WorkChanges
  BY <1>1, <1>w DEF RedisToggles, DatabaseToggles, WorkChanges
<1>2. CASE Migrates \/ Starts \/ ProbeStarts \/ ReadinessCounts \/ ReadinessPings
             \/ ProbeTimesOut \/ StartPeriodEnds \/ ComposeStartsWorker
  BY <1>2 DEF Migrates, Starts, ProbeStarts, ReadinessCounts, ReadinessPings, ProbeTimesOut,
              StartPeriodEnds, ComposeStartsWorker, RefreshedIsRight
<1>3. CASE Exits
  BY <1>3 DEF Exits, Restarts, NoScrape, RefreshedIsRight
<1>4. ASSUME NEW q \in Scrapes, ScrapeStarts(q) PROVE RefreshedIsRight'
  <2> DEFINE f == [scrape EXCEPT ![q] = [NoScrape EXCEPT !.at = "refresh", !.todo = Gauges]]
  <2>1. f \in ScrapeType /\ scrape' = Witnessed(f) /\ gauge' = gauge
    BY <1>4, <1>t DEF ScrapeStarts, ScrapeType, NoScrape
  <2>c. ASSUME NEW s \in Scrapes, scrape'[s].at = "refresh", redis' = "down"
        PROVE  scrape'[s].cut
    BY <2>1, <2>c, <1>t, WitnessedTyped, WitnessedCut
  <2> SUFFICES ASSUME NEW s \in Scrapes, scrape'[s].at = "refresh",
                      NEW g \in Gauges \ scrape'[s].todo
               PROVE  g \in scrape'[s].right \/ (g = "queue_jobs" /\ scrape'[s].cut)
    BY <2>c DEF RefreshedIsRight
  <2>2. f[s].at = "refresh" /\ f[s].todo = scrape'[s].todo
    BY <2>1, WitnessedTyped
  <2>3. s # q
    BY <1>t, <2>2 DEF ScrapeType, NoScrape
  <2>4. f[s] = scrape[s]
    BY <2>3
  <2>5. g \in f[s].right \/ (g = "queue_jobs" /\ f[s].cut)
    BY <2>2, <2>4 DEF RefreshedIsRight
  <2> HIDE DEF f
  <2> QED BY <2>1, <2>2, <2>5, WitnessedRight
<1>5. ASSUME NEW q \in Scrapes, NEW h \in Gauges, Refreshes(q, h) PROVE RefreshedIsRight'
  <2> DEFINE f == [scrape EXCEPT ![q].todo = @ \ {h}]
  <2>1. f \in ScrapeType /\ scrape' = Witnessed(f)
    BY <1>5, <1>t DEF Refreshes, ScrapeType
  <2>c. ASSUME NEW s \in Scrapes, scrape'[s].at = "refresh", redis' = "down"
        PROVE  scrape'[s].cut
    BY <2>1, <2>c, <1>t, WitnessedTyped, WitnessedCut
  <2> SUFFICES ASSUME NEW s \in Scrapes, scrape'[s].at = "refresh",
                      NEW g \in Gauges \ scrape'[s].todo
               PROVE  g \in scrape'[s].right \/ (g = "queue_jobs" /\ scrape'[s].cut)
    BY <2>c DEF RefreshedIsRight
  <2>2. f[s].at = "refresh" /\ f[s].todo = scrape'[s].todo
    BY <2>1, WitnessedTyped
  <2>3. /\ scrape[s].at = "refresh" /\ f[s].right = scrape[s].right /\ f[s].cut = scrape[s].cut
        /\ g # h => g \notin scrape[s].todo \/ s # q
        /\ s # q => f[s] = scrape[s]
    BY <2>2, <1>t DEF ScrapeType
  <2>4. CASE g = h
    <3>1. gauge'[g] = Value(g)'
      BY <1>5, <2>4 DEF Refreshes, MonitoringTypeOK, Value
    <3> HIDE DEF f
    <3> QED BY <2>1, <2>2, <3>1, WitnessedRight
  <2>5. CASE g # h
    <3>1. g \notin scrape[s].todo
      BY <2>2, <2>3, <2>5
    <3>2. g \in f[s].right \/ (g = "queue_jobs" /\ f[s].cut)
      BY <2>3, <3>1 DEF RefreshedIsRight
    <3>3. gauge'[g] = gauge[g]
      BY <1>5, <2>5 DEF Refreshes, MonitoringTypeOK
    <3> HIDE DEF f
    <3> QED BY <2>1, <2>2, <3>2, <3>3, WitnessedRight
  <2> QED BY <2>4, <2>5
<1>6. ASSUME NEW q \in Scrapes, QueueRefreshFails(q) PROVE RefreshedIsRight'
  BY <1>6 DEF QueueRefreshFails, MonitoringTypeOK, RefreshedIsRight
<1>7. ASSUME NEW q \in Scrapes, ScrapeAnswers(q) PROVE RefreshedIsRight'
  BY <1>7 DEF ScrapeAnswers, MonitoringTypeOK, NoScrape, RefreshedIsRight
<1>8. CASE UNCHANGED vars
  BY <1>8 DEF vars, RefreshedIsRight
<1> QED BY <1>1, <1>2, <1>3, <1>4, <1>5, <1>6, <1>7, <1>8 DEF Next

LEMMA MonitoringInvariant == Spec => []MonitoringInv
<1>1. Init => MonitoringInv
  <2> SUFFICES ASSUME Init PROVE MonitoringInv
    OBVIOUS
  <2>1. HealthyIsMigrated /\ WorkerNeedsSchema
    BY DEF Init, HealthyIsMigrated, WorkerNeedsSchema, Fresh, NoProbe
  <2>2. RefreshedIsRight
    BY DEF Init, RefreshedIsRight, NoScrape
  <2> QED BY <2>1, <2>2, MonitoringTypeInit DEF MonitoringInv
<1>2. MonitoringInv /\ [Next]_vars => MonitoringInv'
  BY MonitoringTypeStep, MigratedStep, RefreshedStep DEF MonitoringInv
<1> QED BY <1>1, <1>2, PTL DEF Spec

\* Every variable of Monitoring has its type, and a container that does not
\* listen has neither probe nor scrape in flight.
THEOREM MonitoringTypes == Spec => []MonitoringTypeOK
<1>1. MonitoringInv => MonitoringTypeOK
  BY DEF MonitoringInv
<1> QED BY <1>1, MonitoringInvariant, PTL

\* The judge worker is never started on a database without the schema.
THEOREM WorkerWaits == Spec => []WorkerNeedsSchema
<1>1. MonitoringInv => WorkerNeedsSchema
  BY DEF MonitoringInv
<1> QED BY <1>1, MonitoringInvariant, PTL

\* The gauges of an answered scrape are what was the case while it was in
\* flight, however many scrapes overlap.
THEOREM ScrapesAreFresh == Spec => GaugesAreFresh
<1> DEFINE Step ==
      \A s \in Scrapes : scrape[s].at = "refresh" /\ scrape'[s].at = "none" /\ api' = "listening" =>
         \A g \in Gauges : g \in scrape[s].right \/ (g = "queue_jobs" /\ scrape[s].cut)
<1>1. MonitoringInv /\ [Next]_vars => [Step]_vars
  <2> SUFFICES ASSUME MonitoringInv, Next,
                      NEW s \in Scrapes, scrape[s].at = "refresh", scrape'[s].at = "none",
                      api' = "listening", NEW g \in Gauges
               PROVE  g \in scrape[s].right \/ (g = "queue_jobs" /\ scrape[s].cut)
    OBVIOUS
  <2>1. scrape[s].todo = {}
    <3> USE DEF world, container, metrics
    <3>t. scrape \in ScrapeType
      BY DEF MonitoringInv, MonitoringTypeOK, ScrapeType
    <3>1. ASSUME scrape' = scrape PROVE FALSE
      BY <3>1
    <3>2. ASSUME NEW f \in ScrapeType, scrape' = Witnessed(f), f[s].at = "refresh" PROVE FALSE
      BY <3>2, WitnessedTyped
    <3>3. ~(RedisToggles \/ DatabaseToggles \/ WorkChanges)
      BY <3>t, <3>2 DEF RedisToggles, DatabaseToggles, WorkChanges
    <3>4. ~(Migrates \/ Starts \/ ProbeStarts \/ ReadinessCounts \/ ReadinessPings
             \/ ProbeTimesOut \/ StartPeriodEnds \/ ComposeStartsWorker)
      BY <3>1 DEF Migrates, Starts, ProbeStarts, ReadinessCounts, ReadinessPings, ProbeTimesOut,
              StartPeriodEnds, ComposeStartsWorker
    <3>5. ~Exits
      BY DEF Exits, Restarts
    <3>6. \A q \in Scrapes : ~ScrapeStarts(q)
      <4> SUFFICES ASSUME NEW q \in Scrapes, ScrapeStarts(q) PROVE FALSE
        OBVIOUS
      <4> DEFINE f == [scrape EXCEPT ![q] = [NoScrape EXCEPT !.at = "refresh", !.todo = Gauges]]
      <4>1. f \in ScrapeType /\ scrape' = Witnessed(f) /\ f[s].at = "refresh"
        BY <3>t DEF ScrapeStarts, ScrapeType, NoScrape
      <4> HIDE DEF f
      <4> QED BY <4>1, <3>2
    <3>7. \A q \in Scrapes, h \in Gauges : ~Refreshes(q, h)
      <4> SUFFICES ASSUME NEW q \in Scrapes, NEW h \in Gauges, Refreshes(q, h) PROVE FALSE
        OBVIOUS
      <4> DEFINE f == [scrape EXCEPT ![q].todo = @ \ {h}]
      <4>1. f \in ScrapeType /\ scrape' = Witnessed(f) /\ f[s].at = "refresh"
        BY <3>t DEF Refreshes, ScrapeType
      <4> HIDE DEF f
      <4> QED BY <4>1, <3>2
    <3>8. \A q \in Scrapes : ~QueueRefreshFails(q)
      BY <3>t DEF QueueRefreshFails, ScrapeType
    <3>9. \A q \in Scrapes : ScrapeAnswers(q) => scrape[s].todo = {}
      BY <3>t DEF ScrapeAnswers, ScrapeType
    <3> QED BY <3>3, <3>4, <3>5, <3>6, <3>7, <3>8, <3>9 DEF Next
  <2> QED BY <2>1 DEF MonitoringInv, RefreshedIsRight
<1>2. Spec => [][Step]_vars
  BY <1>1, MonitoringInvariant, PTL DEF Spec
<1> QED BY <1>2 DEF GaugesAreFresh

=============================================================================
