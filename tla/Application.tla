----------------------------- MODULE Application -----------------------------
(***************************************************************************)
(* The life of the process (app.py): main(), start() in dependency order,  *)
(* and stop(), which runs in main's place after a failed start and in a    *)
(* task of its own after a signal.                                         *)
(*                                                                         *)
(* The event loop runs other tasks only where a coroutine really waits:    *)
(* start() waits for the Kubernetes configuration, for the lists of the    *)
(* cache and for the LLM's health check, and makes everything else in one  *)
(* go.  stop() waits for the background tasks it cancels and for the two   *)
(* components whose stop() waits, the queue and the event watcher.         *)
(***************************************************************************)

VARIABLES
    main,       \* where main() is
    running,    \* _running
    triggered,  \* shutdown_triggered: the first signal came
    stopping,   \* where the stop() of each caller is: "task" or "main"
    made,       \* the attributes start() has set, as far as stop() uses them
    background, \* _background_tasks that are neither done nor cancelled
    live        \* activities that run by themselves: watch loops, workers
appVars == <<main, running, triggered, stopping, made, background, live>>

MainPlaces == {"configuring", "listing", "checking", "polling", "failing", "ended"}
StopPlaces == {"none", "due", "gathering", "queue", "collector", "done"}
Components == {"collector", "queue"}
Tasks == {"queue.start", "mcp", "rest", "gauge"}
Activities == {"eventWatch", "podWatch", "nodeWatch", "workers"}

AppTypeOK ==
    /\ main \in MainPlaces
    /\ running \in BOOLEAN /\ triggered \in BOOLEAN
    /\ stopping \in [{"task", "main"} -> StopPlaces]
    /\ made \subseteq Components
    /\ background \subseteq Tasks
    /\ live \subseteq Activities

AppInit ==
    /\ main = "configuring"
    /\ running = FALSE /\ triggered = FALSE
    /\ stopping = [caller \in {"task", "main"} |-> "none"]
    /\ made = {} /\ background = {} /\ live = {}

-----------------------------------------------------------------------------
Watches == {"eventWatch", "podWatch", "nodeWatch"}

(* _ComponentError: main() calls stop() and waits for it.  What start()    *)
(* has made by then depends on the component that fails.                   *)
StartFails ==
    /\ main \in {"configuring", "listing", "checking"}
    /\ main' = "failing"
    /\ stopping' = [stopping EXCEPT !["main"] = "due"]
    /\ \/ UNCHANGED <<made, background, live>>
       \/ /\ main # "configuring"
          /\ live' = live \cup Watches
          /\ \/ made' = {"collector"} /\ UNCHANGED background
             \/ made' = Components /\ background' \in {{"queue.start"}, {"queue.start", "mcp"}}
    /\ UNCHANGED <<running, triggered>>

\* _start_k8s_client(); the cache begins to list, and populate() never raises
Configured ==
    /\ main = "configuring"
    /\ main' = "listing"
    /\ UNCHANGED <<running, triggered, stopping, made, background, live>>

(* The rest of start() after the LLM: coordinator, queue, scout,           *)
(* notifications, MCP, REST, gauge.  Notifications and MCP may fail and    *)
(* are then left out.  running is set whatever has happened meanwhile.     *)
StartEnds(activities) ==
    /\ main' = "polling"
    /\ running' = TRUE
    /\ made' = Components
    /\ background' \in {Tasks, Tasks \ {"mcp"}}
    /\ live' = activities
    /\ UNCHANGED <<triggered, stopping>>

(* populate() is over: graph, ledger, watchers, rules, and the LLM is      *)
(* asked for its health; without an LLM start() does not wait again.       *)
Listed ==
    /\ main = "listing"
    /\ \/ /\ main' = "checking"
          /\ made' = {"collector"}
          /\ live' = live \cup Watches
          /\ UNCHANGED <<running, triggered, stopping, background>>
       \/ StartEnds(live \cup Watches)

\* the health check answers or fails
LLMChecked == main = "checking" /\ StartEnds(live)

\* _request_shutdown(): the first SIGTERM or SIGINT makes the shutdown task
Signal ==
    /\ main # "ended" /\ ~ triggered
    /\ triggered' = TRUE
    /\ stopping' = [stopping EXCEPT !["task"] = "due"]
    /\ UNCHANGED <<main, running, made, background, live>>

\* the task of queue.start() gets its turn
QueueStarts ==
    /\ "queue.start" \in background /\ main # "ended"
    /\ background' = background \ {"queue.start"}
    /\ live' = live \cup {"workers"}
    /\ UNCHANGED <<main, running, triggered, stopping, made>>

-----------------------------------------------------------------------------
\* what stop() turns to next once the background tasks are done
AfterGather == IF "queue" \in made THEN "queue"
               ELSE IF "collector" \in made THEN "collector" ELSE "done"

\* stop() up to its first wait: the background tasks are cancelled, and one
\* that has not begun never will; without any, stop() goes on at once
StopBegins(caller) ==
    /\ stopping[caller] = "due" /\ main # "ended"
    /\ running' = FALSE
    /\ stopping' = [stopping EXCEPT
                       ![caller] = IF background # {} THEN "gathering" ELSE AfterGather]
    /\ background' = {}
    /\ UNCHANGED <<main, triggered, made, live>>

\* gather() returns: the cancelled tasks are done
TasksGathered(caller) ==
    /\ stopping[caller] = "gathering"
    /\ stopping' = [stopping EXCEPT ![caller] = AfterGather]
    /\ UNCHANGED <<main, running, triggered, made, background, live>>

(* queue.stop() returns, or its grace period ends and it is cancelled;     *)
(* a queue that never started has nothing to stop.                         *)
QueueStopped(caller) ==
    /\ stopping[caller] = "queue"
    /\ live' \in {live, live \ {"workers"}}
    /\ stopping' = [stopping EXCEPT ![caller] = "collector"]
    /\ UNCHANGED <<main, running, triggered, made, background>>

\* the event watcher, the only one the application remembers, is stopped
CollectorStopped(caller) ==
    /\ stopping[caller] = "collector"
    /\ live' = live \ {"eventWatch"}
    /\ stopping' = [stopping EXCEPT ![caller] = "done"]
    /\ UNCHANGED <<main, running, triggered, made, background>>

\* Mutant: main() does not look at running again.
MainEndsNever ==
    /\ main = "failing" /\ stopping["main"] = "done"
    /\ main' = "ended"
    /\ background' = {} /\ live' = {}
    /\ UNCHANGED <<running, triggered, stopping, made>>

(* main() sees within a second that running is FALSE and returns, or its   *)
(* own stop() is over: asyncio.run() cancels whatever task is left, the    *)
(* shutdown task among them, wherever it is.                               *)
MainEnds ==
    /\ \/ main = "polling" /\ ~ running
       \/ main = "failing" /\ stopping["main"] = "done"
    /\ main' = "ended"
    /\ background' = {} /\ live' = {}
    /\ UNCHANGED <<running, triggered, stopping, made>>

-----------------------------------------------------------------------------
Starting == Configured \/ Listed \/ LLMChecked \/ StartFails
StopSteps(caller) ==
    /\ main # "ended"
    /\ \/ StopBegins(caller) \/ TasksGathered(caller)
       \/ QueueStopped(caller) \/ CollectorStopped(caller)

AppNext ==
    \/ Starting \/ Signal \/ QueueStarts
    \/ \E caller \in {"task", "main"} : StopSteps(caller)
    \/ MainEnds

(* Tasks that can go on get their turn, main()'s sleep ends, and every     *)
(* wait of stop() is bounded by the grace period.                          *)
AppFairness ==
    /\ WF_appVars(QueueStarts) /\ WF_appVars(MainEnds)
    /\ \A caller \in {"task", "main"} : WF_appVars(StopSteps(caller))

AppSpec == AppInit /\ [][AppNext]_appVars /\ AppFairness

-----------------------------------------------------------------------------
(* A signal whose shutdown task begins once start() is over ends the       *)
(* process, wherever stop() is then; so does a failed start.               *)
EndsOnceSignalled ==
    ((main = "polling" /\ stopping["task"] = "due") \/ main = "failing") ~> (main = "ended")

(* "Start KubeRCA and run until shutdown is requested": a process that has *)
(* got a signal and is up ends, whenever the signal came.                  *)
SignalEnds == (triggered /\ main = "polling") ~> (main = "ended")
=============================================================================
