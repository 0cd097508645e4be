--------------------------- MODULE PluginServing ---------------------------
(***************************************************************************)
(* ML plugins that serve predictions while their artifact changes:         *)
(* plugins/ml.py, plugins/registry.py, plugins/autoreload.py, the lifespan *)
(* of core/platform.py and the version registry of artifacts/registry.py.  *)
(*                                                                         *)
(* The version registry is a file that training jobs in other processes    *)
(* read, change and replace. In the serving process the coroutines give up *)
(* the event loop while they wait for a plugin's operation lock, while a   *)
(* plugin loads its model and while it predicts.                           *)
(***************************************************************************)
EXTENDS Naturals

CONSTANTS
  Plugin,      \* the registered plugins
  Version,     \* artifact versions
  Broken,      \* <<p, v>>: the load of version v by plugin p raises
  Writer,      \* calls of register_candidate, promote and rollback
  Call,        \* requests to the plugins' routes
  Watcher,     \* the polling task of PluginAutoReloader
  None,
  Partial      \* a model that load_model has begun to replace

ASSUME PluginServingAssumption ==
  /\ Broken \subseteq Plugin \X Version
  /\ Watcher \notin Call
  /\ None \notin Version \cup Call \cup {Watcher}
  /\ Partial \notin Version \cup {None}

VARIABLES
  file,        \* registry.json: the promoted version and each version's status
  copy,        \* what a writer has read from the file
  unloaded,    \* plugins the lifespan has yet to load
  stage,       \* the lifespan's: "starting", "serving", "stopped"
  observed,    \* PluginAutoReloader._last_observed_version
  todo,        \* plugins a reload has yet to go through
  lock,        \* BaseMLPlugin._operation_lock: who holds it
  model,       \* the model a plugin predicts with
  loaded,      \* BaseMLPlugin._is_loaded
  previous,    \* previous_state of the reload under way
  reading,     \* the version the load under way has read, None if there is none
  call,        \* what a request is doing
  target,      \* the plugin a prediction is asked of
  answering    \* the model a prediction under way began with

artifacts == <<file, copy>>
watcher == <<stage, observed>>
plugins == <<lock, model, loaded, previous, reading>>
requests == <<call, target, answering>>
vars == <<artifacts, unloaded, watcher, todo, plugins, requests>>

Actor == Call \cup {Watcher}

Status == {"none", "candidate", "active", "retired"}
File == [current : Version \cup {None}, status : [Version -> Status]]

\* No version was promoted, or one; others may have been registered.
Init ==
  /\ \E v \in Version \cup {None}, others \in SUBSET Version :
       file = [current |-> v,
               status |-> [u \in Version |-> CASE u = v -> "active"
                                               [] u # v /\ u \in others -> "candidate"
                                               [] OTHER -> "none"]]
  /\ copy = [w \in Writer |-> None]
  /\ unloaded = Plugin
  /\ stage = "starting"
  /\ observed = None
  /\ todo = [a \in Actor |-> {}]
  /\ lock = [p \in Plugin |-> None]
  /\ model = [p \in Plugin |-> None]
  /\ loaded = [p \in Plugin |-> FALSE]
  /\ previous = [p \in Plugin |-> [model |-> None, loaded |-> FALSE]]
  /\ reading = [p \in Plugin |-> None]
  /\ call = [c \in Call |-> "idle"]
  /\ target = [c \in Call |-> None]
  /\ answering = [c \in Call |-> None]

------------------------------------------------------------------------------
(* artifacts/registry.py: every change reads the whole file and replaces   *)
(* it, with no lock between processes.                                     *)

ReadFile(w) ==
  /\ copy[w] = None
  /\ copy' = [copy EXCEPT ![w] = file]
  /\ UNCHANGED <<file, unloaded, watcher, todo, plugins, requests>>

\* A writer that is done keeps Partial in place of its copy.
Save(w, new) ==
  /\ copy[w] \in File
  /\ file' = new
  /\ copy' = [copy EXCEPT ![w] = Partial]
  /\ UNCHANGED <<unloaded, watcher, todo, plugins, requests>>

\* register_candidate() of a fresh version id.
Register(w, v) ==
  /\ copy[w] \in File
  /\ copy[w].status[v] = "none"
  /\ Save(w, [copy[w] EXCEPT !.status[v] = "candidate"])

\* promote(), and rollback(), which promotes a version that was retired.
Promote(w, v) ==
  /\ copy[w] \in File
  /\ copy[w].status[v] # "none"
  /\ Save(w, [current |-> v,
              status |-> [u \in Version |->
                CASE u = v -> "active"
                  [] u # v /\ copy[w].status[u] = "active" -> "retired"
                  [] OTHER -> copy[w].status[u]]])

------------------------------------------------------------------------------
(* BaseMLPlugin: load_model, and reload_model under the operation lock.    *)

\* bug: reload_model runs beside the predictions.
bugLockFree(p) == TRUE

LockFree(p) == lock[p] = None

\* load_model until it waits: it has looked up the promoted version and begun
\* to replace the model.
LoadBegins(p) ==
  /\ reading' = [reading EXCEPT ![p] = file.current]
  /\ model' = [model EXCEPT ![p] = Partial]

Loads(p) == <<p, reading[p]>> \notin Broken

LoadReturns(p) ==
  /\ model' = [model EXCEPT ![p] = reading[p]]
  /\ loaded' = [loaded EXCEPT ![p] = TRUE]

\* A load that raises or is cancelled leaves the plugin as it was.
Restore(p) ==
  /\ model' = [model EXCEPT ![p] = previous[p].model]
  /\ loaded' = [loaded EXCEPT ![p] = previous[p].loaded]

LoadIsOver(p) == reading' = [reading EXCEPT ![p] = None]

\* One plugin at a time, in any order of registration. With nothing promoted
\* load_model raises before it changes anything.
Reload(a, p) ==
  /\ p \in todo[a]
  /\ LockFree(p)
  /\ \A q \in Plugin : lock[q] # a
  /\ IF file.current = None
       THEN /\ todo' = [todo EXCEPT ![a] = @ \ {p}]
            /\ UNCHANGED plugins
       ELSE /\ lock' = [lock EXCEPT ![p] = a]
            /\ previous' = [previous EXCEPT ![p] = [model |-> model[p], loaded |-> loaded[p]]]
            /\ LoadBegins(p)
            /\ UNCHANGED <<loaded, todo>>
  /\ UNCHANGED <<artifacts, unloaded, watcher, requests>>

\* bug: reload_all stops at the first plugin that fails.
bugLeft(a, p) == IF Loads(p) THEN todo[a] \ {p} ELSE {}

\* reload_all collects the errors and continues.
Left(a, p) == todo[a] \ {p}

Reloaded(a, p) ==
  /\ p \in todo[a] /\ lock[p] = a
  /\ IF Loads(p) THEN LoadReturns(p) ELSE Restore(p)
  /\ LoadIsOver(p)
  /\ lock' = [lock EXCEPT ![p] = None]
  /\ todo' = [todo EXCEPT ![a] = Left(a, p)]
  /\ UNCHANGED <<artifacts, unloaded, watcher, previous, requests>>

\* Cancellation of the coroutine that reloads.
Abandon(a) ==
  /\ todo' = [todo EXCEPT ![a] = {}]
  /\ \/ \E p \in todo[a] :
          /\ lock[p] = a
          /\ lock' = [lock EXCEPT ![p] = None]
          /\ Restore(p)
          /\ LoadIsOver(p)
          /\ UNCHANGED previous
     \/ /\ \A p \in Plugin : lock[p] # a
        /\ UNCHANGED plugins

------------------------------------------------------------------------------
(* The lifespan, and the polling task it starts last.                      *)

\* The lifespan loads the plugins one after the other, without their locks
\* and with nothing to restore.
StartupLoad(p) ==
  /\ p \in unloaded
  /\ \A q \in Plugin : reading[q] = None
  /\ IF file.current = None
       THEN /\ unloaded' = unloaded \ {p}
            /\ UNCHANGED <<model, reading>>
       ELSE /\ LoadBegins(p)
            /\ UNCHANGED unloaded
  /\ UNCHANGED <<artifacts, watcher, todo, lock, loaded, previous, requests>>

StartupLoaded(p) ==
  /\ p \in unloaded /\ reading[p] # None
  /\ IF Loads(p) THEN LoadReturns(p) ELSE UNCHANGED <<model, loaded>>
  /\ LoadIsOver(p)
  /\ unloaded' = unloaded \ {p}
  /\ UNCHANGED <<artifacts, watcher, todo, lock, previous, requests>>

\* start(): the version promoted now is the baseline.
Start ==
  /\ stage = "starting" /\ unloaded = {}
  /\ observed' = file.current
  /\ stage' = "serving"
  /\ UNCHANGED <<artifacts, unloaded, todo, plugins, requests>>

\* stop(), once the server has answered every request.
Stop ==
  /\ stage = "serving"
  /\ \A c \in Call : call[c] \in {"idle", "done"}
  /\ stage' = "stopped"
  /\ Abandon(Watcher)
  /\ UNCHANGED <<artifacts, unloaded, observed, requests>>

\* bug: the version is recorded once it has been loaded.
bugObserve == IF \E p \in Plugin : <<p, file.current>> \in Broken THEN observed ELSE file.current

Observe == file.current

\* check_once(). Without a promoted version the loaded models stay.
Poll ==
  /\ stage = "serving" /\ todo[Watcher] = {}
  /\ file.current # observed
  /\ observed' = Observe
  /\ todo' = [todo EXCEPT ![Watcher] = IF file.current = None THEN {} ELSE Plugin]
  /\ UNCHANGED <<artifacts, unloaded, stage, plugins, requests>>

------------------------------------------------------------------------------
(* The routes of plugins/router.py, and POST /plugins/reload.              *)

Become(c, what) == call' = [call EXCEPT ![c] = what]

\* /predict answers 503 while the plugin is not loaded.
Predict(c, p) ==
  /\ stage = "serving" /\ call[c] = "idle"
  /\ Become(c, IF loaded[p] THEN "waiting" ELSE "done")
  /\ target' = [target EXCEPT ![c] = p]
  /\ UNCHANGED <<artifacts, unloaded, watcher, todo, plugins, answering>>

Predicting(c) ==
  /\ call[c] = "waiting" /\ LockFree(target[c])
  /\ Become(c, "predicting")
  /\ lock' = [lock EXCEPT ![target[c]] = c]
  /\ answering' = [answering EXCEPT ![c] = model[target[c]]]
  /\ UNCHANGED <<artifacts, unloaded, watcher, todo, model, loaded, previous, reading, target>>

Predicted(c) ==
  /\ call[c] = "predicting"
  /\ Become(c, "done")
  /\ lock' = [lock EXCEPT ![target[c]] = None]
  /\ UNCHANGED <<artifacts, unloaded, watcher, todo, model, loaded, previous, reading>>
  /\ UNCHANGED <<target, answering>>

\* POST /plugins/{name}/reload and POST /plugins/reload.
ReloadRequest(c, ps) ==
  /\ stage = "serving" /\ call[c] = "idle"
  /\ Become(c, "reloading")
  /\ todo' = [todo EXCEPT ![c] = ps]
  /\ UNCHANGED <<artifacts, unloaded, watcher, plugins, target, answering>>

\* The request is answered, or its client has gone.
ReloadEnds(c) ==
  /\ call[c] = "reloading"
  /\ Become(c, "done")
  /\ Abandon(c)
  /\ UNCHANGED <<artifacts, unloaded, watcher, target, answering>>

Next ==
  \/ \E w \in Writer :
       \/ ReadFile(w)
       \/ \E v \in Version : Register(w, v) \/ Promote(w, v)
  \/ \E p \in Plugin : StartupLoad(p) \/ StartupLoaded(p)
  \/ Start
  \/ Stop
  \/ Poll
  \/ \E a \in Actor, p \in Plugin : Reload(a, p) \/ Reloaded(a, p)
  \/ \E c \in Call :
       \/ \E p \in Plugin : Predict(c, p) \/ ReloadRequest(c, {p})
       \/ ReloadRequest(c, Plugin)
       \/ Predicting(c)
       \/ Predicted(c)
       \/ ReloadEnds(c)

\* Coroutines that can run do run, and a load or a prediction comes to an end.
\* Nothing obliges a job to promote, or a client to ask or to go away.
Fairness ==
  /\ WF_vars(Start)
  /\ WF_vars(Poll)
  /\ \A p \in Plugin :
       /\ WF_vars(StartupLoad(p))
       /\ WF_vars(StartupLoaded(p))
       /\ WF_vars(Reload(Watcher, p))
       /\ WF_vars(Reloaded(Watcher, p))
  /\ \A c \in Call :
       /\ WF_vars(Predicting(c))
       /\ WF_vars(Predicted(c))
       /\ \A p \in Plugin : WF_vars(Reload(c, p)) /\ WF_vars(Reloaded(c, p))

Spec == Init /\ [][Next]_vars /\ Fairness

------------------------------------------------------------------------------
(* Properties.                                                             *)

\* Every variable holds a value of its kind.
TypeOK ==
  /\ file \in File
  /\ copy \in [Writer -> File \cup {None, Partial}]
  /\ unloaded \subseteq Plugin
  /\ stage \in {"starting", "serving", "stopped"}
  /\ observed \in Version \cup {None}
  /\ todo \in [Actor -> SUBSET Plugin]
  /\ lock \in [Plugin -> Actor \cup {None}]
  /\ model \in [Plugin -> Version \cup {None, Partial}]
  /\ loaded \in [Plugin -> BOOLEAN]
  /\ previous \in [Plugin -> [model : Version \cup {None, Partial}, loaded : BOOLEAN]]
  /\ reading \in [Plugin -> Version \cup {None}]
  /\ call \in [Call -> {"idle", "waiting", "predicting", "reloading", "done"}]
  /\ target \in [Call -> Plugin \cup {None}]
  /\ answering \in [Call -> Version \cup {None, Partial}]

\* "letting a prediction race a model swap can expose a partially initialised
\* model to production traffic" (plugins/ml.py): a prediction the route let in
\* runs from start to end on one model, and on one that was loaded whole.
PredictionsSeeOneModel ==
  \A c \in Call : call[c] = "predicting" =>
    /\ answering[c] \in Version
    /\ model[target[c]] = answering[c]

\* "the watcher ... does not hot-loop on a broken promotion": once no job
\* promotes any more, the watcher stops reloading, whatever fails to load.
WatcherRests == <>[](todo[Watcher] = {})

\* A version the watcher has not seen yet is served by every plugin that can
\* load it, unless another is promoted or the watcher is not running; another
\* plugin that cannot load it changes nothing.
ChangeIsApplied ==
  \A p \in Plugin, v \in Version :
    <<p, v>> \notin Broken =>
      (file.current = v /\ observed # v /\ stage = "serving") ~>
        (file.current # v \/ model[p] = v \/ stage = "stopped")

\* start() treats "the already-loaded startup version as baseline": when the
\* watcher finds nothing new and no reload is under way, every plugin serves
\* the promoted version or cannot load it.
QuietMeansCurrent ==
  stage = "serving" /\ observed = file.current /\ (\A a \in Actor : todo[a] = {}) =>
    \A p \in Plugin :
      model[p] = file.current \/ file.current = None \/ <<p, file.current>> \in Broken

\* "atomic flip of `current`" (docs/guide/ml-plugins.md): once a version is
\* promoted only a promotion or a rollback replaces it.
OnlyPromotionMoves ==
  [][file'.current # file.current => \E w \in Writer, v \in Version : Promote(w, v)]_vars
=============================================================================
