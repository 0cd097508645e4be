------------------------- MODULE PluginServing_proofs -------------------------
(***************************************************************************)
(* Theorems about PluginServing for every set of plugins, versions, jobs   *)
(* and requests, and whichever loads fail.                                 *)
(***************************************************************************)
EXTENDS PluginServing, TLAPS

(* Until the lifespan is done no request is served and nothing reloads.    *)
StartingInv ==
  stage = "starting" =>
    /\ \A a \in Actor : todo[a] = {}
    /\ \A c \in Call : call[c] = "idle"
    /\ \A p \in Plugin : lock[p] = None

(* The lifespan loads a plugin once; until then it is not loaded.          *)
StartedInv ==
  /\ stage # "starting" => unloaded = {}
  /\ \A p \in unloaded : ~loaded[p]
  /\ stage = "starting" => \A p \in Plugin : reading[p] # None => p \in unloaded

(* Later a plugin loads only under its lock, held by who reloads it, and   *)
(* what was saved of it is what it was.                                    *)
ReloadInv ==
  stage # "starting" =>
    \A p \in Plugin : reading[p] # None =>
      /\ lock[p] # None
      /\ p \in todo[lock[p]]
      /\ previous[p].loaded = loaded[p]
      /\ loaded[p] => previous[p].model \in Version

(* Only a request that reloads has plugins to go through.                  *)
BusyInv == \A c \in Call : todo[c] # {} => call[c] = "reloading"

(* A lock is held by a reload whose load is under way, or by a prediction. *)
HeldInv ==
  \A p \in Plugin : lock[p] # None =>
    \/ p \in todo[lock[p]] /\ reading[p] # None
    \/ /\ lock[p] \in Call
       /\ call[lock[p]] = "predicting"
       /\ target[lock[p]] = p

(* Nobody holds two locks.                                                 *)
OneLockInv ==
  \A p, q \in Plugin : lock[p] # None /\ lock[p] = lock[q] => p = q

(* A loaded plugin that is not being reloaded has a whole model.           *)
WholeInv == \A p \in Plugin : loaded[p] /\ reading[p] = None => model[p] \in Version

(* A prediction that waits for the lock waits for a loaded plugin.         *)
WaitingInv ==
  \A c \in Call : call[c] = "waiting" => target[c] \in Plugin /\ loaded[target[c]]

(* A prediction under way holds the lock of its plugin.                    *)
PredictInv ==
  \A c \in Call : call[c] = "predicting" =>
    /\ target[c] \in Plugin
    /\ lock[target[c]] = c
    /\ answering[c] \in Version
    /\ model[target[c]] = answering[c]

ServingInv ==
  /\ StartingInv /\ StartedInv /\ ReloadInv
  /\ BusyInv /\ HeldInv /\ OneLockInv
  /\ WholeInv /\ WaitingInv /\ PredictInv

(* Types: one lemma per action.                                            *)
LEMMA ReadFileType ==
  ASSUME TypeOK, NEW w \in Writer, ReadFile(w)
  PROVE  TypeOK'
BY PluginServingAssumption DEF TypeOK, File, Status, Actor, Loads, ReadFile,
   artifacts, watcher, plugins, requests

LEMMA RegisterType ==
  ASSUME TypeOK, NEW w \in Writer, NEW v \in Version, Register(w, v)
  PROVE  TypeOK'
BY PluginServingAssumption DEF TypeOK, File, Status, Actor, Loads, Register, Save,
   artifacts, watcher, plugins, requests

LEMMA PromoteType ==
  ASSUME TypeOK, NEW w \in Writer, NEW v \in Version, Promote(w, v)
  PROVE  TypeOK'
BY PluginServingAssumption DEF TypeOK, File, Status, Actor, Loads, Promote, Save,
   artifacts, watcher, plugins, requests

LEMMA StartupLoadType ==
  ASSUME TypeOK, NEW p \in Plugin, StartupLoad(p)
  PROVE  TypeOK'
BY PluginServingAssumption DEF TypeOK, File, Status, Actor, Loads, StartupLoad,
   LoadBegins, artifacts, watcher, plugins, requests

LEMMA StartupLoadedType ==
  ASSUME TypeOK, NEW p \in Plugin, StartupLoaded(p)
  PROVE  TypeOK'
BY PluginServingAssumption DEF TypeOK, File, Status, Actor, Loads, StartupLoaded,
   LoadReturns, LoadIsOver, artifacts, watcher, plugins, requests

LEMMA StartType ==
  ASSUME TypeOK, Start
  PROVE  TypeOK'
BY PluginServingAssumption DEF TypeOK, File, Status, Actor, Loads, Start, artifacts,
   watcher, plugins, requests

LEMMA StopType ==
  ASSUME TypeOK, Stop
  PROVE  TypeOK'
<1>1. (stage \in {"starting", "serving", "stopped"})'
  BY PluginServingAssumption DEF TypeOK, Actor, Stop, Abandon, Restore, LoadIsOver,
     artifacts, watcher, plugins, requests
<1>2. (todo \in [Actor -> SUBSET Plugin])'
  BY PluginServingAssumption DEF TypeOK, Actor, Stop, Abandon, Restore, LoadIsOver,
     artifacts, watcher, plugins, requests
<1>3. (lock \in [Plugin -> Actor \cup {None}])'
  BY PluginServingAssumption DEF TypeOK, Actor, Stop, Abandon, Restore, LoadIsOver,
     artifacts, watcher, plugins, requests
<1>4. (model \in [Plugin -> Version \cup {None, Partial}])'
  BY PluginServingAssumption DEF TypeOK, Actor, Stop, Abandon, Restore, LoadIsOver,
     artifacts, watcher, plugins, requests
<1>5. (loaded \in [Plugin -> BOOLEAN])'
  BY PluginServingAssumption DEF TypeOK, Actor, Stop, Abandon, Restore, LoadIsOver,
     artifacts, watcher, plugins, requests
<1>6. (previous \in [Plugin -> [model : Version \cup {None, Partial}, loaded : BOOLEAN]])'
  BY PluginServingAssumption DEF TypeOK, Actor, Stop, Abandon, Restore, LoadIsOver,
     artifacts, watcher, plugins, requests
<1>7. (reading \in [Plugin -> Version \cup {None}])'
  BY PluginServingAssumption DEF TypeOK, Actor, Stop, Abandon, Restore, LoadIsOver,
     artifacts, watcher, plugins, requests
<1> QED
  BY <1>1, <1>2, <1>3, <1>4, <1>5, <1>6, <1>7 DEF TypeOK, Stop, artifacts, watcher,
     plugins, requests

LEMMA PollType ==
  ASSUME TypeOK, Poll
  PROVE  TypeOK'
BY PluginServingAssumption DEF TypeOK, File, Status, Actor, Loads, Poll, Observe,
   artifacts, watcher, plugins, requests

LEMMA ReloadType ==
  ASSUME TypeOK, NEW a \in Actor, NEW p \in Plugin, Reload(a, p)
  PROVE  TypeOK'
<1>1. file.current \in Version \cup {None}
  BY DEF TypeOK, File
<1>2. (todo \in [Actor -> SUBSET Plugin])'
  BY <1>1, PluginServingAssumption DEF TypeOK, Actor, Reload, LoadBegins, LockFree,
     artifacts, watcher, plugins, requests
<1>3. (lock \in [Plugin -> Actor \cup {None}])'
  BY <1>1, PluginServingAssumption DEF TypeOK, Actor, Reload, LoadBegins, LockFree,
     artifacts, watcher, plugins, requests
<1>4. (model \in [Plugin -> Version \cup {None, Partial}])'
  BY <1>1, PluginServingAssumption DEF TypeOK, Actor, Reload, LoadBegins, LockFree,
     artifacts, watcher, plugins, requests
<1>5. (previous \in [Plugin -> [model : Version \cup {None, Partial}, loaded : BOOLEAN]])'
  BY <1>1, PluginServingAssumption DEF TypeOK, Actor, Reload, LoadBegins, LockFree,
     artifacts, watcher, plugins, requests
<1>6. (reading \in [Plugin -> Version \cup {None}])'
  BY <1>1, PluginServingAssumption DEF TypeOK, Actor, Reload, LoadBegins, LockFree,
     artifacts, watcher, plugins, requests
<1> QED
  BY <1>2, <1>3, <1>4, <1>5, <1>6 DEF TypeOK, Reload, artifacts, watcher, plugins,
     requests

LEMMA ReloadedType ==
  ASSUME TypeOK, NEW a \in Actor, NEW p \in Plugin, Reloaded(a, p)
  PROVE  TypeOK'
<1>1. (todo \in [Actor -> SUBSET Plugin])'
  BY PluginServingAssumption DEF TypeOK, Actor, Reloaded, LoadReturns, LoadIsOver,
     Restore, Left, artifacts, watcher, plugins, requests
<1>2. (lock \in [Plugin -> Actor \cup {None}])'
  BY PluginServingAssumption DEF TypeOK, Actor, Reloaded, LoadReturns, LoadIsOver,
     Restore, Left, artifacts, watcher, plugins, requests
<1>3. (model \in [Plugin -> Version \cup {None, Partial}])'
  <2>1. CASE Loads(p)
    BY <2>1 DEF TypeOK, Reloaded, LoadReturns
  <2>2. CASE ~Loads(p)
    BY <2>2 DEF TypeOK, Reloaded, Restore
  <2> QED
    BY <2>1, <2>2
<1>4. (loaded \in [Plugin -> BOOLEAN])'
  <2>1. CASE Loads(p)
    BY <2>1 DEF TypeOK, Reloaded, LoadReturns
  <2>2. CASE ~Loads(p)
    BY <2>2 DEF TypeOK, Reloaded, Restore
  <2> QED
    BY <2>1, <2>2
<1>5. (reading \in [Plugin -> Version \cup {None}])'
  BY PluginServingAssumption DEF TypeOK, Actor, Reloaded, LoadReturns, LoadIsOver,
     Restore, Left, artifacts, watcher, plugins, requests
<1> QED
  BY <1>1, <1>2, <1>3, <1>4, <1>5 DEF TypeOK, Reloaded, artifacts, watcher, plugins,
     requests

LEMMA PredictType ==
  ASSUME TypeOK, NEW c \in Call, NEW p \in Plugin, Predict(c, p)
  PROVE  TypeOK'
BY PluginServingAssumption DEF TypeOK, File, Status, Actor, Loads, Predict, Become,
   artifacts, watcher, plugins, requests

LEMMA ReloadRequestType ==
  ASSUME TypeOK, NEW c \in Call, NEW ps \in SUBSET Plugin, ReloadRequest(c, ps)
  PROVE  TypeOK'
BY PluginServingAssumption DEF TypeOK, File, Status, Actor, Loads, ReloadRequest,
   Become, artifacts, watcher, plugins, requests

LEMMA PredictingType ==
  ASSUME TypeOK, ServingInv, NEW c \in Call, Predicting(c)
  PROVE  TypeOK'
<1>1. (lock \in [Plugin -> Actor \cup {None}])'
  BY PluginServingAssumption DEF TypeOK, Actor, Predicting, Become, LockFree,
     artifacts, watcher, plugins, requests
<1>2. (call \in [Call -> {"idle", "waiting", "predicting", "reloading", "done"}])'
  BY PluginServingAssumption DEF TypeOK, Actor, Predicting, Become, LockFree,
     artifacts, watcher, plugins, requests
<1>3. (answering \in [Call -> Version \cup {None, Partial}])'
  BY DEF TypeOK, ServingInv, WaitingInv, Predicting
<1> QED
  BY <1>1, <1>2, <1>3 DEF TypeOK, Predicting, artifacts, watcher, plugins, requests

LEMMA PredictedType ==
  ASSUME TypeOK, NEW c \in Call, Predicted(c)
  PROVE  TypeOK'
BY PluginServingAssumption DEF TypeOK, File, Status, Actor, Loads, Predicted,
   Become, artifacts, watcher, plugins, requests

LEMMA ReloadEndsType ==
  ASSUME TypeOK, NEW c \in Call, ReloadEnds(c)
  PROVE  TypeOK'
<1>1. (todo \in [Actor -> SUBSET Plugin])'
  BY PluginServingAssumption DEF TypeOK, Actor, ReloadEnds, Abandon, Restore,
     LoadIsOver, Become, artifacts, watcher, plugins, requests
<1>2. (lock \in [Plugin -> Actor \cup {None}])'
  BY PluginServingAssumption DEF TypeOK, Actor, ReloadEnds, Abandon, Restore,
     LoadIsOver, Become, artifacts, watcher, plugins, requests
<1>3. (model \in [Plugin -> Version \cup {None, Partial}])'
  BY PluginServingAssumption DEF TypeOK, Actor, ReloadEnds, Abandon, Restore,
     LoadIsOver, Become, artifacts, watcher, plugins, requests
<1>4. (loaded \in [Plugin -> BOOLEAN])'
  BY PluginServingAssumption DEF TypeOK, Actor, ReloadEnds, Abandon, Restore,
     LoadIsOver, Become, artifacts, watcher, plugins, requests
<1>5. (previous \in [Plugin -> [model : Version \cup {None, Partial}, loaded : BOOLEAN]])'
  BY PluginServingAssumption DEF TypeOK, Actor, ReloadEnds, Abandon, Restore,
     LoadIsOver, Become, artifacts, watcher, plugins, requests
<1>6. (reading \in [Plugin -> Version \cup {None}])'
  BY PluginServingAssumption DEF TypeOK, Actor, ReloadEnds, Abandon, Restore,
     LoadIsOver, Become, artifacts, watcher, plugins, requests
<1>7. (call \in [Call -> {"idle", "waiting", "predicting", "reloading", "done"}])'
  BY PluginServingAssumption DEF TypeOK, Actor, ReloadEnds, Abandon, Restore,
     LoadIsOver, Become, artifacts, watcher, plugins, requests
<1> QED
  BY <1>1, <1>2, <1>3, <1>4, <1>5, <1>6, <1>7 DEF TypeOK, ReloadEnds, artifacts,
     watcher, plugins, requests

(* The invariant: one lemma per action, one step per conjunct.             *)
LEMMA ReadFileKeeps ==
  ASSUME TypeOK, ServingInv, NEW w \in Writer, ReadFile(w)
  PROVE  ServingInv'
<1> USE PluginServingAssumption DEF TypeOK, ServingInv, Actor
<1>1. StartingInv'
  BY DEF StartingInv, ReadFile, watcher, plugins, requests
<1>2. StartedInv'
  BY DEF StartedInv, ReadFile, watcher, plugins, requests
<1>3. ReloadInv'
  BY DEF ReloadInv, ReadFile, watcher, plugins, requests
<1>4. BusyInv'
  BY DEF BusyInv, ReadFile, watcher, plugins, requests
<1>5. HeldInv'
  BY DEF HeldInv, ReadFile, watcher, plugins, requests
<1>6. OneLockInv'
  BY DEF OneLockInv, ReadFile, watcher, plugins, requests
<1>7. WholeInv'
  BY DEF WholeInv, ReadFile, watcher, plugins, requests
<1>8. WaitingInv'
  BY DEF WaitingInv, ReadFile, watcher, plugins, requests
<1>9. PredictInv'
  BY DEF PredictInv, ReadFile, watcher, plugins, requests
<1> QED
  BY <1>1, <1>2, <1>3, <1>4, <1>5, <1>6, <1>7, <1>8, <1>9

LEMMA RegisterKeeps ==
  ASSUME TypeOK, ServingInv, NEW w \in Writer, NEW v \in Version, Register(w, v)
  PROVE  ServingInv'
<1> USE PluginServingAssumption DEF TypeOK, ServingInv, Actor
<1>1. StartingInv'
  BY DEF StartingInv, Register, Save, watcher, plugins, requests
<1>2. StartedInv'
  BY DEF StartedInv, Register, Save, watcher, plugins, requests
<1>3. ReloadInv'
  BY DEF ReloadInv, Register, Save, watcher, plugins, requests
<1>4. BusyInv'
  BY DEF BusyInv, Register, Save, watcher, plugins, requests
<1>5. HeldInv'
  BY DEF HeldInv, Register, Save, watcher, plugins, requests
<1>6. OneLockInv'
  BY DEF OneLockInv, Register, Save, watcher, plugins, requests
<1>7. WholeInv'
  BY DEF WholeInv, Register, Save, watcher, plugins, requests
<1>8. WaitingInv'
  BY DEF WaitingInv, Register, Save, watcher, plugins, requests
<1>9. PredictInv'
  BY DEF PredictInv, Register, Save, watcher, plugins, requests
<1> QED
  BY <1>1, <1>2, <1>3, <1>4, <1>5, <1>6, <1>7, <1>8, <1>9

LEMMA PromoteKeeps ==
  ASSUME TypeOK, ServingInv, NEW w \in Writer, NEW v \in Version, Promote(w, v)
  PROVE  ServingInv'
<1> USE PluginServingAssumption DEF TypeOK, ServingInv, Actor
<1>1. StartingInv'
  BY DEF StartingInv, Promote, Save, watcher, plugins, requests
<1>2. StartedInv'
  BY DEF StartedInv, Promote, Save, watcher, plugins, requests
<1>3. ReloadInv'
  BY DEF ReloadInv, Promote, Save, watcher, plugins, requests
<1>4. BusyInv'
  BY DEF BusyInv, Promote, Save, watcher, plugins, requests
<1>5. HeldInv'
  BY DEF HeldInv, Promote, Save, watcher, plugins, requests
<1>6. OneLockInv'
  BY DEF OneLockInv, Promote, Save, watcher, plugins, requests
<1>7. WholeInv'
  BY DEF WholeInv, Promote, Save, watcher, plugins, requests
<1>8. WaitingInv'
  BY DEF WaitingInv, Promote, Save, watcher, plugins, requests
<1>9. PredictInv'
  BY DEF PredictInv, Promote, Save, watcher, plugins, requests
<1> QED
  BY <1>1, <1>2, <1>3, <1>4, <1>5, <1>6, <1>7, <1>8, <1>9

LEMMA StartupLoadKeeps ==
  ASSUME TypeOK, ServingInv, NEW p \in Plugin, StartupLoad(p)
  PROVE  ServingInv'
<1> USE PluginServingAssumption DEF TypeOK, ServingInv, Actor
<1>1. StartingInv'
  BY DEF StartingInv, StartupLoad, LoadBegins, watcher, plugins, requests
<1>2. StartedInv'
  BY DEF StartedInv, StartupLoad, LoadBegins, watcher, plugins, requests
<1>3. ReloadInv'
  BY DEF ReloadInv, StartedInv, StartupLoad, LoadBegins, watcher, plugins, requests
<1>4. BusyInv'
  BY DEF BusyInv, StartupLoad, LoadBegins, watcher, plugins, requests
<1>5. HeldInv'
  BY DEF HeldInv, StartupLoad, LoadBegins, watcher, plugins, requests
<1>6. OneLockInv'
  BY DEF OneLockInv, StartupLoad
<1>7. WholeInv'
  BY DEF WholeInv, StartupLoad, LoadBegins
<1>8. WaitingInv'
  BY DEF WaitingInv, StartupLoad, LoadBegins, watcher, plugins, requests
<1>9. PredictInv'
  BY DEF PredictInv, StartingInv, StartedInv, StartupLoad, LoadBegins, watcher,
     plugins, requests, Loads
<1> QED
  BY <1>1, <1>2, <1>3, <1>4, <1>5, <1>6, <1>7, <1>8, <1>9

LEMMA StartupLoadedKeeps ==
  ASSUME TypeOK, ServingInv, NEW p \in Plugin, StartupLoaded(p)
  PROVE  ServingInv'
<1> USE PluginServingAssumption DEF TypeOK, ServingInv, Actor
<1>1. StartingInv'
  BY DEF StartingInv, StartupLoaded, LoadReturns, LoadIsOver, watcher, plugins, requests
<1>2. StartedInv'
  BY DEF StartedInv, StartupLoaded, LoadReturns, LoadIsOver, watcher, plugins, requests
<1>3. ReloadInv'
  BY DEF ReloadInv, StartupLoaded, LoadReturns, LoadIsOver, watcher, plugins, requests
<1>4. BusyInv'
  BY DEF BusyInv, StartupLoaded, LoadReturns, LoadIsOver, watcher, plugins, requests
<1>5. HeldInv'
  BY DEF HeldInv, StartingInv, StartedInv, StartupLoaded, LoadReturns, LoadIsOver,
     watcher, plugins, requests, Loads
<1>6. OneLockInv'
  BY DEF OneLockInv, StartupLoaded
<1>7. WholeInv'
  BY DEF WholeInv, StartedInv, StartupLoaded, LoadReturns, LoadIsOver, watcher,
     plugins, requests
<1>8. WaitingInv'
  BY DEF WaitingInv, StartupLoaded, LoadReturns, LoadIsOver, watcher, plugins, requests
<1>9. PredictInv'
  BY DEF PredictInv, StartingInv, StartedInv, StartupLoaded, LoadReturns,
     LoadIsOver, watcher, plugins, requests, Loads
<1> QED
  BY <1>1, <1>2, <1>3, <1>4, <1>5, <1>6, <1>7, <1>8, <1>9

LEMMA StartKeeps ==
  ASSUME TypeOK, ServingInv, Start
  PROVE  ServingInv'
<1> USE PluginServingAssumption DEF TypeOK, ServingInv, Actor
<1>1. StartingInv'
  BY DEF StartingInv, Start
<1>2. StartedInv'
  BY DEF StartedInv, Start
<1>3. ReloadInv'
  BY DEF ReloadInv, StartedInv, Start, watcher, plugins, requests
<1>4. BusyInv'
  BY DEF BusyInv, Start, watcher, plugins, requests
<1>5. HeldInv'
  BY DEF HeldInv, Start, watcher, plugins, requests
<1>6. OneLockInv'
  BY DEF OneLockInv, Start, watcher, plugins, requests
<1>7. WholeInv'
  BY DEF WholeInv, Start, watcher, plugins, requests
<1>8. WaitingInv'
  BY DEF WaitingInv, Start, watcher, plugins, requests
<1>9. PredictInv'
  BY DEF PredictInv, Start, watcher, plugins, requests
<1> QED
  BY <1>1, <1>2, <1>3, <1>4, <1>5, <1>6, <1>7, <1>8, <1>9

LEMMA StopKeeps ==
  ASSUME TypeOK, ServingInv, Stop
  PROVE  ServingInv'
<1> USE PluginServingAssumption DEF TypeOK, ServingInv, Actor
<1>1. StartingInv'
  BY DEF StartingInv, Stop
<1>2. StartedInv'
  BY DEF StartedInv, Stop
<1>3. ReloadInv'
  BY DEF ReloadInv, OneLockInv, Stop, Abandon, Restore, LoadIsOver, watcher,
     plugins, requests
<1>4. BusyInv'
  BY DEF BusyInv, Stop, Abandon, Restore, LoadIsOver
<1>5. HeldInv'
  BY DEF HeldInv, OneLockInv, Stop, Abandon, Restore, LoadIsOver, watcher, plugins,
     requests
<1>6. OneLockInv'
  BY DEF OneLockInv, Stop, Abandon, Restore, LoadIsOver, watcher, plugins, requests
<1>7. WholeInv'
  BY DEF WholeInv, ReloadInv, HeldInv, Stop, Abandon, Restore, LoadIsOver, watcher,
     plugins, requests, Loads
<1>8. WaitingInv'
  BY DEF WaitingInv, Stop, Abandon, Restore, LoadIsOver, watcher, plugins, requests
<1>9. PredictInv'
  BY DEF PredictInv, Stop, Abandon, Restore, LoadIsOver, watcher, plugins, requests
<1> QED
  BY <1>1, <1>2, <1>3, <1>4, <1>5, <1>6, <1>7, <1>8, <1>9

LEMMA PollKeeps ==
  ASSUME TypeOK, ServingInv, Poll
  PROVE  ServingInv'
<1> USE PluginServingAssumption DEF TypeOK, ServingInv, Actor
<1>1. StartingInv'
  BY DEF StartingInv, Poll
<1>2. StartedInv'
  BY DEF StartedInv, Poll
<1>3. ReloadInv'
  BY DEF ReloadInv, Poll, Observe, watcher, plugins, requests
<1>4. BusyInv'
  BY DEF BusyInv, Poll, Observe, watcher, plugins, requests
<1>5. HeldInv'
  BY DEF HeldInv, Poll, Observe, watcher, plugins, requests
<1>6. OneLockInv'
  BY DEF OneLockInv, Poll, Observe, watcher, plugins, requests
<1>7. WholeInv'
  BY DEF WholeInv, Poll, Observe, watcher, plugins, requests
<1>8. WaitingInv'
  BY DEF WaitingInv, Poll, Observe, watcher, plugins, requests
<1>9. PredictInv'
  BY DEF PredictInv, Poll, Observe, watcher, plugins, requests
<1> QED
  BY <1>1, <1>2, <1>3, <1>4, <1>5, <1>6, <1>7, <1>8, <1>9

LEMMA ReloadKeeps ==
  ASSUME TypeOK, ServingInv, NEW a \in Actor, NEW p \in Plugin, Reload(a, p)
  PROVE  ServingInv'
<1> USE PluginServingAssumption DEF TypeOK, ServingInv, Actor
<1>1. StartingInv'
  BY DEF StartingInv, Reload, LoadBegins, LockFree, watcher, plugins, requests
<1> stage # "starting"
  BY DEF StartingInv, Reload
<1>2. StartedInv'
  BY DEF StartedInv, Reload, LoadBegins, LockFree, artifacts, watcher, plugins, requests
<1>3. ReloadInv'
  <2>1. CASE file.current = None
    BY <2>1 DEF ReloadInv, HeldInv, Reload, LockFree, watcher, plugins
  <2>2. CASE file.current # None
    <3>1. reading[p] = None /\ (loaded[p] => model[p] \in Version)
      BY DEF ReloadInv, WholeInv, Reload, LockFree
    <3>2. /\ lock' = [lock EXCEPT ![p] = a]
          /\ previous' = [previous EXCEPT ![p] = [model |-> model[p], loaded |-> loaded[p]]]
          /\ reading' = [reading EXCEPT ![p] = file.current]
          /\ loaded' = loaded /\ todo' = todo /\ p \in todo[a]
      BY <2>2 DEF Reload, LoadBegins
    <3>3. a # None
      OBVIOUS
    <3>4. ASSUME NEW q \in Plugin, q # p, reading'[q] # None
          PROVE  /\ lock'[q] # None /\ q \in todo'[lock'[q]]
                 /\ previous'[q].loaded = loaded'[q]
                 /\ loaded'[q] => previous'[q].model \in Version
      BY <3>2, <3>4 DEF ReloadInv
    <3>5. /\ lock'[p] = a /\ previous'[p].loaded = loaded'[p]
          /\ loaded'[p] => previous'[p].model \in Version
      BY <3>1, <3>2
    <3> QED
      BY <3>2, <3>3, <3>4, <3>5 DEF ReloadInv
  <2> QED
    BY <2>1, <2>2
<1>4. BusyInv'
  BY DEF BusyInv, Reload, LoadBegins, LockFree, watcher, plugins, requests
<1>5. HeldInv'
  BY DEF HeldInv, Reload, LoadBegins, LockFree, watcher, plugins, requests
<1>6. OneLockInv'
  BY DEF OneLockInv, Reload, LoadBegins, LockFree, watcher, plugins, requests
<1>7. WholeInv'
  BY DEF WholeInv, Reload, LoadBegins, LockFree, watcher, plugins, requests
<1>8. WaitingInv'
  BY DEF WaitingInv, Reload, LoadBegins, LockFree, watcher, plugins, requests
<1>9. PredictInv'
  BY DEF PredictInv, Reload, LoadBegins, LockFree, watcher, plugins, requests
<1> QED
  BY <1>1, <1>2, <1>3, <1>4, <1>5, <1>6, <1>7, <1>8, <1>9

LEMMA ReloadedKeeps ==
  ASSUME TypeOK, ServingInv, NEW a \in Actor, NEW p \in Plugin, Reloaded(a, p)
  PROVE  ServingInv'
<1> USE PluginServingAssumption DEF TypeOK, ServingInv, Actor
<1>1. StartingInv'
  BY DEF StartingInv, Reloaded, LoadReturns, LoadIsOver, Restore, Left, watcher,
     plugins, requests
<1>2. StartedInv'
  BY DEF StartedInv, StartingInv, Reloaded, LoadReturns, LoadIsOver, Restore, Left,
     watcher, plugins, requests
<1>3. ReloadInv'
  BY DEF ReloadInv, Reloaded, LoadReturns, LoadIsOver, Restore, Left, watcher,
     plugins, requests
<1>4. BusyInv'
  BY DEF BusyInv, Reloaded, LoadReturns, LoadIsOver, Restore, Left, watcher,
     plugins, requests
<1>5. HeldInv'
  BY DEF HeldInv, Reloaded, LoadReturns, LoadIsOver, Restore, Left, watcher,
     plugins, requests
<1>6. OneLockInv'
  BY DEF OneLockInv, Reloaded
<1>7. WholeInv'
  BY DEF WholeInv, HeldInv, BusyInv, PredictInv, ReloadInv, StartingInv, Loads,
     Reloaded, LoadReturns, LoadIsOver, Restore, Left, watcher, plugins, requests
<1>8. WaitingInv'
  BY DEF WaitingInv, StartingInv, ReloadInv, Reloaded, LoadReturns, LoadIsOver,
     Restore, Left, watcher, plugins, requests, Loads
<1>9. PredictInv'
  BY DEF PredictInv, BusyInv, Reloaded, LoadReturns, LoadIsOver, Restore, Left,
     watcher, plugins, requests
<1> QED
  BY <1>1, <1>2, <1>3, <1>4, <1>5, <1>6, <1>7, <1>8, <1>9

LEMMA PredictKeeps ==
  ASSUME TypeOK, ServingInv, NEW c \in Call, NEW p \in Plugin, Predict(c, p)
  PROVE  ServingInv'
<1> USE PluginServingAssumption DEF TypeOK, ServingInv, Actor
<1>1. StartingInv'
  BY DEF StartingInv, Predict, Become, watcher, plugins, requests
<1>2. StartedInv'
  BY DEF StartedInv, Predict, Become, watcher, plugins, requests
<1>3. ReloadInv'
  BY DEF ReloadInv, Predict, Become, watcher, plugins, requests
<1>4. BusyInv'
  BY DEF BusyInv, Predict, Become
<1>5. HeldInv'
  BY DEF HeldInv, Predict, Become, watcher, plugins, requests
<1>6. OneLockInv'
  BY DEF OneLockInv, Predict, Become, watcher, plugins, requests
<1>7. WholeInv'
  BY DEF WholeInv, Predict, Become, watcher, plugins, requests
<1>8. WaitingInv'
  BY DEF WaitingInv, Predict, Become, watcher, plugins, requests
<1>9. PredictInv'
  BY DEF PredictInv, Predict, Become, watcher, plugins, requests
<1> QED
  BY <1>1, <1>2, <1>3, <1>4, <1>5, <1>6, <1>7, <1>8, <1>9

LEMMA ReloadRequestKeeps ==
  ASSUME TypeOK, ServingInv, NEW c \in Call, NEW ps \in SUBSET Plugin, ReloadRequest(c, ps)
  PROVE  ServingInv'
<1> USE PluginServingAssumption DEF TypeOK, ServingInv, Actor
<1>1. StartingInv'
  BY DEF StartingInv, ReloadRequest, Become, watcher, plugins, requests
<1>2. StartedInv'
  BY DEF StartedInv, ReloadRequest, Become, watcher, plugins, requests
<1>3. ReloadInv'
  BY DEF ReloadInv, BusyInv, ReloadRequest, Become, watcher, plugins, requests
<1>4. BusyInv'
  BY DEF BusyInv, ReloadRequest, Become
<1>5. HeldInv'
  BY DEF HeldInv, BusyInv, ReloadRequest, Become, watcher, plugins, requests
<1>6. OneLockInv'
  BY DEF OneLockInv, ReloadRequest, Become, watcher, plugins, requests
<1>7. WholeInv'
  BY DEF WholeInv, ReloadRequest, Become, watcher, plugins, requests
<1>8. WaitingInv'
  BY DEF WaitingInv, ReloadRequest, Become, watcher, plugins, requests
<1>9. PredictInv'
  BY DEF PredictInv, ReloadRequest, Become, watcher, plugins, requests
<1> QED
  BY <1>1, <1>2, <1>3, <1>4, <1>5, <1>6, <1>7, <1>8, <1>9

LEMMA PredictingKeeps ==
  ASSUME TypeOK, ServingInv, NEW c \in Call, Predicting(c)
  PROVE  ServingInv'
<1> USE PluginServingAssumption DEF TypeOK, ServingInv, Actor
<1>1. StartingInv'
  BY DEF StartingInv, Predicting, Become, LockFree, watcher, plugins, requests
<1>2. StartedInv'
  BY DEF StartedInv, Predicting, Become, LockFree, watcher, plugins, requests
<1>3. ReloadInv'
  BY DEF ReloadInv, Predicting, Become, LockFree, watcher, plugins, requests
<1>4. BusyInv'
  BY DEF BusyInv, Predicting, Become, LockFree
<1>5. HeldInv'
  BY DEF HeldInv, Predicting, Become, LockFree
<1>6. OneLockInv'
  BY DEF OneLockInv, BusyInv, HeldInv, Predicting, Become, LockFree, watcher,
     plugins, requests, Loads
<1>7. WholeInv'
  BY DEF WholeInv, Predicting
<1>8. WaitingInv'
  BY DEF WaitingInv, Predicting, Become, LockFree
<1>9. PredictInv'
  BY DEF PredictInv, WaitingInv, WholeInv, ReloadInv, StartingInv, Predicting,
     Become, LockFree, watcher, plugins, requests
<1> QED
  BY <1>1, <1>2, <1>3, <1>4, <1>5, <1>6, <1>7, <1>8, <1>9

LEMMA PredictedKeeps ==
  ASSUME TypeOK, ServingInv, NEW c \in Call, Predicted(c)
  PROVE  ServingInv'
<1> USE PluginServingAssumption DEF TypeOK, ServingInv, Actor
<1>1. StartingInv'
  BY DEF StartingInv, Predicted, Become, watcher, plugins, requests
<1>2. StartedInv'
  BY DEF StartedInv, Predicted, Become, watcher, plugins, requests
<1>3. ReloadInv'
  BY DEF ReloadInv, BusyInv, PredictInv, StartingInv, Predicted, Become, watcher,
     plugins
<1>4. BusyInv'
  BY DEF BusyInv, Predicted, Become
<1>5. HeldInv'
  BY DEF HeldInv, Predicted, Become
<1>6. OneLockInv'
  BY DEF OneLockInv, Predicted
<1>7. WholeInv'
  BY DEF WholeInv, Predicted
<1>8. WaitingInv'
  BY DEF WaitingInv, Predicted, Become
<1>9. PredictInv'
  BY DEF PredictInv, Predicted, Become
<1> QED
  BY <1>1, <1>2, <1>3, <1>4, <1>5, <1>6, <1>7, <1>8, <1>9

LEMMA ReloadEndsKeeps ==
  ASSUME TypeOK, ServingInv, NEW c \in Call, ReloadEnds(c)
  PROVE  ServingInv'
<1> USE PluginServingAssumption DEF TypeOK, ServingInv, Actor
<1>1. StartingInv'
  BY DEF StartingInv, ReloadEnds, Abandon, Restore, LoadIsOver, Become, watcher,
     plugins, requests
<1>2. StartedInv'
  BY DEF StartedInv, StartingInv, ReloadEnds, Abandon, Restore, LoadIsOver, Become,
     watcher, plugins, requests
<1>3. ReloadInv'
  BY DEF ReloadInv, OneLockInv, ReloadEnds, Abandon, Restore, LoadIsOver, Become,
     watcher, plugins, requests
<1>4. BusyInv'
  BY DEF BusyInv, ReloadEnds, Abandon, Restore, LoadIsOver, Become
<1>5. HeldInv'
  BY DEF HeldInv, OneLockInv, ReloadEnds, Abandon, Restore, LoadIsOver, Become,
     watcher, plugins, requests
<1>6. OneLockInv'
  BY DEF OneLockInv, StartedInv, ReloadEnds, Abandon, Restore, LoadIsOver, Become,
     watcher, plugins, requests
<1>7. WholeInv'
  BY DEF WholeInv, ReloadInv, HeldInv, StartingInv, BusyInv, ReloadEnds, Abandon,
     Restore, LoadIsOver, Become, watcher, plugins, requests
<1>8. WaitingInv'
  BY DEF WaitingInv, ReloadInv, BusyInv, HeldInv, StartingInv, ReloadEnds, Abandon,
     Restore, LoadIsOver, Become, watcher, plugins, requests
<1>9. PredictInv'
  BY DEF PredictInv, ReloadEnds, Abandon, Restore, LoadIsOver, Become, watcher,
     plugins, requests
<1> QED
  BY <1>1, <1>2, <1>3, <1>4, <1>5, <1>6, <1>7, <1>8, <1>9

(* Every step keeps the types and the invariant.                           *)
LEMMA NextKeeps ==
  ASSUME TypeOK, ServingInv, [Next]_vars
  PROVE  TypeOK' /\ ServingInv'
<1>1. ASSUME NEW w \in Writer, ReadFile(w) \/ \E v \in Version : Register(w, v) \/ Promote(w, v)
      PROVE  TypeOK' /\ ServingInv'
  BY <1>1, ReadFileType, RegisterType, PromoteType, ReadFileKeeps, RegisterKeeps,
     PromoteKeeps
<1>2. ASSUME NEW p \in Plugin, StartupLoad(p) \/ StartupLoaded(p)
      PROVE  TypeOK' /\ ServingInv'
  BY <1>2, StartupLoadType, StartupLoadedType, StartupLoadKeeps, StartupLoadedKeeps
<1>3. CASE Start \/ Stop \/ Poll
  BY <1>3, StartType, StopType, PollType, StartKeeps, StopKeeps, PollKeeps
<1>4. ASSUME NEW a \in Actor, NEW p \in Plugin, Reload(a, p) \/ Reloaded(a, p)
      PROVE  TypeOK' /\ ServingInv'
  BY <1>4, ReloadType, ReloadedType, ReloadKeeps, ReloadedKeeps
<1>5. ASSUME NEW c \in Call, NEW ps \in SUBSET Plugin, ReloadRequest(c, ps)
      PROVE  TypeOK' /\ ServingInv'
  BY <1>5, ReloadRequestType, ReloadRequestKeeps
<1>6. ASSUME NEW c \in Call,
             (\E p \in Plugin : Predict(c, p)) \/ Predicting(c) \/ Predicted(c) \/ ReloadEnds(c)
      PROVE  TypeOK' /\ ServingInv'
  BY <1>6, PredictType, PredictingType, PredictedType, ReloadEndsType,
     PredictKeeps, PredictingKeeps, PredictedKeeps, ReloadEndsKeeps
<1>7. CASE UNCHANGED vars
  <2>1. TypeOK'
    BY <1>7 DEF vars, artifacts, watcher, plugins, requests, TypeOK
  <2>2. ServingInv'
    BY <1>7 DEF vars, artifacts, watcher, plugins, requests, ServingInv,
       StartingInv, StartedInv,
       ReloadInv, BusyInv, HeldInv, OneLockInv, WholeInv, WaitingInv, PredictInv
  <2> QED
    BY <2>1, <2>2
<1>8. \A p \in Plugin : {p} \in SUBSET Plugin
  OBVIOUS
<1> QED
  BY <1>1, <1>2, <1>3, <1>4, <1>5, <1>6, <1>7, <1>8 DEF Next

LEMMA InitHolds ==
  ASSUME Init
  PROVE  TypeOK /\ ServingInv
<1>1. TypeOK
  BY PluginServingAssumption DEF Init, TypeOK, File, Status, Actor
<1>2. StartingInv /\ StartedInv /\ ReloadInv
  BY DEF Init, StartingInv, StartedInv, ReloadInv
<1>3. BusyInv /\ HeldInv /\ OneLockInv
  BY DEF Init, BusyInv, HeldInv, OneLockInv, Actor
<1>4. WholeInv /\ WaitingInv /\ PredictInv
  BY DEF Init, WholeInv, WaitingInv, PredictInv
<1> QED
  BY <1>1, <1>2, <1>3, <1>4 DEF ServingInv

(* A prediction runs on one whole model from its start to its end, for     *)
(* every number of plugins, reloads and requests: BaseMLPlugin's           *)
(* operation lock and the restore of reload_model.                         *)
THEOREM PredictionsAreWhole == Spec => []PredictionsSeeOneModel
<1>1. Init => TypeOK /\ ServingInv
  BY InitHolds
<1>2. TypeOK /\ ServingInv /\ [Next]_vars => (TypeOK /\ ServingInv)'
  BY NextKeeps
<1>3. ServingInv => PredictionsSeeOneModel
  BY DEF ServingInv, PredictInv, PredictionsSeeOneModel
<1> QED
  BY <1>1, <1>2, <1>3, PTL DEF Spec
=============================================================================
