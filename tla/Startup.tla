------------------------------- MODULE Startup -------------------------------
(***************************************************************************)
(* The life of the process: main.go, the runtime overrides of the          *)
(* configuration (internal/config) and the managed encryption proxy of     *)
(* PrivateMode (internal/managedproxies), over the table of providers,     *)
(* which the admin server writes too, and the container, both of which     *)
(* outlive the process.                                                    *)
(*                                                                         *)
(* The environment is read when the file is loaded, extended by the        *)
(* managed proxies, and read again; only what comes out of that second     *)
(* reading is validated and written into the table.                        *)
(***************************************************************************)
EXTENDS Naturals

CONSTANTS
  Files,         \* configuration files the operator may start from
  Environments,  \* environments he may start in
  AdminRows,     \* rows an administrator may write
  MaxStarts,     \* bound: starts of the process
  MaxFaults,     \* bound: kills, and failures of the database and the network
  NoRow          \* "no such provider"

ID == {"ppq", "privatemode", "other"}

(***************************************************************************)
(* URLs by what the overrides tell apart: "none" is empty, "direct" the    *)
(* provider's public API, "private" PPQ's native private endpoint, "local" *)
(* a proxy of the operator, "managed" the address of the managed proxy.    *)
(***************************************************************************)
URL == {"none", "direct", "private", "local", "managed"}

\* bundle: "legacy" stands for a URL containing "attestation-bundle".
Row == [base : URL, tier : {"plaintext", "encrypted", "confidential"},
        typed : BOOLEAN, bundle : {"none", "legacy", "native", "own"},
        useProxy : BOOLEAN]
Rows == [ID -> Row \cup {NoRow}]

\* sound: the settings outside the provider list are valid.
File == [rows : Rows, sound : BOOLEAN]

\* PRIVATEMODE_PROXY_URL, PPQ_PROXY_URL, PRIVATEMODE_API_KEY, and
\* ENCPROXY_MANAGE_PROVIDER_PROXIES.
Environment == [privatemode : URL, ppq : URL, key : BOOLEAN, manage : BOOLEAN]

\* The address of the managed proxy is nobody's to write down, in the file or to
\* the admin server: it is the port of the moment.
ASSUME FileAssumption ==
  /\ Files \subseteq File
  /\ \A f \in Files : f.rows["privatemode"] # NoRow => f.rows["privatemode"].base # "managed"
ASSUME AdminAssumption == AdminRows \subseteq {row \in Row : row.base # "managed"}
ASSUME NoRowAssumption == NoRow \notin Row
ASSUME EnvironmentAssumption ==
  /\ Environments \subseteq Environment
  /\ \A e \in Environments : e.privatemode # "managed"
ASSUME StartAssumption == MaxStarts \in Nat /\ MaxFaults \in Nat

VARIABLES
  main,      \* where main is
  mode,      \* its flags: "serve", "init" or "fetch"
  file,      \* the configuration file
  env,       \* the process environment
  conf,      \* cfg.Providers
  todo,      \* configured providers still to be written into the table
  table,     \* table providers
  foreign,   \* history: its rows that the admin server wrote last
  box,       \* the container at the managed address
  mine,      \* it was started by this process
  stubborn,  \* neither docker nor a signal could stop it
  answered,  \* something has answered at the managed address
  end,       \* how the last process ended
  starts, faults

vars == <<main, mode, file, env, conf, todo, table, foreign, box, mine, stubborn, answered,
          end, starts, faults>>
dbVars == <<table, foreign>>
processVars == <<mode, file, starts>>
proxyVars == <<box, mine, stubborn>>

\* "undo" and "undoing" are Manager.Stop called by a failed Start, "stop" and
\* "stopping" the deferred call.
Phases == {"down", "start", "probe", "wait", "undo", "undoing", "override", "validate",
           "open", "configure", "fetch", "serve", "shutdown", "stop", "stopping"}

TypeOK ==
  /\ main \in Phases
  /\ mode \in {"serve", "init", "fetch"}
  /\ file \in File /\ env \in Environment
  /\ conf \in Rows /\ table \in Rows
  /\ todo \subseteq ID /\ foreign \subseteq ID
  /\ box \in {"none", "booting", "ready"}
  /\ mine \in BOOLEAN /\ stubborn \in BOOLEAN /\ answered \in BOOLEAN
  /\ end \in {"none", "returned", "unready", "fatal", "killed"}
  /\ starts \in 0..MaxStarts /\ faults \in 0..MaxFaults
  /\ \A p \in todo : conf[p] \in Row

-----------------------------------------------------------------------------
(***************************************************************************)
(* ApplyRuntimeProviderOverrides and Validate.                             *)
(***************************************************************************)

IsPPQDirectAPI(url) == url \in {"direct", "private"}

MutantOverridePPQ(row, url) ==
  IF url # "none" /\ ~IsPPQDirectAPI(url)
  THEN [row EXCEPT !.base = url, !.tier = "encrypted", !.useProxy = TRUE]
  ELSE IF IsPPQDirectAPI(row.base) /\ row.tier = "encrypted"
  THEN [row EXCEPT !.base = "private", !.useProxy = FALSE, !.bundle = "private"]
  ELSE row
OverridePPQ(row, url) ==
  IF url # "none" /\ ~IsPPQDirectAPI(url)
  THEN [row EXCEPT !.base = url, !.tier = "encrypted", !.useProxy = TRUE]
  ELSE IF IsPPQDirectAPI(row.base) /\ row.tier = "encrypted"
  THEN [row EXCEPT !.base = "private", !.useProxy = FALSE,
                   !.bundle = IF @ \in {"none", "legacy"} THEN "native" ELSE @]
  ELSE row

MutantOverridePrivateMode(row, url) ==
  IF url \notin {"none", "direct"}
  THEN [row EXCEPT !.base = url]
  ELSE IF row.base = "direct" /\ row.tier = "confidential"
  THEN [row EXCEPT !.tier = "plaintext"]
  ELSE row
MutantNeverDemotes(row, url) ==
  IF url # "none" THEN [row EXCEPT !.base = url, !.tier = "confidential"] ELSE row
OverridePrivateMode(row, url) ==
  IF url \notin {"none", "direct"}
  THEN [row EXCEPT !.base = url, !.tier = "confidential"]
  ELSE IF row.base = "direct" /\ row.tier = "confidential"
  THEN [row EXCEPT !.tier = "plaintext"]
  ELSE row

Overridden(p, row, e) ==
  CASE row = NoRow -> NoRow
    [] row # NoRow /\ p = "ppq" -> OverridePPQ(row, e.ppq)
    [] row # NoRow /\ p = "privatemode" -> OverridePrivateMode(row, e.privatemode)
    [] OTHER -> row

ApplyRuntimeProviderOverrides(rows, e) == [p \in ID |-> Overridden(p, rows[p], e)]

Configured(rows) == {p \in ID : rows[p] # NoRow}

Valid == /\ file.sound
         /\ \A p \in Configured(conf) : /\ conf[p].base # "none"
                                        /\ conf[p].typed \/ conf[p].tier = "plaintext"

-----------------------------------------------------------------------------
(***************************************************************************)
(* How a process ends. log.Fatalf and signals run no deferred calls.       *)
(***************************************************************************)

Goto(ph) == main' = ph /\ UNCHANGED end
End(how) == main' = "down" /\ end' = how

Fault == faults < MaxFaults /\ faults' = faults + 1

Init ==
  /\ main = "down" /\ mode = "serve"
  /\ file \in Files /\ env \in Environments
  /\ conf = [p \in ID |-> NoRow] /\ todo = {}
  /\ table = [p \in ID |-> NoRow] /\ foreign = {}
  /\ box \in {"none", "ready"} /\ mine = FALSE /\ stubborn = FALSE
  /\ answered = FALSE /\ end = "none"
  /\ starts = 0 /\ faults = 0

\* main is called, and config.Load applies the overrides for the first time.
Launch ==
  /\ main = "down" /\ starts < MaxStarts
  /\ \E f \in Files, e \in Environments, m \in {"serve", "init", "fetch"} :
       /\ file' = f /\ env' = e /\ mode' = m
       /\ conf' = ApplyRuntimeProviderOverrides(f.rows, e)
  /\ Goto("start")
  /\ starts' = starts + 1
  /\ todo' = {} /\ mine' = FALSE /\ stubborn' = FALSE
  /\ UNCHANGED <<dbVars, box, answered, faults>>

-----------------------------------------------------------------------------
(***************************************************************************)
(* Manager.Start.                                                          *)
(***************************************************************************)

NeedsManagedProxy == /\ env.manage /\ env.key
                     /\ conf["privatemode"] # NoRow
                     /\ env.privatemode = "none"

StartManagedProxies ==
  /\ main = "start"
  /\ CASE mode = "init" -> Goto("validate")
       [] mode # "init" /\ NeedsManagedProxy -> Goto("probe")
       [] OTHER -> Goto("override")
  /\ UNCHANGED <<processVars, env, conf, todo, dbVars, proxyVars, answered, faults>>

\* os.Setenv once something has answered at the managed address.
ExportAddress ==
  /\ env' = [env EXCEPT !.privatemode = "managed"]
  /\ answered' = TRUE
  /\ Goto("override")

\* A proxy that is already there is used, whoever started it.
UseExisting ==
  /\ main = "probe" /\ box = "ready"
  /\ ExportAddress
  /\ UNCHANGED <<processVars, conf, todo, dbVars, proxyVars, faults>>

\* Nothing is there, or it does not answer within two seconds.
NotAnswered == IF box = "ready" THEN Fault ELSE UNCHANGED faults

\* docker run; its container cannot be started where another has the port.
RunContainer ==
  /\ main = "probe" /\ NotAnswered
  /\ IF box = "none" THEN box' = "booting" /\ mine' = TRUE ELSE UNCHANGED <<box, mine>>
  /\ Goto("wait")
  /\ UNCHANGED <<processVars, env, conf, todo, dbVars, stubborn, answered>>

\* No docker, or it cannot be executed: Stop finds nothing to stop.
NoDocker ==
  /\ main = "probe" /\ NotAnswered
  /\ End("unready")
  /\ UNCHANGED <<processVars, env, conf, todo, dbVars, proxyVars, answered>>

\* waitReady polls the address; it does not look at the child it has started.
BecomesReady ==
  /\ main = "wait" /\ box = "ready"
  /\ ExportAddress
  /\ UNCHANGED <<processVars, conf, todo, dbVars, proxyVars, faults>>

MutantWaitTimesOut ==
  /\ main = "wait"
  /\ End("unready")
  /\ UNCHANGED <<processVars, env, conf, todo, dbVars, proxyVars, answered, faults>>
MutantTimeoutIgnored ==
  /\ main = "wait"
  /\ env' = [env EXCEPT !.privatemode = "managed"]
  /\ Goto("override")
  /\ UNCHANGED <<processVars, conf, todo, dbVars, proxyVars, answered, faults>>
MutantNeverTimesOut ==
  /\ main = "wait" /\ box = "none"
  /\ Goto("undo")
  /\ UNCHANGED <<processVars, env, conf, todo, dbVars, proxyVars, answered, faults>>
WaitTimesOut ==
  /\ main = "wait"
  /\ Goto("undo")
  /\ UNCHANGED <<processVars, env, conf, todo, dbVars, proxyVars, answered, faults>>

-----------------------------------------------------------------------------
(***************************************************************************)
(* Manager.Stop, called by a failed Start or deferred.                     *)
(***************************************************************************)

\* docker stop, at most 15 seconds; a failure is logged.
DockerStop ==
  /\ main \in {"undo", "stop"}
  /\ IF mine THEN box' \in {"none", box} ELSE UNCHANGED box
  /\ Goto(IF main = "undo" THEN "undoing" ELSE "stopping")
  /\ UNCHANGED <<processVars, env, conf, todo, dbVars, mine, stubborn, answered, faults>>

\* The child's context is cancelled, which signals its process group, and its
\* end awaited for at most 15 seconds. Then the process ends.
Terminate ==
  /\ main \in {"undoing", "stopping"}
  /\ IF mine THEN box' \in {"none", box} ELSE UNCHANGED box
  /\ stubborn' = (mine /\ box' # "none")
  /\ End(IF main = "undoing" THEN "unready" ELSE "returned")
  /\ UNCHANGED <<processVars, env, conf, todo, dbVars, mine, answered, faults>>

-----------------------------------------------------------------------------
(***************************************************************************)
(* main, from the second overrides to the end.                             *)
(***************************************************************************)

OverrideAgain ==
  /\ main = "override"
  /\ conf' = ApplyRuntimeProviderOverrides(conf, env)
  /\ Goto("validate")
  /\ UNCHANGED <<processVars, env, todo, dbVars, proxyVars, answered, faults>>

Validate ==
  /\ main = "validate"
  /\ IF Valid THEN Goto("open") ELSE End("fatal")
  /\ UNCHANGED <<processVars, env, conf, todo, dbVars, proxyVars, answered, faults>>

\* database.Open; -init returns here, with no proxies to stop.
OpenDatabase ==
  /\ main = "open"
  /\ IF mode = "init"
     THEN End("returned") /\ UNCHANGED todo
     ELSE Goto("configure") /\ todo' = Configured(conf)
  /\ UNCHANGED <<processVars, env, conf, dbVars, proxyVars, answered, faults>>

OpenFails ==
  /\ main = "open" /\ Fault
  /\ End("fatal")
  /\ UNCHANGED <<processVars, env, conf, todo, dbVars, proxyVars, answered>>

\* UpsertProvider for each configured provider; a failure is only logged.
ConfigureProvider(p) ==
  /\ main = "configure" /\ p \in todo
  /\ todo' = todo \ {p}
  /\ \/ table' = [table EXCEPT ![p] = conf[p]] /\ foreign' = foreign \ {p} /\ UNCHANGED faults
     \/ Fault /\ UNCHANGED dbVars
  /\ UNCHANGED <<main, end, processVars, env, conf, proxyVars, answered>>

AllConfigured ==
  /\ main = "configure" /\ todo = {}
  /\ Goto(IF mode = "fetch" THEN "fetch" ELSE "serve")
  /\ UNCHANGED <<processVars, env, conf, todo, dbVars, proxyVars, answered, faults>>

FetchModels ==
  /\ main = "fetch"
  /\ \/ Goto("stop") /\ UNCHANGED faults
     \/ Fault /\ End("fatal")
  /\ UNCHANGED <<processVars, env, conf, todo, dbVars, proxyVars, answered>>

\* A server cannot listen, or its listener breaks.
ListenFails ==
  /\ main = "serve" /\ Fault
  /\ End("fatal")
  /\ UNCHANGED <<processVars, env, conf, todo, dbVars, proxyVars, answered>>

\* Both servers are shut down, within 30 seconds, then the deferred calls run:
\* the attestation service, the database, the proxies.
Shutdown ==
  /\ main = "shutdown"
  /\ Goto("stop")
  /\ UNCHANGED <<processVars, env, conf, todo, dbVars, proxyVars, answered, faults>>

-----------------------------------------------------------------------------
(***************************************************************************)
(* The surroundings.                                                       *)
(***************************************************************************)

\* createProvider of the admin server, while it serves or is being shut down: an
\* upsert of what the request says, to which no override is applied.
CreateProvider(p) ==
  /\ main \in {"serve", "shutdown"}
  /\ \E row \in AdminRows : table' = [table EXCEPT ![p] = row]
  /\ foreign' = foreign \cup {p}
  /\ UNCHANGED <<main, end, processVars, env, conf, todo, proxyVars, answered, faults>>

\* SIGINT or SIGTERM, once main waits for one.
Signal ==
  /\ main = "serve"
  /\ Goto("shutdown")
  /\ UNCHANGED <<processVars, env, conf, todo, dbVars, proxyVars, answered, faults>>

\* A signal before signal.Notify is called (never with -init or -fetch-models),
\* or one that cannot be caught. The child has a process group of its own and
\* lives on.
Kill ==
  /\ main # "down" /\ Fault
  /\ End("killed")
  /\ UNCHANGED <<processVars, env, conf, todo, dbVars, proxyVars, answered>>

ContainerBoots ==
  /\ box = "booting"
  /\ box' = "ready"
  /\ UNCHANGED <<main, end, processVars, env, conf, todo, dbVars, mine, stubborn, answered,
                 faults>>

ContainerDies ==
  /\ box # "none"
  /\ box' = "none"
  /\ UNCHANGED <<main, end, processVars, env, conf, todo, dbVars, mine, stubborn, answered,
                 faults>>

MainStep ==
  \/ StartManagedProxies \/ UseExisting \/ RunContainer \/ NoDocker
  \/ BecomesReady \/ WaitTimesOut \/ DockerStop \/ Terminate
  \/ OverrideAgain \/ Validate \/ OpenDatabase
  \/ \E p \in ID : ConfigureProvider(p)
  \/ AllConfigured \/ FetchModels \/ Shutdown

Next ==
  \/ Launch \/ MainStep \/ OpenFails \/ ListenFails
  \/ \E p \in ID : CreateProvider(p)
  \/ Signal \/ Kill \/ ContainerBoots \/ ContainerDies

Spec == Init /\ [][Next]_vars

\* Every call of main is bounded by a timeout of its own.
FairSpec == Spec /\ WF_vars(MainStep)

-----------------------------------------------------------------------------
(***************************************************************************)
(* Properties.                                                             *)
(***************************************************************************)

\* Applying the overrides twice, with the proxies' address exported between,
\* gives what one application to the file in the final environment would: a
\* provider demoted at first is not left behind in plaintext.
OverridesSettle ==
  main \notin {"down", "override"}
    => conf = ApplyRuntimeProviderOverrides(file.rows, env)

\* The managed address gets into the configuration and the table, where it
\* survives the process, only after something has answered there.
ManagedAddressAnswered ==
  \A rows \in {conf, table} :
    rows["privatemode"] # NoRow /\ rows["privatemode"].base = "managed" => answered

ConfidentialTier == {"confidential", "encrypted"}  \* modelpolicy.IsConfidentialTier

\* A provider row that main wrote last, at the provider's own public API.
DirectByMain(p) == p \notin foreign /\ table[p] # NoRow /\ table[p].base = "direct"

\* Over all starts in whatever environments, with lost writes and writes of the
\* admin server between, main leaves PrivateMode's public API in a tier routing
\* takes for confidential only as "encrypted", and only if a file says so itself.
DirectOnlyAsEncrypted ==
  DirectByMain("privatemode") /\ table["privatemode"].tier \in ConfidentialTier =>
    /\ table["privatemode"].tier = "encrypted"
    /\ \E f \in Files : /\ f.rows["privatemode"] # NoRow
                        /\ f.rows["privatemode"].base = "direct"
                        /\ f.rows["privatemode"].tier = "encrypted"

\* What the configuration's comment says: PrivateMode's public API is downgraded
\* to plaintext. The override demotes the tier "confidential" only.
DirectIsPlaintext == DirectByMain("privatemode") => table["privatemode"].tier = "plaintext"

\* A process that returns from main, or gives up waiting for its proxy, leaves
\* no container of its own behind, unless it could not be stopped.
StopLeavesNoContainer ==
  main = "down" /\ end \in {"returned", "unready"} /\ ~stubborn => ~(mine /\ box # "none")

\* A process that is started comes to serve or ends, and once it is told to stop
\* it ends, whatever docker and the container do.
StartAndStopEnd ==
  /\ main = "start" ~> main \in {"serve", "down"}
  /\ main = "shutdown" ~> main = "down"

=============================================================================
