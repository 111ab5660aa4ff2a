---------------------------- MODULE StartupProofs ----------------------------
(***************************************************************************)
(* What the run of Startup checks on a few files and environments, for all *)
(* of them, and for any number of starts and faults.                       *)
(***************************************************************************)
EXTENDS Startup, TLAPS

(***************************************************************************)
(* The overrides.                                                          *)
(***************************************************************************)

\* Both overrides give provider rows.
LEMMA OverriddenRows ==
  ASSUME NEW row \in Row, NEW url \in URL
  PROVE  OverridePPQ(row, url) \in Row /\ OverridePrivateMode(row, url) \in Row
<1>1. OverridePPQ(row, url) \in Row
  BY DEF OverridePPQ, Row, URL
<1>2. OverridePrivateMode(row, url) \in Row
  BY DEF OverridePrivateMode, Row, URL
<1> QED BY <1>1, <1>2

\* The overrides keep the form of a provider row.
LEMMA OverridesKeepRows ==
  ASSUME NEW rows \in Rows, NEW e \in Environment
  PROVE  /\ ApplyRuntimeProviderOverrides(rows, e) \in Rows
         /\ \A p \in ID : rows[p] = NoRow <=> ApplyRuntimeProviderOverrides(rows, e)[p] = NoRow
<1>1. ASSUME NEW p \in ID
      PROVE  /\ Overridden(p, rows[p], e) \in Row \cup {NoRow}
             /\ rows[p] = NoRow <=> Overridden(p, rows[p], e) = NoRow
  <2>1. rows[p] \in Row \cup {NoRow}
    BY DEF Rows
  <2>2. e.ppq \in URL /\ e.privatemode \in URL
    BY DEF Environment
  <2>3. CASE rows[p] = NoRow
    BY <2>3 DEF Overridden
  <2>4. CASE rows[p] # NoRow
    <3>1. rows[p] \in Row
      BY <2>1, <2>4
    <3>2. OverridePPQ(rows[p], e.ppq) \in Row
      BY <2>2, <3>1 DEF OverridePPQ, Row, URL
    <3>3. OverridePrivateMode(rows[p], e.privatemode) \in Row
      BY <2>2, <3>1 DEF OverridePrivateMode, Row, URL
    <3>4. Overridden(p, rows[p], e) \in Row
      BY <2>4, <3>1, <3>2, <3>3 DEF Overridden, ID
    <3> QED
      BY <2>4, <3>4, NoRowAssumption
  <2> QED
    BY <2>3, <2>4
<1> QED
  BY <1>1 DEF ApplyRuntimeProviderOverrides, Rows

\* Rows are the same when their fields are.
LEMMA SameFields ==
  ASSUME NEW r \in Row, NEW s \in Row,
         r.base = s.base, r.tier = s.tier, r.typed = s.typed, r.bundle = s.bundle,
         r.useProxy = s.useProxy
  PROVE  r = s
BY DEF Row

\* PPQ's override under an unchanged environment changes nothing more.
LEMMA PPQSettles ==
  ASSUME NEW row \in Row, NEW url \in URL
  PROVE  OverridePPQ(OverridePPQ(row, url), url) = OverridePPQ(row, url)
<1> DEFINE once == OverridePPQ(row, url)
           proxied == url # "none" /\ ~IsPPQDirectAPI(url)
           native == IsPPQDirectAPI(row.base) /\ row.tier = "encrypted"
<1> SUFFICES OverridePPQ(once, url) = once
  OBVIOUS
<1>1. once \in Row
  BY OverriddenRows
<1>2. proxied => once.base = url /\ once.tier = "encrypted" /\ once.useProxy = TRUE
  BY DEF OverridePPQ, Row
<1>3. ~proxied /\ native => /\ once.base = "private" /\ once.useProxy = FALSE
                            /\ once.bundle \notin {"none", "legacy"}
  BY DEF OverridePPQ, Row
<1>4. ~proxied /\ ~native => ~(IsPPQDirectAPI(once.base) /\ once.tier = "encrypted")
  BY DEF OverridePPQ
<1> HIDE DEF once, native
<1>5. CASE proxied
  <2>1. OverridePPQ(once, url)
          = [once EXCEPT !.base = url, !.tier = "encrypted", !.useProxy = TRUE]
    BY <1>5 DEF OverridePPQ
  <2>2. [once EXCEPT !.base = url, !.tier = "encrypted", !.useProxy = TRUE] = once
    BY <1>1, <1>2, <1>5 DEF Row
  <2> QED BY <2>1, <2>2
<1>6. CASE ~proxied /\ native
  <2>1. \/ OverridePPQ(once, url) = once
        \/ OverridePPQ(once, url)
             = [once EXCEPT !.base = "private", !.useProxy = FALSE, !.bundle = once.bundle]
    BY <1>1, <1>3, <1>6 DEF OverridePPQ, Row
  <2>2. [once EXCEPT !.base = "private", !.useProxy = FALSE, !.bundle = once.bundle] = once
    BY <1>1, <1>3, <1>6 DEF Row
  <2> QED BY <2>1, <2>2
<1>7. CASE ~proxied /\ ~native
  BY <1>4, <1>7 DEF OverridePPQ
<1> QED BY <1>5, <1>6, <1>7

\* PrivateMode's override decides again when an address has appeared, whatever
\* the first one made of the row.
LEMMA PrivateModeSettles ==
  ASSUME NEW row \in Row, NEW u1 \in URL, NEW u2 \in URL,
         u1 = u2 \/ (u1 = "none" /\ u2 = "managed")
  PROVE  OverridePrivateMode(OverridePrivateMode(row, u1), u2) = OverridePrivateMode(row, u2)
<1> DEFINE once == OverridePrivateMode(row, u1)
           proxied == u2 \notin {"none", "direct"}
<1> SUFFICES OverridePrivateMode(once, u2) = OverridePrivateMode(row, u2)
  OBVIOUS
<1>1. once \in Row
  BY OverriddenRows
<1>2. once.typed = row.typed /\ once.bundle = row.bundle /\ once.useProxy = row.useProxy
  BY DEF OverridePrivateMode, Row
<1>3. ~proxied => /\ OverridePrivateMode(row, u2) = once
                  /\ ~(once.base = "direct" /\ once.tier = "confidential")
  BY DEF OverridePrivateMode, Row
<1> HIDE DEF once
<1>4. CASE proxied
  <2>1. /\ OverridePrivateMode(once, u2) = [once EXCEPT !.base = u2, !.tier = "confidential"]
        /\ OverridePrivateMode(row, u2) = [row EXCEPT !.base = u2, !.tier = "confidential"]
    BY <1>4 DEF OverridePrivateMode
  <2>2. [once EXCEPT !.base = u2, !.tier = "confidential"]
          = [row EXCEPT !.base = u2, !.tier = "confidential"]
    <3> DEFINE a == [once EXCEPT !.base = u2, !.tier = "confidential"]
               b == [row EXCEPT !.base = u2, !.tier = "confidential"]
    <3>1. a \in Row /\ b \in Row
      BY <1>1 DEF Row
    <3>2. /\ a.base = b.base /\ a.tier = b.tier /\ a.typed = b.typed
          /\ a.bundle = b.bundle /\ a.useProxy = b.useProxy
      BY <1>1, <1>2 DEF Row
    <3> HIDE DEF a, b
    <3>3. a = b
      BY <3>1, <3>2, SameFields
    <3> QED BY <3>3 DEF a, b
  <2> QED BY <2>1, <2>2
<1>5. CASE ~proxied
  <2>1. OverridePrivateMode(once, u2) = once
    BY <1>3, <1>5 DEF OverridePrivateMode
  <2> QED BY <1>3, <1>5, <2>1
<1> QED BY <1>4, <1>5

\* An environment in which the proxy's address has appeared, or nothing changed.
Extends(e2, e1) ==
  /\ e2.ppq = e1.ppq
  /\ \/ e2.privatemode = e1.privatemode
     \/ e1.privatemode = "none" /\ e2.privatemode = "managed"

\* Two applications of the overrides, the second in an extended environment, are
\* one application in that environment.
LEMMA SecondOverridesDecide ==
  ASSUME NEW rows \in Rows, NEW e1 \in Environment, NEW e2 \in Environment,
         Extends(e2, e1)
  PROVE  ApplyRuntimeProviderOverrides(ApplyRuntimeProviderOverrides(rows, e1), e2)
           = ApplyRuntimeProviderOverrides(rows, e2)
<1>1. ASSUME NEW p \in ID
      PROVE  Overridden(p, Overridden(p, rows[p], e1), e2) = Overridden(p, rows[p], e2)
  <2>1. CASE rows[p] = NoRow
    BY <2>1 DEF Overridden
  <2>2. CASE rows[p] # NoRow
    <3>1. rows[p] \in Row
      BY <2>2 DEF Rows
    <3>2. /\ e1.ppq \in URL /\ e1.privatemode \in URL
          /\ e2.ppq \in URL /\ e2.privatemode \in URL
      BY DEF Environment
    <3>3. /\ OverridePPQ(rows[p], e1.ppq) # NoRow
          /\ OverridePrivateMode(rows[p], e1.privatemode) # NoRow
      BY <3>1, <3>2, NoRowAssumption DEF OverridePPQ, OverridePrivateMode, Row, URL
    <3>4. CASE p = "ppq"
      BY <2>2, <3>1, <3>2, <3>3, <3>4, PPQSettles DEF Overridden, Extends
    <3>5. CASE p = "privatemode"
      BY <2>2, <3>1, <3>2, <3>3, <3>5, PrivateModeSettles DEF Overridden, Extends
    <3>6. CASE p = "other"
      BY <2>2, <3>6 DEF Overridden
    <3> QED BY <3>4, <3>5, <3>6 DEF ID
  <2> QED BY <2>1, <2>2
<1> QED BY <1>1 DEF ApplyRuntimeProviderOverrides

\* A row the overrides have made confidential at PrivateMode's public API was
\* there, and encrypted, before; one at the managed address was, or the
\* environment says so.
LEMMA PrivateModeOverridden ==
  ASSUME NEW row \in Row, NEW url \in URL
  PROVE  /\ OverridePrivateMode(row, url).base = "direct"
            /\ OverridePrivateMode(row, url).tier \in ConfidentialTier
              => /\ row.base = "direct" /\ row.tier = "encrypted"
                 /\ OverridePrivateMode(row, url).tier = "encrypted"
         /\ OverridePrivateMode(row, url).base = "managed"
              => url = "managed" \/ row.base = "managed"
BY DEF OverridePrivateMode, Row, URL, ConfidentialTier

-----------------------------------------------------------------------------
(***************************************************************************)
(* Type correctness.                                                       *)
(***************************************************************************)

LEMMA TypeInit == Init => TypeOK
<1> SUFFICES ASSUME Init PROVE TypeOK
  OBVIOUS
<1>1. conf \in Rows /\ table \in Rows
  BY DEF Init, Rows
<1>2. file \in File /\ env \in Environment
  BY FileAssumption, EnvironmentAssumption DEF Init
<1>3. starts \in 0..MaxStarts /\ faults \in 0..MaxFaults
  BY StartAssumption DEF Init
<1> QED BY <1>1, <1>2, <1>3 DEF Init, TypeOK, Phases

LEMMA TypeStep == TypeOK /\ [Next]_vars => TypeOK'
<1> SUFFICES ASSUME TypeOK, [Next]_vars PROVE TypeOK'
  OBVIOUS
<1> USE StartAssumption DEF dbVars
<1>0. ASSUME Fault PROVE faults' \in 0..MaxFaults
  BY <1>0 DEF Fault, TypeOK
<1>1. CASE Launch
  <2> PICK f \in Files, e \in Environments :
             /\ file' = f /\ env' = e
             /\ conf' = ApplyRuntimeProviderOverrides(f.rows, e)
    BY <1>1 DEF Launch
  <2>1. f \in File /\ e \in Environment /\ f.rows \in Rows
    BY FileAssumption, EnvironmentAssumption DEF File
  <2>2. conf' \in Rows
    BY <2>1, OverridesKeepRows
  <2>3. starts' \in 0..MaxStarts /\ mode' \in {"serve", "init", "fetch"} /\ main' \in Phases
    BY <1>1 DEF Launch, Goto, TypeOK, Phases
  <2> QED BY <1>1, <2>1, <2>2, <2>3 DEF Launch, Goto, TypeOK
<1>2. CASE StartManagedProxies
  BY <1>2 DEF StartManagedProxies, Goto, TypeOK, Phases, processVars, proxyVars
<1>3. CASE UseExisting \/ BecomesReady
  <2>1. env' \in Environment
    BY <1>3 DEF UseExisting, BecomesReady, ExportAddress, TypeOK, Environment, URL
  <2> QED BY <1>3, <2>1 DEF UseExisting, BecomesReady, ExportAddress, Goto, TypeOK, Phases,
                            processVars, proxyVars
<1>4. CASE RunContainer
  BY <1>0, <1>4 DEF RunContainer, NotAnswered, Goto, TypeOK, Phases, processVars
<1>5. CASE NoDocker
  BY <1>0, <1>5 DEF NoDocker, NotAnswered, End, TypeOK, Phases, processVars, proxyVars
<1>6. CASE WaitTimesOut
  BY <1>6 DEF WaitTimesOut, Goto, TypeOK, Phases, processVars, proxyVars
<1>7. CASE DockerStop
  BY <1>7 DEF DockerStop, Goto, TypeOK, Phases, processVars
<1>8. CASE Terminate
  <2>1. stubborn' \in BOOLEAN
    BY <1>8 DEF Terminate
  <2> QED BY <1>8, <2>1 DEF Terminate, End, TypeOK, Phases, processVars
<1>9. CASE OverrideAgain
  <2>1. conf' \in Rows /\ \A p \in ID : conf[p] # NoRow => conf'[p] # NoRow
    BY <1>9, OverridesKeepRows DEF OverrideAgain, TypeOK
  <2>2. \A p \in todo : conf'[p] \in Row
    BY <2>1, NoRowAssumption DEF TypeOK, Rows
  <2> QED BY <1>9, <2>1, <2>2 DEF OverrideAgain, Goto, TypeOK, Phases, processVars, proxyVars
<1>10. CASE Validate
  BY <1>10 DEF Validate, Goto, End, TypeOK, Phases, processVars, proxyVars
<1>11. CASE OpenDatabase
  <2>1. Configured(conf) \subseteq ID /\ \A p \in Configured(conf) : conf[p] \in Row
    BY DEF Configured, TypeOK, Rows
  <2> QED BY <1>11, <2>1 DEF OpenDatabase, Goto, End, TypeOK, Phases, processVars, proxyVars
<1>12. CASE OpenFails
  BY <1>0, <1>12 DEF OpenFails, End, TypeOK, Phases, processVars, proxyVars
<1>13. ASSUME NEW p \in ID, ConfigureProvider(p) PROVE TypeOK'
  <2>1. table' \in Rows
    BY <1>13 DEF ConfigureProvider, TypeOK, Rows
  <2>2. faults' \in 0..MaxFaults
    BY <1>0, <1>13 DEF ConfigureProvider, TypeOK
  <2> QED BY <1>13, <2>1, <2>2 DEF ConfigureProvider, TypeOK, processVars, proxyVars
<1>14. CASE AllConfigured
  BY <1>14 DEF AllConfigured, Goto, TypeOK, Phases, processVars, proxyVars
<1>15. CASE FetchModels
  BY <1>0, <1>15 DEF FetchModels, Goto, End, TypeOK, Phases, processVars, proxyVars
<1>16. CASE ListenFails
  BY <1>0, <1>16 DEF ListenFails, End, TypeOK, Phases, processVars, proxyVars
<1>17. CASE Shutdown
  BY <1>17 DEF Shutdown, Goto, TypeOK, Phases, processVars, proxyVars
<1>18. CASE Signal
  BY <1>18 DEF Signal, Goto, TypeOK, Phases, processVars, proxyVars
<1>19. CASE Kill
  BY <1>0, <1>19 DEF Kill, End, TypeOK, Phases, processVars, proxyVars
<1>20. CASE ContainerBoots \/ ContainerDies
  BY <1>20 DEF ContainerBoots, ContainerDies, TypeOK, processVars
<1>21. CASE UNCHANGED vars
  BY <1>21 DEF vars, TypeOK
<1>22. ASSUME NEW p \in ID, CreateProvider(p) PROVE TypeOK'
  <2>1. table' \in Rows
    BY <1>22, AdminAssumption DEF CreateProvider, TypeOK, Rows
  <2> QED BY <1>22, <2>1 DEF CreateProvider, TypeOK, processVars, proxyVars
<1> QED BY <1>1, <1>2, <1>3, <1>4, <1>5, <1>6, <1>7, <1>8, <1>9, <1>10, <1>11, <1>12, <1>13,
           <1>14, <1>15, <1>16, <1>17, <1>18, <1>19, <1>20, <1>21, <1>22
        DEF Next, MainStep

\* Whatever files and environments the process is started with, its state keeps
\* its type: the overrides make rows of rows, and only configured providers are
\* written into the table.
THEOREM StartupTypeCorrect == Spec => []TypeOK
<1>1. Init => TypeOK
  BY TypeInit
<1>2. TypeOK /\ [Next]_vars => TypeOK'
  BY TypeStep
<1> QED BY <1>1, <1>2, PTL DEF Spec

-----------------------------------------------------------------------------
(***************************************************************************)
(* The configuration that is served.                                       *)
(***************************************************************************)

\* The configuration is that of the file in the environment the overrides were
\* last applied in, and only the proxies' address may have been added since.
SettledInv ==
  main # "down" =>
    /\ file \in Files
    /\ main = "override" =>
         \E e \in Environment : /\ Extends(env, e)
                                /\ conf = ApplyRuntimeProviderOverrides(file.rows, e)
    /\ main # "override" => conf = ApplyRuntimeProviderOverrides(file.rows, env)
    /\ main \in {"probe", "wait"} => env.privatemode = "none"

\* Steps that leave the configuration, the file and the environment alone, and do
\* not start a process or export an address.
LEMMA SettledFrame ==
  ASSUME SettledInv, main # "down", main # "override",
         UNCHANGED <<file, env, conf>>,
         main' = "probe" => main = "start" /\ env.privatemode = "none",
         main' = "wait" => main \in {"probe", "wait"},
         TypeOK
  PROVE  SettledInv'
<1>1. Extends(env, env)
  BY DEF Extends
<1> QED BY <1>1 DEF SettledInv, TypeOK

LEMMA SettledStep == TypeOK /\ SettledInv /\ [Next]_vars => SettledInv'
<1> SUFFICES ASSUME TypeOK, SettledInv, [Next]_vars PROVE SettledInv'
  OBVIOUS
<1>1. CASE Launch
  BY <1>1 DEF Launch, Goto, SettledInv
<1>2. CASE StartManagedProxies
  BY <1>2, SettledFrame DEF StartManagedProxies, NeedsManagedProxy, Goto, processVars
<1>3. CASE UseExisting \/ BecomesReady
  <2>1. /\ main \in {"probe", "wait"} /\ main' = "override"
        /\ env' = [env EXCEPT !.privatemode = "managed"] /\ UNCHANGED <<file, conf>>
    BY <1>3 DEF UseExisting, BecomesReady, ExportAddress, Goto, processVars
  <2>2. Extends(env', env)
    BY <2>1 DEF Extends, SettledInv, TypeOK, Environment
  <2>3. env \in Environment
    BY DEF TypeOK
  <2> QED BY <2>1, <2>2, <2>3 DEF SettledInv
<1>4. CASE OverrideAgain
  <2>1. PICK e \in Environment : /\ Extends(env, e)
                                 /\ conf = ApplyRuntimeProviderOverrides(file.rows, e)
    BY <1>4 DEF OverrideAgain, SettledInv
  <2>2. file.rows \in Rows /\ env \in Environment
    BY DEF TypeOK, File
  <2>3. conf' = ApplyRuntimeProviderOverrides(file.rows, env)
    BY <1>4, <2>1, <2>2, SecondOverridesDecide DEF OverrideAgain
  <2> QED BY <1>4, <2>3 DEF OverrideAgain, Goto, SettledInv, processVars
<1>5. CASE RunContainer \/ NoDocker \/ WaitTimesOut
  BY <1>5, SettledFrame DEF RunContainer, NoDocker, WaitTimesOut, Goto, End, processVars,
                            SettledInv
<1>6. CASE DockerStop \/ Terminate
  BY <1>6, SettledFrame DEF DockerStop, Terminate, Goto, End, processVars, SettledInv
<1>7. CASE Validate \/ OpenDatabase \/ OpenFails \/ AllConfigured
  BY <1>7, SettledFrame DEF Validate, OpenDatabase, OpenFails, AllConfigured, Goto, End,
                            processVars, SettledInv
<1>8. CASE FetchModels \/ ListenFails \/ Shutdown \/ Signal
  BY <1>8, SettledFrame DEF FetchModels, ListenFails, Shutdown, Signal, Goto, End,
                            processVars, SettledInv
<1>9. ASSUME NEW p \in ID, ConfigureProvider(p) PROVE SettledInv'
  BY <1>9, SettledFrame DEF ConfigureProvider, processVars, SettledInv
<1>12. ASSUME NEW p \in ID, CreateProvider(p) PROVE SettledInv'
  BY <1>12, SettledFrame DEF CreateProvider, processVars, SettledInv
<1>10. CASE Kill
  BY <1>10 DEF Kill, End, SettledInv
<1>11. CASE ContainerBoots \/ ContainerDies \/ UNCHANGED vars
  BY <1>11 DEF ContainerBoots, ContainerDies, vars, processVars, SettledInv
<1> QED BY <1>1, <1>2, <1>3, <1>4, <1>5, <1>6, <1>7, <1>8, <1>9, <1>10, <1>11, <1>12
        DEF Next, MainStep

\* The two applications of the overrides around the start of the managed proxies
\* are as good as one in the final environment, for every file and environment.
THEOREM OverridesAreSettled == Spec => []OverridesSettle
<1>1. Init => SettledInv
  BY DEF Init, SettledInv
<1>2. SettledInv => OverridesSettle
  BY DEF SettledInv, OverridesSettle
<1> QED BY <1>1, <1>2, SettledStep, StartupTypeCorrect, PTL DEF Spec

\* A file that has PrivateMode's public API as encrypted.
SaysEncrypted(f) == /\ f.rows["privatemode"] # NoRow
                    /\ f.rows["privatemode"].base = "direct"
                    /\ f.rows["privatemode"].tier = "encrypted"

\* PrivateMode's rows, in the configuration and those in the table that come from
\* it: confidential at the public API only as a file says, and nowhere at the
\* managed address before it has answered.
DirectFine(row) ==
  row # NoRow /\ row.base = "direct" /\ row.tier \in ConfidentialTier =>
    row.tier = "encrypted" /\ \E f \in Files : SaysEncrypted(f)
ManagedFine(row) == row # NoRow /\ row.base = "managed" => answered
PrivateModeInv ==
  /\ env.privatemode = "managed" => answered
  /\ DirectFine(conf["privatemode"]) /\ ManagedFine(conf["privatemode"])
  /\ "privatemode" \notin foreign => DirectFine(table["privatemode"])
  /\ ManagedFine(table["privatemode"])

LEMMA PrivateModeStep == TypeOK /\ PrivateModeInv /\ [Next]_vars => PrivateModeInv'
<1> SUFFICES ASSUME TypeOK, PrivateModeInv, [Next]_vars PROVE PrivateModeInv'
  OBVIOUS
<1> USE DEF dbVars
<1>1. CASE Launch
  <2> PICK f \in Files, e \in Environments :
             /\ env' = e /\ conf' = ApplyRuntimeProviderOverrides(f.rows, e)
    BY <1>1 DEF Launch
  <2>1. e \in Environment /\ e.privatemode \in URL /\ e.privatemode # "managed"
    BY EnvironmentAssumption DEF Environment
  <2>2. f.rows \in Rows /\ (f.rows["privatemode"] # NoRow => f.rows["privatemode"].base # "managed")
    BY FileAssumption DEF File
  <2>3. conf'["privatemode"] = Overridden("privatemode", f.rows["privatemode"], e)
    BY DEF ApplyRuntimeProviderOverrides, ID
  <2>4. CASE f.rows["privatemode"] = NoRow
    BY <1>1, <2>1, <2>3, <2>4
       DEF Overridden, Launch, PrivateModeInv, DirectFine, ManagedFine
  <2>5. CASE f.rows["privatemode"] # NoRow
    <3>1. f.rows["privatemode"] \in Row
      BY <2>2, <2>5 DEF Rows, ID
    <3>2. conf'["privatemode"] = OverridePrivateMode(f.rows["privatemode"], e.privatemode)
      BY <2>3, <2>5 DEF Overridden
    <3>3. conf'["privatemode"].base # "managed"
      BY <2>1, <2>2, <2>5, <3>1, <3>2, PrivateModeOverridden
    <3>4. conf'["privatemode"].base = "direct" /\ conf'["privatemode"].tier \in ConfidentialTier
            => conf'["privatemode"].tier = "encrypted" /\ SaysEncrypted(f)
      BY <2>1, <2>5, <3>1, <3>2, PrivateModeOverridden DEF SaysEncrypted
    <3> QED
      BY <1>1, <2>1, <3>3, <3>4 DEF Launch, PrivateModeInv, DirectFine, ManagedFine
  <2> QED BY <2>4, <2>5
<1>2. CASE UseExisting \/ BecomesReady
  BY <1>2 DEF UseExisting, BecomesReady, ExportAddress, PrivateModeInv, DirectFine, ManagedFine
<1>3. CASE OverrideAgain
  <2>1. env \in Environment /\ env.privatemode \in URL
    BY DEF TypeOK, Environment
  <2>2. conf'["privatemode"] = Overridden("privatemode", conf["privatemode"], env)
    BY <1>3 DEF OverrideAgain, ApplyRuntimeProviderOverrides, ID
  <2>3. CASE conf["privatemode"] = NoRow
    BY <1>3, <2>2, <2>3
       DEF OverrideAgain, Overridden, PrivateModeInv, DirectFine, ManagedFine
  <2>4. CASE conf["privatemode"] # NoRow
    <3>1. conf["privatemode"] \in Row
      BY <2>4 DEF TypeOK, Rows, ID
    <3>2. conf'["privatemode"] = OverridePrivateMode(conf["privatemode"], env.privatemode)
      BY <2>2, <2>4 DEF Overridden
    <3>3. conf'["privatemode"].base = "managed" => answered
      BY <2>1, <2>4, <3>1, <3>2, PrivateModeOverridden DEF PrivateModeInv, ManagedFine
    <3>4. conf'["privatemode"].base = "direct" /\ conf'["privatemode"].tier \in ConfidentialTier
            => conf'["privatemode"].tier = "encrypted" /\ \E f \in Files : SaysEncrypted(f)
      BY <2>1, <2>4, <3>1, <3>2, PrivateModeOverridden
         DEF PrivateModeInv, DirectFine, ConfidentialTier
    <3> QED
      BY <1>3, <3>3, <3>4 DEF OverrideAgain, PrivateModeInv, DirectFine, ManagedFine
  <2> QED BY <2>3, <2>4
<1>4. ASSUME NEW p \in ID, ConfigureProvider(p) PROVE PrivateModeInv'
  <2>1. \/ table'["privatemode"] = conf["privatemode"]
        \/ /\ table'["privatemode"] = table["privatemode"]
           /\ "privatemode" \in foreign => "privatemode" \in foreign'
    BY <1>4 DEF ConfigureProvider, TypeOK, Rows, ID
  <2> QED
    BY <1>4, <2>1 DEF ConfigureProvider, PrivateModeInv, DirectFine, ManagedFine
<1>5. ASSUME NEW p \in ID, CreateProvider(p) PROVE PrivateModeInv'
  <2>1. PICK row \in AdminRows : table' = [table EXCEPT ![p] = row]
    BY <1>5 DEF CreateProvider
  <2>2. row.base # "managed"
    BY AdminAssumption
  <2>3. foreign' = foreign \cup {p} /\ UNCHANGED <<env, conf, answered>>
    BY <1>5 DEF CreateProvider
  <2>4. CASE p = "privatemode"
    <3>1. table'["privatemode"] = row
      BY <2>1, <2>4 DEF TypeOK, Rows, ID
    <3> QED BY <2>2, <2>3, <2>4, <3>1 DEF PrivateModeInv, DirectFine, ManagedFine
  <2>5. CASE p # "privatemode"
    <3>1. table'["privatemode"] = table["privatemode"]
      BY <2>1, <2>5 DEF TypeOK, Rows, ID
    <3> QED BY <2>3, <2>5, <3>1 DEF PrivateModeInv, DirectFine, ManagedFine
  <2> QED BY <2>4, <2>5
<1>6. CASE UNCHANGED <<env, conf, table, foreign, answered>>
  BY <1>6 DEF PrivateModeInv, DirectFine, ManagedFine
<1>7. CASE StartManagedProxies \/ RunContainer \/ NoDocker \/ WaitTimesOut
  BY <1>6, <1>7 DEF StartManagedProxies, RunContainer, NoDocker, WaitTimesOut
<1>8. CASE DockerStop \/ Terminate \/ Validate \/ OpenDatabase \/ OpenFails \/ AllConfigured
  BY <1>6, <1>8 DEF DockerStop, Terminate, Validate, OpenDatabase, OpenFails, AllConfigured
<1>9. CASE FetchModels \/ ListenFails \/ Shutdown \/ Signal \/ Kill
  BY <1>6, <1>9 DEF FetchModels, ListenFails, Shutdown, Signal, Kill
<1>10. CASE ContainerBoots \/ ContainerDies \/ UNCHANGED vars
  BY <1>6, <1>10 DEF ContainerBoots, ContainerDies, vars
<1> QED BY <1>1, <1>2, <1>3, <1>4, <1>5, <1>7, <1>8, <1>9, <1>10 DEF Next, MainStep

LEMMA PrivateModeInit == Init => PrivateModeInv
BY EnvironmentAssumption DEF Init, PrivateModeInv, DirectFine, ManagedFine, ID

\* Over any number of starts, with writes lost, processes killed and the admin
\* server writing what it likes, a row main has written last calls PrivateMode's
\* public API confidential only as "encrypted", and only if some file does.
THEOREM DirectIsOnlyEncrypted == Spec => []DirectOnlyAsEncrypted
<1>1. PrivateModeInv => DirectOnlyAsEncrypted
  BY DEF PrivateModeInv, DirectFine, SaysEncrypted, DirectOnlyAsEncrypted, DirectByMain
<1> QED BY <1>1, PrivateModeInit, PrivateModeStep, StartupTypeCorrect, PTL DEF Spec

\* The managed address is configured, and written into the table, only after
\* something has answered there.
THEOREM ManagedAddressHasAnswered == Spec => []ManagedAddressAnswered
<1>1. PrivateModeInv => ManagedAddressAnswered
  BY DEF PrivateModeInv, ManagedFine, ManagedAddressAnswered
<1> QED BY <1>1, PrivateModeInit, PrivateModeStep, StartupTypeCorrect, PTL DEF Spec

-----------------------------------------------------------------------------
(***************************************************************************)
(* The container.                                                          *)
(***************************************************************************)

\* A container is this process's only from the moment it was run; the ways out of
\* main that do not stop it are before that moment.
ContainerInv ==
  /\ main \in {"start", "probe"} => ~mine
  /\ main # "down" /\ mode = "init" => ~mine /\ main \in {"start", "validate", "open"}
  /\ StopLeavesNoContainer

LEMMA ContainerStep == TypeOK /\ ContainerInv /\ [Next]_vars => ContainerInv'
<1> SUFFICES ASSUME TypeOK, ContainerInv, [Next]_vars PROVE ContainerInv'
  OBVIOUS
<1> USE DEF ContainerInv, StopLeavesNoContainer, Goto, End, processVars, proxyVars
<1>1. CASE Launch
  BY <1>1 DEF Launch
<1>2. CASE StartManagedProxies
  BY <1>2 DEF StartManagedProxies
<1>3. CASE UseExisting \/ BecomesReady
  BY <1>3 DEF UseExisting, BecomesReady, ExportAddress
<1>4. CASE RunContainer \/ NoDocker \/ WaitTimesOut
  BY <1>4 DEF RunContainer, NoDocker, WaitTimesOut
<1>5. CASE DockerStop
  BY <1>5 DEF DockerStop
<1>6. CASE Terminate
  BY <1>6 DEF Terminate
<1>7. CASE OverrideAgain \/ Validate \/ OpenDatabase \/ OpenFails
  BY <1>7 DEF OverrideAgain, Validate, OpenDatabase, OpenFails
<1>8. ASSUME NEW p \in ID, ConfigureProvider(p) PROVE ContainerInv'
  BY <1>8 DEF ConfigureProvider
<1>12. ASSUME NEW p \in ID, CreateProvider(p) PROVE ContainerInv'
  BY <1>12 DEF CreateProvider
<1>9. CASE AllConfigured \/ FetchModels \/ ListenFails \/ Shutdown
  BY <1>9 DEF AllConfigured, FetchModels, ListenFails, Shutdown
<1>10. CASE Signal \/ Kill
  BY <1>10 DEF Signal, Kill
<1>11. CASE ContainerBoots \/ ContainerDies \/ UNCHANGED vars
  BY <1>11 DEF ContainerBoots, ContainerDies, vars
<1> QED BY <1>1, <1>2, <1>3, <1>4, <1>5, <1>6, <1>7, <1>8, <1>9, <1>10, <1>11, <1>12
        DEF Next, MainStep

\* A process that returns from main, or that gives up waiting for its proxy, has
\* stopped the container it ran, if docker or a signal could.
THEOREM NoContainerIsLeft == Spec => []StopLeavesNoContainer
<1>1. Init => ContainerInv
  BY DEF Init, ContainerInv, StopLeavesNoContainer
<1>2. ContainerInv => StopLeavesNoContainer
  BY DEF ContainerInv
<1> QED BY <1>1, <1>2, ContainerStep, StartupTypeCorrect, PTL DEF Spec

=============================================================================
