--------------------------- MODULE CampaignProofs ---------------------------
(***************************************************************************)
(* What people decided stands: locale preferences, the sources of a        *)
(* campaign, its reviewed variants and plans, for any number of            *)
(* overlapping requests; a calendar lists what it is asked for, whatever   *)
(* events there are; and the variables of each component keep their types. *)
(***************************************************************************)
EXTENDS MCCampaign, AccessProofs, AutoDisableProofs, FiniteSetTheorems, SequenceTheorems, TLAPS

-----------------------------------------------------------------------------
(* Locale preferences. *)

\* A table of preferences: a value of every field, of the user and of the organization.
IsTable(t) == t = [s \in Subjects |-> [f \in Fields |-> t[s][f]]]

\* The columns the argument looks at.
LocaleShape ==
    /\ IsTable(stored) /\ IsTable(trail)
    /\ crossedOver \in BOOLEAN /\ broken \in BOOLEAN
    /\ req = [h \in Handlers |-> req[h]]
    /\ \A h \in Handlers : req[h] # Idle => Busy(h, "patch") /\ req[h].whose \in Subjects
    /\ stale \in [Handlers -> BOOLEAN]

\* What a PATCH has read for its audit is what is stored, until another one commits.
PatchHolds(h) == req[h] # Idle /\ ~stale[h] => req[h].previous = stored[req[h].whose]

TrailIsKept == crossedOver \/ (~broken /\ trail = stored)

LocaleIInv == LocaleShape /\ (\A h \in Handlers : PatchHolds(h)) /\ TrailIsKept

\* What PatchIsExact says of one step.
Exact ==
    /\ \A s \in Subjects, f \in Fields :
           stored'[s][f] # stored[s][f] =>
               \E h \in Handlers : /\ Busy(h, "patch")
                                   /\ req[h].whose = s
                                   /\ req[h].body[f] = stored'[s][f]
    /\ refusals' # refusals => stored' = stored

-----------------------------------------------------------------------------
\* Who is idle patches nothing.
LEMMA IdleIsNoPatch == Idle.op # "patch"
  BY DEF Idle

\* The columns' defaults are a table of preferences.
LEMMA DefaultsAreATable == IsTable([s \in {"user", "organization"} |-> Defaults])
  <1>1. Defaults = [f \in Fields |-> Defaults[f]]
    BY DEF Defaults, Fields
  <1> QED BY <1>1 DEF IsTable, Subjects

\* At the start the rows hold the defaults and nobody patches.
LEMMA LocaleInitially == LocalesInit => LocaleIInv
  <1> SUFFICES ASSUME LocalesInit PROVE LocaleIInv
    OBVIOUS
  <1>1. IsTable(stored) /\ IsTable(trail)
    BY DefaultsAreATable DEF LocalesInit
  <1>2. \A h \in Handlers : req[h] = Idle
    BY DEF LocalesInit, NoRequests
  <1>3. LocaleShape
    BY <1>1, <1>2 DEF LocalesInit, NoRequests, LocaleShape
  <1> QED BY <1>2, <1>3 DEF LocaleIInv, PatchHolds, TrailIsKept, LocalesInit

\* Every step keeps the invariant, and a patch writes what it was given.
LEMMA LocaleSteps == LocaleIInv /\ [LocalesNext]_localeVars => LocaleIInv' /\ Exact
  <1> SUFFICES ASSUME LocaleIInv, [LocalesNext]_localeVars PROVE LocaleIInv' /\ Exact
    OBVIOUS
  <1>0. LocaleShape /\ TrailIsKept /\ \A g \in Handlers : PatchHolds(g)
    BY DEF LocaleIInv
  <1>a. UNCHANGED stored => Exact
    BY DEF Exact
  <1>b. ASSUME UNCHANGED <<stored, trail, broken, crossedOver, req, stale>>
        PROVE  LocaleIInv' /\ Exact
    BY <1>0, <1>a, <1>b DEF LocaleIInv, LocaleShape, IsTable, PatchHolds, TrailIsKept, Busy
  <1>1. ASSUME NEW s, NEW body, RefusePatch(s, body) PROVE LocaleIInv' /\ Exact
    BY <1>1, <1>b DEF RefusePatch, requestVars
  <1>2. ASSUME NEW h \in Handlers, NEW s \in Subjects, NEW body, PatchBegins(h, s, body)
        PROVE  LocaleIInv' /\ Exact
    <2> DEFINE r == [op |-> "patch", whose |-> s, body |-> body, previous |-> stored[s]]
    <2>1. r.op = "patch" /\ r.whose = s /\ r.previous = stored[s]
      OBVIOUS
    <2>2. Begin(h, r) /\ UNCHANGED <<stored, trail, broken, crossedOver>>
      BY <1>2 DEF PatchBegins
    <2> HIDE DEF r
    <2>3. /\ req' = [g \in Handlers |-> req'[g]] /\ stale' \in [Handlers -> BOOLEAN]
          /\ req'[h] = r
          /\ \A g \in Handlers \ {h} : req'[g] = req[g] /\ stale'[g] = stale[g]
      BY <1>0, <2>2 DEF Begin, LocaleShape
    <2>4. LocaleShape'
      <3>1. IsTable(stored)' /\ IsTable(trail)'
        BY <1>0, <2>2 DEF LocaleShape, IsTable
      <3>2. \A g \in Handlers : req'[g] # Idle => req'[g].op = "patch" /\ req'[g].whose \in Subjects
        BY <1>0, <2>1, <2>3 DEF LocaleShape, Busy
      <3> QED BY <1>0, <2>2, <2>3, <3>1, <3>2 DEF LocaleShape, Busy
    <2>5. \A g \in Handlers : PatchHolds(g)'
      BY <1>0, <2>1, <2>2, <2>3 DEF PatchHolds
    <2> QED BY <1>0, <1>a, <2>2, <2>4, <2>5 DEF LocaleIInv, TrailIsKept
  <1>3. ASSUME NEW h \in Handlers, PatchCommits(h) PROVE LocaleIInv' /\ Exact
    <2> DEFINE s == req[h].whose
               body == req[h].body
               previous == req[h].previous
               news == {f \in Given(body) : body[f] # previous[f]}
    <2>1. /\ Busy(h, "patch")
          /\ stored' = [stored EXCEPT ![s] = Rewritten(s, body, previous)]
          /\ trail' = [trail EXCEPT ![s] = [f \in Fields |-> IF f \in news THEN body[f] ELSE @[f]]]
          /\ broken' = (broken \/ \E f \in news : previous[f] # trail[s][f])
          /\ crossedOver' = (crossedOver \/ stale[h])
          /\ EndAndOvertake(h) /\ UNCHANGED refusals
      BY <1>3 DEF PatchCommits, AuditPatch
    <2>2. s \in Subjects
      BY <1>0, <2>1, IdleIsNoPatch DEF LocaleShape, Busy
    <2>3. ~stale[h] => previous = stored[s]
      BY <1>0, <2>1, IdleIsNoPatch DEF PatchHolds, Busy
    <2>4. news \subseteq Given(body) /\ Given(body) \subseteq Fields
      BY DEF Given
    <2>5. \A f \in Given(body) \ news : body[f] = previous[f]
      OBVIOUS
    <2> HIDE DEF news
    <2>6. /\ \A f \in Fields : stored'[s][f] = IF f \in Given(body) THEN body[f] ELSE stored[s][f]
          /\ \A f \in Fields : trail'[s][f] = IF f \in news THEN body[f] ELSE trail[s][f]
          /\ \A u \in Subjects \ {s} : stored'[u] = stored[u] /\ trail'[u] = trail[u]
          /\ DOMAIN stored' = Subjects /\ DOMAIN trail' = Subjects
          /\ stored'[s] = [f \in Fields |-> stored'[s][f]]
          /\ trail'[s] = [f \in Fields |-> trail'[s][f]]
      <3>1. DOMAIN stored = Subjects /\ DOMAIN trail = Subjects
        BY <1>0 DEF LocaleShape, IsTable
      <3>2. stored'[s] = Rewritten(s, body, previous)
        BY <2>1, <2>2, <3>1
      <3>3. trail'[s] = [f \in Fields |-> IF f \in news THEN body[f] ELSE trail[s][f]]
        BY <2>1, <2>2, <3>1
      <3>4. /\ \A u \in Subjects \ {s} : stored'[u] = stored[u] /\ trail'[u] = trail[u]
            /\ DOMAIN stored' = Subjects /\ DOMAIN trail' = Subjects
        BY <2>1, <2>2, <3>1
      <3> QED BY <3>2, <3>3, <3>4 DEF Rewritten
    <2>7. /\ \A u \in Subjects \ {s} : stored[u] = [f \in Fields |-> stored[u][f]]
          /\ \A u \in Subjects \ {s} : trail[u] = [f \in Fields |-> trail[u][f]]
      BY <1>0 DEF LocaleShape, IsTable
    <2>8. IsTable(stored)' /\ IsTable(trail)'
      <3>1. /\ \A u \in Subjects : stored'[u] = [f \in Fields |-> stored'[u][f]]
            /\ \A u \in Subjects : trail'[u] = [f \in Fields |-> trail'[u][f]]
        BY <2>6, <2>7
      <3>2. stored' = [u \in Subjects |-> stored'[u]] /\ trail' = [u \in Subjects |-> trail'[u]]
        BY <2>1, <2>6
      <3> QED BY <3>1, <3>2 DEF IsTable
    <2>9. /\ req' = [g \in Handlers |-> req'[g]] /\ stale' \in [Handlers -> BOOLEAN]
          /\ req'[h] = Idle
          /\ \A g \in Handlers \ {h} : req'[g] = req[g]
          /\ \A g \in Handlers \ {h} : req[g] # Idle => stale'[g]
      BY <1>0, <2>1 DEF EndAndOvertake, LocaleShape
    <2>10. broken' \in BOOLEAN /\ crossedOver' \in BOOLEAN
      BY <2>1
    <2>11. LocaleShape'
      <3>1. \A g \in Handlers : req'[g] # Idle => req'[g].op = "patch" /\ req'[g].whose \in Subjects
        BY <1>0, <2>9 DEF LocaleShape, Busy
      <3> QED BY <2>8, <2>9, <2>10, <3>1 DEF LocaleShape, Busy
    <2>12. \A g \in Handlers : PatchHolds(g)'
      BY <2>9 DEF PatchHolds
    <2>13. TrailIsKept'
      <3> SUFFICES ASSUME ~crossedOver' PROVE ~broken' /\ trail' = stored'
        BY DEF TrailIsKept
      <3>1. ~broken /\ trail = stored /\ previous = stored[s]
        BY <1>0, <2>1, <2>3 DEF TrailIsKept
      <3>2. ~broken'
        BY <2>1, <3>1
      <3>3. \A f \in Fields : trail'[s][f] = stored'[s][f]
        BY <2>4, <2>5, <2>6, <3>1
      <3>4. trail'[s] = stored'[s]
        BY <2>6, <3>3
      <3>5. \A u \in Subjects : trail'[u] = stored'[u]
        BY <2>6, <3>1, <3>4
      <3>6. stored' = [u \in Subjects |-> stored'[u]] /\ trail' = [u \in Subjects |-> trail'[u]]
        BY <2>1, <2>6
      <3> QED BY <3>2, <3>5, <3>6
    <2>14. Exact
      <3>1. ASSUME NEW u \in Subjects, NEW f \in Fields, stored'[u][f] # stored[u][f]
            PROVE  u = s /\ body[f] = stored'[u][f]
        BY <2>6, <3>1
      <3> QED BY <2>1, <3>1 DEF Exact
    <2> QED BY <2>11, <2>12, <2>13, <2>14 DEF LocaleIInv
  <1>4. ASSUME NEW h \in Handlers, Lost(h), UNCHANGED <<stored, trail, broken, crossedOver>>
        PROVE  LocaleIInv' /\ Exact
    <2>1. /\ req' = [g \in Handlers |-> req'[g]] /\ stale' \in [Handlers -> BOOLEAN]
          /\ req'[h] = Idle
          /\ \A g \in Handlers \ {h} : req'[g] = req[g] /\ stale'[g] = stale[g]
      BY <1>0, <1>4 DEF Lost, End, LocaleShape
    <2>2. LocaleShape'
      <3>1. IsTable(stored)' /\ IsTable(trail)'
        BY <1>0, <1>4 DEF LocaleShape, IsTable
      <3>2. \A g \in Handlers : req'[g] # Idle => req'[g].op = "patch" /\ req'[g].whose \in Subjects
        BY <1>0, <2>1 DEF LocaleShape, Busy
      <3> QED BY <1>0, <1>4, <2>1, <3>1, <3>2 DEF LocaleShape, Busy
    <2>3. \A g \in Handlers : PatchHolds(g)'
      BY <1>0, <1>4, <2>1 DEF PatchHolds
    <2> QED BY <1>0, <1>4, <1>a, <2>2, <2>3 DEF LocaleIInv, TrailIsKept
  <1>5. CASE UNCHANGED localeVars
    BY <1>5, <1>b DEF localeVars, requestVars
  <1>6. ASSUME NEW h \in Handlers, PatchMyLocale(h) PROVE LocaleIInv' /\ Exact
    <2>1. "user" \in Subjects
      BY DEF Subjects
    <2> QED BY <1>1, <1>2, <1>3, <1>6, <2>1 DEF PatchMyLocale
  <1>7. ASSUME NEW h \in Handlers, PatchOrganizationLocale(h) PROVE LocaleIInv' /\ Exact
    <2>1. "organization" \in Subjects
      BY DEF Subjects
    <2> QED BY <1>1, <1>2, <1>3, <1>7, <2>1 DEF PatchOrganizationLocale
  <1> QED BY <1>4, <1>5, <1>6, <1>7 DEF LocalesNext

\* However PATCHes of the same preferences interleave, one changes only fields it names, to
\* what it names; a refused one changes nothing; and the audit is a chain that ends in what
\* is stored unless two overlapped (I18nService, update_user, update_organization).
THEOREM PreferencesStayKept == LocalesSpec => PreferencesAreKept
  <1>1. LocaleIInv => crossedOver \/ (~broken /\ trail = stored)
    BY DEF LocaleIInv, TrailIsKept
  <1>2. LocaleIInv /\ [LocalesNext]_localeVars => LocaleIInv' /\ [Exact]_localeVars
    BY LocaleSteps
  <1>3. LocalesSpec => [](crossedOver \/ (~broken /\ trail = stored)) /\ [][Exact]_localeVars
    BY LocaleInitially, <1>1, <1>2, PTL DEF LocalesSpec
  <1> QED BY <1>3 DEF PreferencesAreKept, PatchIsExact, Exact

-----------------------------------------------------------------------------
(* Sources. *)

\* The columns the argument looks at.
RegistryShape ==
    /\ registry = [s \in SourceRows |-> registry[s]]
    /\ req = [h \in Handlers |-> req[h]]
    /\ stale \in [Handlers -> BOOLEAN]

\* What a provisioning has found is so until another request changes it: it has found a
\* source of each engine that has one, and the campaign's links.
ProvisionHolds(h) ==
    Busy(h, "provision") /\ ~stale[h] =>
        /\ DOMAIN req[h].found = EvidenceEngines
        /\ \A e \in EvidenceEngines : OfEngine(e) # {} => req[h].found[e] # NoRow
        /\ req[h].ids = pinned

RegistryIInv == RegistryShape /\ \A h \in Handlers : ProvisionHolds(h)

\* What the action properties say of one step.
DecisionStands ==
    \A h \in Handlers, e \in Engines :
        Busy(h, "provision") /\ req'[h] = Idle /\ ~stale[h] /\ OfEngine(e) # {}
        => OfEngine(e)' = OfEngine(e)

OnlyPutUnpins ==
    pinned \subseteq pinned'
    \/ \E h \in Handlers : Busy(h, "put") \/ (Busy(h, "provision") /\ stale[h])

-----------------------------------------------------------------------------
\* Who is idle neither provisions nor pins.
LEMMA IdleIsNoProvision == Idle.op # "provision" /\ Idle.op # "put"
  BY DEF Idle

\* What a launch may use, in whatever state and whatever it is asked for.
LEMMA LaunchesAreRunnable == LaunchesMayRun
  BY DEF LaunchesMayRun, LaunchSources, LaunchOptions, LaunchableOf

\* And where one may run a launch finds one.
LEMMA LaunchesAreFound == LaunchFindsASource
  BY DEF LaunchFindsASource, LaunchSources, LaunchOptions

\* Linking one source more to links that hold all there were takes none away.
LEMMA LinkingAdds ==
  ASSUME NEW t, NEW source, NEW ids, NEW base, base \subseteq t.links, base \subseteq ids
  PROVE  base \subseteq Provisioned(t, source, ids).links
  <1> DEFINE seen == IF t.wrote \/ registry[source] = Absent THEN t.links ELSE ids
  <1>1. base \subseteq seen
    OBVIOUS
  <1>2. CASE source \in seen
    BY <1>1, <1>2 DEF Provisioned
  <1>3. CASE source \notin seen
    <2>1. Provisioned(t, source, ids) = [wrote |-> TRUE, links |-> Linked(seen, source)]
      BY <1>3 DEF Provisioned
    <2> QED BY <1>1, <2>1 DEF Linked
  <1> QED BY <1>2, <1>3

\* A step that tells every request under way leaves none that relies on what it found.
LEMMA AllTold ==
  ASSUME \A g \in Handlers : req'[g] = Idle \/ stale'[g]
  PROVE  \A g \in Handlers : ProvisionHolds(g)'
  BY IdleIsNoProvision DEF ProvisionHolds, Busy

\* What a commit leaves of the requests: nobody relies on what was read before it.
LEMMA OvertakingTells ==
  ASSUME RegistryShape, NEW h \in Handlers, EndAndOvertake(h)
  PROVE  /\ req' = [g \in Handlers |-> req'[g]] /\ stale' \in [Handlers -> BOOLEAN]
         /\ \A g \in Handlers : ProvisionHolds(g)'
         /\ \A g \in Handlers \ {h} : req'[g] = req[g]
  <1>1. /\ req' = [g \in Handlers |-> req'[g]] /\ stale' \in [Handlers -> BOOLEAN]
        /\ req'[h] = Idle
        /\ \A g \in Handlers \ {h} : req'[g] = req[g]
        /\ \A g \in Handlers \ {h} : req[g] # Idle => stale'[g]
    BY DEF RegistryShape, EndAndOvertake
  <1> QED BY <1>1, AllTold

\* A request begins: what is a provisioning's holds as it has just read it.
LEMMA RegistryBegins ==
  ASSUME RegistryIInv, NEW h \in Handlers, NEW r, Begin(h, r), UNCHANGED <<registry, pinned>>,
         ProvisionHolds(h)'
  PROVE  RegistryIInv' /\ DecisionStands /\ OnlyPutUnpins
  <1>1. /\ req' = [g \in Handlers |-> req'[g]] /\ stale' \in [Handlers -> BOOLEAN]
        /\ \A g \in Handlers \ {h} : req'[g] = req[g] /\ stale'[g] = stale[g]
    BY DEF RegistryIInv, RegistryShape, Begin
  <1>2. \A g \in Handlers \ {h} : ProvisionHolds(g)'
    BY <1>1 DEF RegistryIInv, ProvisionHolds, Busy, OfEngine, Registered
  <1>3. RegistryShape'
    BY <1>1 DEF RegistryIInv, RegistryShape
  <1>4. DecisionStands
    BY DEF DecisionStands, OfEngine, Registered
  <1> QED BY <1>2, <1>3, <1>4 DEF RegistryIInv, OnlyPutUnpins

-----------------------------------------------------------------------------
\* At the start there are no sources, no links and no requests.
LEMMA RegistryInitially == RegistryInit => RegistryIInv
  <1> SUFFICES ASSUME RegistryInit PROVE RegistryIInv
    OBVIOUS
  <1>1. \A h \in Handlers : req[h] = Idle
    BY DEF RegistryInit, NoRequests
  <1>2. RegistryShape
    BY DEF RegistryInit, NoRequests, RegistryShape
  <1> QED BY <1>1, <1>2, IdleIsNoProvision DEF RegistryIInv, ProvisionHolds, Busy

\* A provisioning writes.
LEMMA ProvisionSteps ==
  ASSUME RegistryIInv, NEW h \in Handlers, ProvisionWrites(h)
  PROVE  RegistryIInv' /\ DecisionStands /\ OnlyPutUnpins
  <1>0. RegistryShape /\ \A g \in Handlers : ProvisionHolds(g)
    BY DEF RegistryIInv
  <1> DEFINE found == req[h].found
             ids == req[h].ids
             missing == {e \in DOMAIN found : found[e] = NoRow}
  <1>1. Busy(h, "provision") /\ EndAndOvertake(h)
    BY DEF ProvisionWrites
  <1>2. PICK new \in Injection(missing, SourceRows \ Registered) :
          LET source(e) == IF e \in missing THEN new[e] ELSE found[e]
              start == [wrote |-> FALSE, links |-> pinned]
              first == Provisioned(start, source("playwright"), ids)
              end == Provisioned(first, source("selenium"), ids)
          IN  /\ registry' = [s \in SourceRows |->
                     IF s \in Range(new)
                     THEN [engine |-> CHOOSE e \in missing : new[e] = s,
                           enabled |-> TRUE, fit |-> TRUE]
                     ELSE registry[s]]
              /\ pinned' = end.links
    BY DEF ProvisionWrites
  <1>3. new \in [missing -> SourceRows \ Registered]
    BY DEF Injection
  <1>4. Range(new) \subseteq SourceRows \ Registered
    BY <1>3 DEF Range
  <1>5. \A s \in Registered : s \in SourceRows /\ registry'[s] = registry[s]
    BY <1>2, <1>4 DEF Registered
  <1>6. \A s \in Range(new) : s \in SourceRows /\ registry'[s].engine \in missing
    <2> SUFFICES ASSUME NEW s \in Range(new) PROVE s \in SourceRows /\ registry'[s].engine \in missing
      OBVIOUS
    <2>1. s \in SourceRows /\ \E e \in missing : new[e] = s
      BY <1>3, <1>4 DEF Range
    <2>2. (CHOOSE e \in missing : new[e] = s) \in missing
      BY <2>1
    <2>3. registry'[s] = [engine |-> CHOOSE e \in missing : new[e] = s,
                          enabled |-> TRUE, fit |-> TRUE]
      BY <1>2, <2>1
    <2> QED BY <2>1, <2>2, <2>3
  <1>7. \A s \in SourceRows \ (Range(new) \cup Registered) : registry'[s] = Absent
    BY <1>2 DEF Registered
  <1>8. ASSUME NEW e \in Engines, e \notin missing PROVE OfEngine(e)' = OfEngine(e)
    <2>1. ASSUME NEW s \in OfEngine(e) PROVE s \in OfEngine(e)'
      BY <1>5, <2>1 DEF OfEngine, Registered
    <2>2. ASSUME NEW s \in OfEngine(e)' PROVE s \in OfEngine(e)
      <3>1. s \in SourceRows /\ registry'[s] # Absent /\ registry'[s].engine = e
        BY <2>2 DEF OfEngine, Registered
      <3>2. s \notin Range(new)
        BY <1>6, <1>8, <3>1
      <3>3. s \in Registered
        BY <1>7, <3>1, <3>2
      <3> QED BY <1>5, <3>1, <3>3 DEF OfEngine
    <2> QED BY <2>1, <2>2
  <1>9. DecisionStands
    <2> SUFFICES ASSUME NEW g \in Handlers, NEW e \in Engines, Busy(g, "provision"),
                        req'[g] = Idle, ~stale[g], OfEngine(e) # {}
                 PROVE  OfEngine(e)' = OfEngine(e)
      BY DEF DecisionStands
    <2>1. g = h
      <3>1. req[g] # Idle
        BY IdleIsNoProvision DEF Busy
      <3> QED BY <1>0, <1>1, <3>1, OvertakingTells
    <2>2. ASSUME e \in missing PROVE FALSE
      <3>1. CASE e \in EvidenceEngines
        BY <1>0, <1>1, <2>1, <2>2, <3>1 DEF ProvisionHolds
      <3>2. CASE e \notin EvidenceEngines
        BY <1>0, <1>1, <2>1, <2>2, <3>2 DEF ProvisionHolds
      <3> QED BY <3>1, <3>2
    <2> QED BY <1>8, <2>2
  <1>10. OnlyPutUnpins
    <2> SUFFICES ASSUME ~stale[h] PROVE pinned \subseteq pinned'
      BY <1>1 DEF OnlyPutUnpins
    <2> DEFINE source(e) == IF e \in missing THEN new[e] ELSE found[e]
               start == [wrote |-> FALSE, links |-> pinned]
               first == Provisioned(start, source("playwright"), ids)
    <2>1. ids = pinned
      BY <1>0, <1>1 DEF ProvisionHolds
    <2>2. pinned \subseteq start.links
      OBVIOUS
    <2>3. pinned \subseteq first.links
      BY <2>1, <2>2, LinkingAdds
    <2>4. pinned' = Provisioned(first, source("selenium"), ids).links
      BY <1>2
    <2> HIDE DEF first, source
    <2>5. pinned \subseteq Provisioned(first, source("selenium"), ids).links
      BY <2>1, <2>3, LinkingAdds
    <2> QED BY <2>4, <2>5
  <1>11. RegistryIInv'
    <2>1. registry' = [s \in SourceRows |-> registry'[s]]
      BY <1>2
    <2> QED BY <1>0, <1>1, <2>1, OvertakingTells DEF RegistryIInv, RegistryShape
  <1> QED BY <1>9, <1>10, <1>11

\* Every step keeps the invariant and does what the two action properties allow.
LEMMA RegistrySteps ==
  RegistryIInv /\ [RegistryNext]_registryVars => RegistryIInv' /\ DecisionStands /\ OnlyPutUnpins
  <1> SUFFICES ASSUME RegistryIInv, [RegistryNext]_registryVars
               PROVE  RegistryIInv' /\ DecisionStands /\ OnlyPutUnpins
    OBVIOUS
  <1>0. RegistryShape /\ \A g \in Handlers : ProvisionHolds(g)
    BY DEF RegistryIInv
  \* A step that leaves the requests where they are decides for none.
  <1>a. ASSUME \A g \in Handlers : Busy(g, "provision") => req'[g] # Idle PROVE DecisionStands
    BY <1>a DEF DecisionStands
  <1>b. UNCHANGED pinned => OnlyPutUnpins
    BY DEF OnlyPutUnpins
  <1>c. ASSUME Unseen, UNCHANGED pinned, registry' = [s \in SourceRows |-> registry'[s]]
        PROVE  RegistryIInv' /\ DecisionStands /\ OnlyPutUnpins
    <2>1. \A g \in Handlers : req'[g] = req[g] /\ (req[g] # Idle => stale'[g])
      BY <1>c DEF Unseen
    <2>2. req' = [g \in Handlers |-> req'[g]] /\ stale' \in [Handlers -> BOOLEAN]
      BY <1>0, <1>c DEF Unseen, RegistryShape
    <2>3. \A g \in Handlers : ProvisionHolds(g)'
      BY <2>1, AllTold
    <2>4. DecisionStands
      BY <1>a, <2>1, IdleIsNoProvision DEF Busy
    <2> QED BY <1>b, <1>c, <2>2, <2>3, <2>4 DEF RegistryIInv, RegistryShape
  <1>1. ASSUME NEW s \in SourceRows, NEW e, NEW fit, CreateConnector(s, e, fit)
        PROVE  RegistryIInv' /\ DecisionStands /\ OnlyPutUnpins
    <2>1. registry' = [x \in SourceRows |-> registry'[x]]
      BY <1>0, <1>1 DEF CreateConnector, RegistryShape
    <2> QED BY <1>1, <1>c, <2>1 DEF CreateConnector
  <1>2. ASSUME NEW h \in Handlers, NEW s, PatchLoad(h, s)
        PROVE  RegistryIInv' /\ DecisionStands /\ OnlyPutUnpins
    <2> DEFINE r == [op |-> "patch", row |-> s, loaded |-> registry[s]]
    <2>1. Begin(h, r) /\ UNCHANGED <<registry, pinned>> /\ r.op = "patch"
      BY <1>2 DEF PatchLoad
    <2> HIDE DEF r
    <2>2. req'[h] = r
      BY <1>0, <2>1 DEF Begin, RegistryShape
    <2>3. ProvisionHolds(h)'
      BY <2>1, <2>2 DEF ProvisionHolds, Busy
    <2> QED BY <2>1, <2>3, RegistryBegins
  <1>3. ASSUME NEW h \in Handlers, ApplyPatch(h)
        PROVE  RegistryIInv' /\ DecisionStands /\ OnlyPutUnpins
    <2>1. Busy(h, "patch") /\ EndAndOvertake(h) /\ UNCHANGED pinned
      BY <1>3 DEF ApplyPatch
    <2>2. registry' = [s \in SourceRows |-> registry'[s]]
      BY <1>0, <1>3 DEF ApplyPatch, RegistryShape
    <2>3. \A g \in Handlers : Busy(g, "provision") => req'[g] # Idle
      BY <1>0, <2>1, OvertakingTells, IdleIsNoProvision DEF Busy
    <2> QED BY <1>0, <1>a, <1>b, <2>1, <2>2, <2>3, OvertakingTells DEF RegistryIInv, RegistryShape
  <1>4. ASSUME NEW s \in SourceRows, SourceChanges(s)
        PROVE  RegistryIInv' /\ DecisionStands /\ OnlyPutUnpins
    <2>1. registry' = [x \in SourceRows |-> registry'[x]]
      BY <1>0, <1>4 DEF SourceChanges, RegistryShape
    <2> QED BY <1>4, <1>c, <2>1 DEF SourceChanges
  <1>5. ASSUME NEW h \in Handlers, NEW ids, PutChecks(h, ids)
        PROVE  RegistryIInv' /\ DecisionStands /\ OnlyPutUnpins
    <2> DEFINE r == [op |-> "put", ids |-> ids]
    <2>1. Begin(h, r) /\ UNCHANGED <<registry, pinned>> /\ r.op = "put"
      BY <1>5 DEF PutChecks
    <2> HIDE DEF r
    <2>2. req'[h] = r
      BY <1>0, <2>1 DEF Begin, RegistryShape
    <2>3. ProvisionHolds(h)'
      BY <2>1, <2>2 DEF ProvisionHolds, Busy
    <2> QED BY <2>1, <2>3, RegistryBegins
  <1>6. ASSUME NEW h \in Handlers, PutWrites(h)
        PROVE  RegistryIInv' /\ DecisionStands /\ OnlyPutUnpins
    <2>1. Busy(h, "put") /\ EndAndOvertake(h) /\ UNCHANGED registry
      BY <1>6 DEF PutWrites
    <2>2. \A g \in Handlers : Busy(g, "provision") => req'[g] # Idle
      BY <1>0, <2>1, OvertakingTells, IdleIsNoProvision DEF Busy
    <2>3. OnlyPutUnpins
      BY <2>1 DEF OnlyPutUnpins
    <2> QED BY <1>0, <1>a, <2>1, <2>2, <2>3, OvertakingTells DEF RegistryIInv, RegistryShape
  <1>7. ASSUME NEW h \in Handlers, ProvisionLooks(h)
        PROVE  RegistryIInv' /\ DecisionStands /\ OnlyPutUnpins
    <2>1. PICK found \in [EvidenceEngines -> SourceRows \cup {NoRow}] :
             /\ \A e \in DOMAIN found :
                    IF Known(e) = {} THEN found[e] = NoRow ELSE found[e] \in Known(e)
             /\ Begin(h, [op |-> "provision", found |-> found, ids |-> pinned])
             /\ UNCHANGED <<registry, pinned>>
      BY <1>7 DEF ProvisionLooks
    <2> DEFINE r == [op |-> "provision", found |-> found, ids |-> pinned]
    <2>2. Begin(h, r) /\ r.found = found /\ r.ids = pinned
      BY <2>1
    <2> HIDE DEF r
    <2>3. req'[h] = r
      BY <1>0, <2>2 DEF Begin, RegistryShape
    <2>4. \A e \in EvidenceEngines : OfEngine(e) # {} => found[e] # NoRow
      <3> SUFFICES ASSUME NEW e \in EvidenceEngines, OfEngine(e) # {} PROVE found[e] # NoRow
        OBVIOUS
      <3>1. found[e] \in OfEngine(e)
        BY <2>1 DEF Known
      <3> QED BY <3>1, RowsAssumption DEF OfEngine, Registered
    <2>5. \A e \in EvidenceEngines : OfEngine(e)' # {} => found[e] # NoRow
      BY <2>1, <2>4 DEF OfEngine, Registered
    <2>7. DOMAIN found = EvidenceEngines
      OBVIOUS
    <2>6. ProvisionHolds(h)'
      BY <2>1, <2>2, <2>3, <2>5, <2>7 DEF ProvisionHolds
    <2> QED BY <2>1, <2>2, <2>6, RegistryBegins
  <1>8. ASSUME NEW h \in Handlers, Lost(h), UNCHANGED <<registry, pinned>>
        PROVE  RegistryIInv' /\ DecisionStands /\ OnlyPutUnpins
    <2>1. /\ req' = [g \in Handlers |-> req'[g]] /\ stale' \in [Handlers -> BOOLEAN]
          /\ req'[h] = Idle
          /\ \A g \in Handlers \ {h} : req'[g] = req[g] /\ stale'[g] = stale[g]
      BY <1>0, <1>8 DEF Lost, End, RegistryShape
    <2>2. \A g \in Handlers : ProvisionHolds(g)'
      BY <1>0, <1>8, <2>1, IdleIsNoProvision DEF ProvisionHolds, Busy, OfEngine, Registered
    <2>3. DecisionStands
      BY <1>8 DEF DecisionStands, OfEngine, Registered
    <2> QED BY <1>0, <1>b, <1>8, <2>1, <2>2, <2>3 DEF RegistryIInv, RegistryShape
  <1>9. CASE UNCHANGED registryVars
    <2>1. UNCHANGED <<registry, pinned, req, stale>>
      BY <1>9 DEF registryVars, requestVars
    <2>2. \A g \in Handlers : ProvisionHolds(g)'
      BY <1>0, <2>1 DEF ProvisionHolds, Busy, OfEngine, Registered
    <2>3. DecisionStands
      BY <2>1 DEF DecisionStands, OfEngine, Registered
    <2> QED BY <1>0, <1>b, <2>1, <2>2, <2>3 DEF RegistryIInv, RegistryShape
  <1> QED
    BY <1>1, <1>2, <1>3, <1>4, <1>5, <1>6, <1>7, <1>8, <1>9, ProvisionSteps
       DEF RegistryNext, ConnectorRequest, PutCampaignSources, EnsureBrowserSources

\* Whatever overlaps: a launch uses a source that may run and finds one where there is
\* one; and a provisioning nobody has overtaken adds no second source to a domain that has
\* one and takes none from the campaign (ensure_browser_sources_for_event, create_for_event).
THEOREM SourcesStayGoverned == RegistrySpec => SourcesAreGoverned
  <1>1. RegistryIInv /\ [RegistryNext]_registryVars =>
           RegistryIInv' /\ [DecisionStands]_registryVars /\ [OnlyPutUnpins]_registryVars
    BY RegistrySteps
  <1>2. RegistrySpec => /\ [](LaunchesMayRun /\ LaunchFindsASource)
                        /\ [][DecisionStands]_registryVars /\ [][OnlyPutUnpins]_registryVars
    BY RegistryInitially, LaunchesAreRunnable, LaunchesAreFound, <1>1, PTL DEF RegistrySpec
  <1>3. DecisionsStand <=> [][DecisionStands]_registryVars
    BY DEF DecisionsStand, DecisionStands
  <1>4. OnlyPutsUnpin <=> [][OnlyPutUnpins]_registryVars
    BY DEF OnlyPutsUnpin, OnlyPutUnpins
  <1> QED BY <1>2, <1>3, <1>4 DEF SourcesAreGoverned

-----------------------------------------------------------------------------
(* Calendars. *)

Distinct(list) == \A i, j \in DOMAIN list : list[i] = list[j] => i = j

\* The columns the argument looks at: an event is listed, and watched, once.
FeedShape ==
    /\ listing \in Seq(CalendarEvents) /\ Distinct(listing)
    /\ watchlist \in Seq(CalendarEvents) /\ Distinct(watchlist)
    /\ starts \in [CalendarEvents -> Instants \cup {Undated}]

FeedIInv == FeedShape /\ FeedIsOrdered /\ FilteredFeedIsComplete

-----------------------------------------------------------------------------
\* An event that is not in a list can be put in front of it.
LEMMA PrependedIsDistinct ==
  ASSUME NEW list \in Seq(CalendarEvents), Distinct(list), NEW e \in CalendarEvents,
         \A i \in DOMAIN list : list[i] # e
  PROVE  <<e>> \o list \in Seq(CalendarEvents) /\ Distinct(<<e>> \o list)
  <1> DEFINE n == Len(list)
             longer == <<e>> \o list
  <1>1. n \in Nat /\ DOMAIN list = 1 .. n
    BY LenProperties
  <1>2. <<e>> \in Seq(CalendarEvents) /\ Len(<<e>>) = 1 /\ <<e>>[1] = e
    OBVIOUS
  <1>3. /\ longer \in Seq(CalendarEvents) /\ Len(longer) = 1 + n
        /\ \A i \in 1 .. 1 + n : longer[i] = IF i <= 1 THEN <<e>>[i] ELSE list[i - 1]
    BY <1>2, ConcatProperties
  <1>4. DOMAIN longer = 1 .. 1 + n
    BY <1>3, LenProperties
  <1> HIDE DEF longer, n
  <1>5. longer[1] = e /\ \A i \in 2 .. 1 + n : longer[i] = list[i - 1] /\ i - 1 \in DOMAIN list
    BY <1>1, <1>2, <1>3
  <1>6. ASSUME NEW i \in 1 .. 1 + n, NEW j \in 1 .. 1 + n, longer[i] = longer[j] PROVE i = j
    <2>1. i = 1 \/ i \in 2 .. 1 + n
      BY <1>1
    <2>2. j = 1 \/ j \in 2 .. 1 + n
      BY <1>1
    <2>3. CASE i = 1 /\ j \in 2 .. 1 + n
      BY <1>5, <1>6, <2>3
    <2>4. CASE j = 1 /\ i \in 2 .. 1 + n
      BY <1>5, <1>6, <2>4
    <2>5. CASE i \in 2 .. 1 + n /\ j \in 2 .. 1 + n
      <3>1. list[i - 1] = list[j - 1] /\ i - 1 \in DOMAIN list /\ j - 1 \in DOMAIN list
        BY <1>5, <1>6, <2>5
      <3>2. i - 1 = j - 1
        BY <3>1 DEF Distinct
      <3> QED BY <1>1, <3>2
    <2> QED BY <2>1, <2>2, <2>3, <2>4, <2>5
  <1> QED BY <1>3, <1>4, <1>6 DEF Distinct, longer

\* The watchlist without one of its entries.
LEMMA UnwatchedIsDistinct ==
  ASSUME FeedShape, NEW i \in DOMAIN watchlist
  PROVE  /\ Unwatched(i) \in Seq(CalendarEvents) /\ Distinct(Unwatched(i))
         /\ \A k \in DOMAIN Unwatched(i) : Unwatched(i)[k] # watchlist[i]
  <1> DEFINE n == Len(watchlist)
             From(k) == IF k < i THEN k ELSE k + 1
  <1>1. /\ n \in Nat /\ DOMAIN watchlist = 1 .. n
        /\ \A k \in 1 .. n : watchlist[k] \in CalendarEvents
    BY LenProperties, ElementOfSeq DEF FeedShape
  <1>2. i \in 1 .. n /\ n - 1 \in Nat
    BY <1>1
  <1>3. Unwatched(i) = [k \in 1 .. n - 1 |-> watchlist[From(k)]]
    BY DEF Unwatched
  <1> HIDE DEF n
  <1>4. \A k \in 1 .. n - 1 : From(k) \in 1 .. n /\ From(k) # i
    BY <1>1, <1>2
  <1>5. \A k, m \in 1 .. n - 1 : From(k) = From(m) => k = m
    BY <1>1, <1>2
  <1> HIDE DEF From
  <1>6. Unwatched(i) \in [1 .. n - 1 -> CalendarEvents]
    BY <1>1, <1>3, <1>4
  <1>7. Unwatched(i) \in Seq(CalendarEvents) /\ DOMAIN Unwatched(i) = 1 .. n - 1
    BY <1>2, <1>6
  <1>8. \A k, m \in 1 .. n : watchlist[k] = watchlist[m] => k = m
    BY <1>1 DEF FeedShape, Distinct
  <1>9. ASSUME NEW k \in 1 .. n - 1 PROVE Unwatched(i)[k] # watchlist[i]
    BY <1>2, <1>3, <1>4, <1>8
  <1>10. ASSUME NEW k \in 1 .. n - 1, NEW m \in 1 .. n - 1, Unwatched(i)[k] = Unwatched(i)[m]
         PROVE  k = m
    <2>1. watchlist[From(k)] = watchlist[From(m)]
      BY <1>3, <1>10
    <2> QED BY <1>4, <1>5, <1>8, <2>1
  <1> QED BY <1>7, <1>9, <1>10 DEF Distinct

\* A response lists the events at the positions that were kept, each once, in the order
\* of their starts, and if it is a calendar, all of them.
Lists(f, list, kept) ==
    /\ \A i, j \in DOMAIN f.body : i < j =>
          /\ f.body[i].event # f.body[j].event
          /\ starts[f.body[i].event] <= starts[f.body[j].event]
    /\ \A i \in DOMAIN f.body : \E k \in kept : f.body[i].event = list[k]
    /\ f.status = "served" =>
          \A k \in kept : \E i \in DOMAIN f.body : f.body[i].event = list[k]

\* So does every response a builder may give.
LEMMA CalendarListsKept ==
  ASSUME FeedShape, NEW list \in Seq(CalendarEvents), Distinct(list),
         NEW kept \in SUBSET DOMAIN list, NEW scope, NEW filter,
         NEW f \in Calendar(scope, filter, list, kept)
  PROVE  f.scope = scope /\ f.filter = filter /\ Lists(f, list, kept)
  <1>1. CASE ~Sortable(list, kept)
    <2>1. f = [scope |-> scope, status |-> "error", filter |-> filter, body |-> <<>>]
      BY <1>1 DEF Calendar
    <2> QED BY <2>1 DEF Lists
  <1>2. CASE Sortable(list, kept)
    <2> DEFINE n == Cardinality(kept)
    <2>1. PICK ordered \in InStartOrder(list, kept) :
             f = [scope |-> scope, status |-> "served", filter |-> filter,
                  body |-> [i \in DOMAIN ordered |-> FormatEvent(ordered[i])]]
      BY <1>2 DEF Calendar
    <2>2. PICK o \in [1 .. n -> kept] :
             /\ \A k, m \in DOMAIN o : k < m => SortsBefore(list, o[k], o[m])
             /\ ordered = [k \in DOMAIN o |-> list[o[k]]]
      BY <2>1 DEF InStartOrder
    <2>3. /\ IsFiniteSet(kept) /\ n \in Nat
      <3>1. DOMAIN list = 1 .. Len(list) /\ Len(list) \in Nat
        BY LenProperties
      <3>2. IsFiniteSet(1 .. Len(list))
        BY <3>1, FS_Interval
      <3>3. IsFiniteSet(kept)
        BY <3>1, <3>2, FS_Subset
      <3> QED BY <3>3, FS_CardinalityType
    <2>4. IsFiniteSet(1 .. n) /\ Cardinality(1 .. n) = n
      <3> HIDE DEF n
      <3> QED BY <2>3, FS_Interval
    <2>5. /\ f.scope = scope /\ f.filter = filter /\ DOMAIN f.body = 1 .. n
          /\ \A i \in 1 .. n : f.body[i].event = list[o[i]]
      BY <2>1, <2>2 DEF FormatEvent
    <2>6. \A k \in DOMAIN list : k \in Nat /\ list[k] \in CalendarEvents
      BY LenProperties, ElementOfSeq
    <2>7. \A k \in DOMAIN list : starts[list[k]] \in Int
      <3>1. \A x \in Instants \cup {Undated} : x \in Int
        BY CalendarAssumption DEF Instants, Undated
      <3>2. \A e \in CalendarEvents : starts[e] \in Instants \cup {Undated}
        BY DEF FeedShape
      <3> QED BY <2>6, <3>1, <3>2
    <2> HIDE DEF n
    <2>8. \A i \in 1 .. n : o[i] \in DOMAIN list
      BY <2>2
    <2>9. ASSUME NEW i \in 1 .. n, NEW j \in 1 .. n, i < j
          PROVE  o[i] # o[j] /\ starts[list[o[i]]] <= starts[list[o[j]]]
      <3>1. SortsBefore(list, o[i], o[j])
        BY <2>2, <2>9
      <3> DEFINE a == starts[list[o[i]]]
                 b == starts[list[o[j]]]
      <3>2. a \in Int /\ b \in Int /\ o[i] \in Nat /\ o[j] \in Nat
        BY <2>6, <2>7, <2>8
      <3>3. a < b \/ (a = b /\ o[i] < o[j])
        BY <3>1 DEF SortsBefore
      <3>4. o[i] = o[j] => a = b
        OBVIOUS
      <3> HIDE DEF a, b
      <3>5. o[i] # o[j] /\ a <= b
        BY <3>2, <3>3, <3>4
      <3> QED BY <3>5 DEF a, b
    <2>10. ASSUME NEW i \in 1 .. n, NEW j \in 1 .. n, i < j
           PROVE  /\ f.body[i].event # f.body[j].event
                  /\ starts[f.body[i].event] <= starts[f.body[j].event]
      BY <2>5, <2>8, <2>9, <2>10 DEF Distinct
    <2>11. o \in Injection(1 .. n, kept)
      <3>1. \A i, j \in 1 .. n : i < j \/ j < i \/ i = j
        BY <2>3
      <3>2. \A i, j \in 1 .. n : o[i] = o[j] => i = j
        BY <2>9, <3>1
      <3> QED BY <2>2, <3>2 DEF Injection, IsInjective
    <2>12. o \in Surjection(1 .. n, kept)
      BY <2>3, <2>4, <2>11, FS_Injection DEF n
    <2>13. \A k \in kept : \E i \in 1 .. n : o[i] = k
      BY <2>12 DEF Surjection
    <2> QED BY <2>2, <2>5, <2>10, <2>13 DEF Lists
  <1> QED BY <1>1, <1>2

\* A step that shows no calendar.
LEMMA NothingIsShown ==
  ASSUME FeedShape', feed' = NoFeed
  PROVE  FeedIInv'
  <1>1. DOMAIN feed'.body = {} /\ feed'.scope = "none"
    BY DEF NoFeed
  <1> QED BY <1>1 DEF FeedIInv, FeedIsOrdered, FilteredFeedIsComplete

\* A step that shows a calendar of another scope than a campaign's.
LEMMA ListIsShown ==
  ASSUME FeedShape, UNCHANGED <<eventColumns, watchlist>>, NEW list \in Seq(CalendarEvents),
         Distinct(list), NEW kept \in SUBSET DOMAIN list, NEW scope, NEW filter,
         feed' \in Calendar(scope, filter, list, kept),
         scope = "event_filter" =>
            list = listing /\ kept = {i \in Limited(listing) : Wanted(listing[i], filter)}
  PROVE  FeedIInv'
  <1>1. UNCHANGED <<listing, starts, belongs, region, watchlist>>
    BY DEF eventColumns
  <1>2. FeedShape'
    <2>1. Distinct(listing') /\ Distinct(watchlist')
      BY <1>1 DEF FeedShape, Distinct
    <2> QED BY <1>1, <2>1 DEF FeedShape
  <1>3. PICK f \in Calendar(scope, filter, list, kept) : feed' = f
    OBVIOUS
  <1>4. f.scope = scope /\ f.filter = filter /\ Lists(f, list, kept)
    BY CalendarListsKept
  <1>5. FeedEvents' = [i \in DOMAIN f.body |-> f.body[i].event]
    BY <1>3 DEF FeedEvents
  <1>6. FeedIsOrdered'
    <2>1. \A i, j \in DOMAIN f.body : i < j =>
             /\ FeedEvents'[i] # FeedEvents'[j]
             /\ starts'[FeedEvents'[i]] <= starts'[FeedEvents'[j]]
      BY <1>1, <1>4, <1>5 DEF Lists
    <2> QED BY <1>3, <2>1 DEF FeedIsOrdered
  <1>7. FilteredFeedIsComplete'
    <2> SUFFICES ASSUME scope = "event_filter", f.status = "served"
                 PROVE  /\ \A i \in DOMAIN f.body : Wanted(f.body[i].event, filter)
                        /\ \A n \in 1 .. Len(listing) :
                              Wanted(listing[n], filter) /\ n <= ListLimit =>
                                  \E i \in DOMAIN f.body : f.body[i].event = listing[n]
      <3>1. scope = "event_filter" /\ f.status = "served" =>
               /\ \A i \in DOMAIN f.body : Wanted(f.body[i].event, filter)
               /\ \A n \in 1 .. Len(listing) :
                     Wanted(listing[n], filter) /\ n <= ListLimit =>
                         \E i \in DOMAIN f.body : f.body[i].event = listing[n]
        OBVIOUS
      <3>2. f.scope = "event_filter" /\ f.status = "served" =>
               /\ \A i \in DOMAIN f.body : Wanted(FeedEvents'[i], f.filter)
               /\ \A n \in 1 .. Len(listing') :
                     Wanted(listing'[n], f.filter) /\ n <= ListLimit =>
                         \E i \in DOMAIN f.body : FeedEvents'[i] = listing'[n]
        BY <1>1, <1>4, <1>5, <3>1
      <3> QED BY <1>1, <1>3, <3>2 DEF FilteredFeedIsComplete, Wanted
    <2>1. list = listing /\ kept = {i \in Limited(listing) : Wanted(listing[i], filter)}
      OBVIOUS
    <2>2. \A i \in DOMAIN f.body : Wanted(f.body[i].event, filter)
      BY <1>4, <2>1 DEF Lists
    <2>3. \A n \in 1 .. Len(listing) : Wanted(listing[n], filter) /\ n <= ListLimit => n \in kept
      <3>1. DOMAIN listing = 1 .. Len(listing)
        BY LenProperties DEF FeedShape
      <3> QED BY <2>1, <3>1 DEF Limited
    <2> QED BY <1>4, <2>1, <2>2, <2>3 DEF Lists
  <1> QED BY <1>2, <1>6, <1>7 DEF FeedIInv

\* At the start there is nothing to show.
LEMMA FeedInitially == FeedInit => FeedIInv
  <1> SUFFICES ASSUME FeedInit PROVE FeedIInv
    OBVIOUS
  <1>1. listing = <<>> /\ watchlist = <<>> /\ feed = NoFeed
    BY DEF FeedInit
  <1>2. FeedShape
    BY <1>1 DEF FeedInit, FeedShape, Distinct
  <1>3. DOMAIN feed.body = {} /\ feed.scope = "none"
    BY <1>1 DEF NoFeed
  <1> QED BY <1>2, <1>3 DEF FeedIInv, FeedIsOrdered, FilteredFeedIsComplete

\* Every step keeps the invariant.
LEMMA FeedSteps == FeedIInv /\ [FeedNext]_feedVars => FeedIInv'
  <1> SUFFICES ASSUME FeedIInv, [FeedNext]_feedVars PROVE FeedIInv'
    OBVIOUS
  <1>0. /\ FeedShape /\ listing \in Seq(CalendarEvents) /\ Distinct(listing)
        /\ watchlist \in Seq(CalendarEvents) /\ Distinct(watchlist)
        /\ starts \in [CalendarEvents -> Instants \cup {Undated}]
    BY DEF FeedIInv, FeedShape
  <1>1. ASSUME NEW e \in CalendarEvents, NEW c \in Campaigns, NEW t \in Instants \cup {Undated},
               NEW r \in Regions \cup {NoRegion}, Observed(e, c, t, r)
        PROVE  FeedIInv'
    <2>1. /\ \A i \in DOMAIN listing : listing[i] # e
          /\ listing' = <<e>> \o listing /\ starts' = [starts EXCEPT ![e] = t]
          /\ feed' = NoFeed /\ watchlist' = watchlist
      BY <1>1 DEF Observed, Listed
    <2>2. listing' \in Seq(CalendarEvents) /\ Distinct(listing')
      BY <1>0, <2>1, PrependedIsDistinct
    <2>3. FeedShape'
      BY <1>0, <2>1, <2>2 DEF FeedShape, Distinct
    <2> QED BY <2>1, <2>3, NothingIsShown
  <1>2. ASSUME NEW e \in CalendarEvents, NEW t \in Instants \cup {Undated},
               NEW r \in Regions \cup {NoRegion}, Corrected(e, t, r)
        PROVE  FeedIInv'
    <2>1. FeedShape' /\ feed' = NoFeed
      BY <1>0, <1>2 DEF Corrected, FeedShape, Distinct
    <2> QED BY <2>1, NothingIsShown
  <1>3. ASSUME NEW e \in CalendarEvents, WatchEvent(e) PROVE FeedIInv'
    <2>1. feed' = NoFeed /\ UNCHANGED <<listing, starts, belongs>>
      BY <1>3 DEF WatchEvent, eventColumns
    <2>2. watchlist' \in Seq(CalendarEvents) /\ Distinct(watchlist')
      <3>1. CASE WatchedAt(e) = {}
        <4>1. \A i \in DOMAIN watchlist : watchlist[i] # e
          BY <3>1 DEF WatchedAt
        <4>2. watchlist' = <<e>> \o watchlist
          BY <1>3, <3>1 DEF WatchEvent
        <4> QED BY <1>0, <4>1, <4>2, PrependedIsDistinct
      <3>2. CASE WatchedAt(e) # {}
        <4>1. PICK i \in WatchedAt(e) : watchlist' = <<e>> \o Unwatched(i)
          BY <1>3, <3>2 DEF WatchEvent
        <4>2. i \in DOMAIN watchlist /\ watchlist[i] = e
          BY <4>1 DEF WatchedAt
        <4>3. /\ Unwatched(i) \in Seq(CalendarEvents) /\ Distinct(Unwatched(i))
              /\ \A k \in DOMAIN Unwatched(i) : Unwatched(i)[k] # e
          BY <1>0, <4>2, UnwatchedIsDistinct
        <4> QED BY <4>1, <4>3, PrependedIsDistinct
      <3> QED BY <3>1, <3>2
    <2>3. FeedShape'
      BY <1>0, <2>1, <2>2 DEF FeedShape, Distinct
    <2> QED BY <2>1, <2>3, NothingIsShown
  <1>4. ASSUME NEW e \in CalendarEvents, UnwatchEvent(e) PROVE FeedIInv'
    <2>1. feed' = NoFeed /\ UNCHANGED <<listing, starts, belongs>>
      BY <1>4 DEF UnwatchEvent, eventColumns
    <2>2. PICK i \in WatchedAt(e) : watchlist' = Unwatched(i)
      BY <1>4 DEF UnwatchEvent
    <2>3. i \in DOMAIN watchlist
      BY <2>2 DEF WatchedAt
    <2>4. watchlist' \in Seq(CalendarEvents) /\ Distinct(watchlist')
      BY <1>0, <2>2, <2>3, UnwatchedIsDistinct
    <2>5. FeedShape'
      BY <1>0, <2>1, <2>4 DEF FeedShape, Distinct
    <2> QED BY <2>1, <2>5, NothingIsShown
  <1>5. ASSUME NEW e \in CalendarEvents, GetEventIcs(e) PROVE FeedIInv'
    <2>1. UNCHANGED <<eventColumns, watchlist>>
      BY <1>5 DEF GetEventIcs
    <2>2. CASE Listed(e)
      <3>1. feed' \in Calendar("event", NoFilter, <<e>>, {1})
        BY <1>5, <2>2 DEF GetEventIcs
      <3>2. <<e>> \in Seq(CalendarEvents) /\ Distinct(<<e>>) /\ {1} \in SUBSET DOMAIN <<e>>
        BY DEF Distinct
      <3> QED BY <1>0, <2>1, <3>1, <3>2, ListIsShown
    <2>3. CASE ~Listed(e)
      <3>1. /\ feed' = [NoFeed EXCEPT !.scope = "event", !.status = "not_found"]
        BY <1>5, <2>3 DEF GetEventIcs
      <3>2. DOMAIN feed'.body = {} /\ feed'.scope = "event"
        BY <3>1 DEF NoFeed
      <3>3. FeedShape'
        BY <1>0, <2>1 DEF FeedShape, Distinct, eventColumns
      <3> QED BY <3>2, <3>3 DEF FeedIInv, FeedIsOrdered, FilteredFeedIsComplete
    <2> QED BY <2>2, <2>3
  <1>6. CASE InstantPasses
    <2>1. FeedShape' /\ feed' = NoFeed
      BY <1>0, <1>6 DEF InstantPasses, FeedShape, Distinct, eventColumns
    <2> QED BY <2>1, NothingIsShown
  <1>7. CASE GetWatchlistIcs
    <2>1. UNCHANGED <<eventColumns, watchlist>>
      BY <1>7 DEF GetWatchlistIcs
    <2>2. feed' \in Calendar("watchlist", NoFilter, watchlist, Limited(watchlist))
      BY <1>7 DEF GetWatchlistIcs
    <2>3. Limited(watchlist) \in SUBSET DOMAIN watchlist
      BY DEF Limited
    <2> QED BY <1>0, <2>1, <2>2, <2>3, ListIsShown
  <1>8. ASSUME NEW filter \in Filters, GetEventsIcs(filter) PROVE FeedIInv'
    <2>1. UNCHANGED <<eventColumns, watchlist>>
      BY <1>8 DEF GetEventsIcs
    <2>2. feed' \in Calendar("event_filter", filter, listing, FilteredEvents(filter))
      BY <1>8 DEF GetEventsIcs
    <2>3. FilteredEvents(filter) \in SUBSET DOMAIN listing
      BY DEF Limited, FilteredEvents
    <2>4. FilteredEvents(filter) = {i \in Limited(listing) : Wanted(listing[i], filter)}
      BY DEF FilteredEvents, Wanted
    <2> QED BY <1>0, <2>1, <2>2, <2>3, <2>4, ListIsShown
  <1>9. CASE UNCHANGED feedVars
    <2>1. UNCHANGED <<listing, starts, belongs, region, watchlist, feed>>
      BY <1>9 DEF feedVars, eventColumns
    <2>2. FeedShape'
      BY <1>0, <2>1 DEF FeedShape, Distinct
    <2>3. FeedEvents' = FeedEvents
      BY <2>1 DEF FeedEvents
    <2>4. FeedIsOrdered'
      BY <2>1, <2>3 DEF FeedIInv, FeedIsOrdered
    <2>5. FilteredFeedIsComplete'
      BY <2>1, <2>3 DEF FeedIInv, FilteredFeedIsComplete, Wanted
    <2> QED BY <2>2, <2>4, <2>5 DEF FeedIInv
  <1>10. FeedNext => FeedIInv'
    BY <1>1, <1>2, <1>3, <1>4, <1>5, <1>6, <1>7, <1>8, Zenon DEF FeedNext
  <1> QED BY <1>9, <1>10

\* However events are observed, dated and watched: a calendar that is served lists
\* distinct events in the order of their starts, and a filter's lists the events of its
\* campaign and its region in the limited query, all of them and no other (build_event_ics,
\* build_watchlist_ics, build_filter_ics).
THEOREM FeedsStayRight == FeedSpec => []FeedsAreRight
  <1>1. FeedSpec => []FeedIInv
    BY FeedInitially, FeedSteps, PTL DEF FeedSpec
  <1>2. FeedIInv => FeedsAreRight
    BY DEF FeedIInv, FeedsAreRight
  <1> QED BY <1>1, <1>2, PTL

-----------------------------------------------------------------------------
(* Query expansion. *)

SetStatuses == {"draft", "pending_review", "approved", "superseded"}

\* Rows of query_expansion_sets, and what an approval is remembered as.
SetRows == [status : SetStatuses, mode : {"rule", "ai_assisted"}, variants : SUBSET Variants,
            version : Nat, from : Answers \cup {RuleBased}]

ApprovalRows == [set : Nat, version : Nat, variants : SUBSET Variants]

\* The columns the argument looks at; a version counts approvals.
ExpansionShape ==
    /\ sets \in Seq(SetRows)
    /\ \A i \in DOMAIN sets : sets[i].version \in 1 .. Len(approvals) + 1
    /\ approvals \in Seq(ApprovalRows)
    /\ Len(approvals) <= MaxApprovals
    /\ \A k \in DOMAIN approvals : approvals[k].set \in DOMAIN sets
    /\ answers \in [Answers -> SUBSET Variants]
    /\ accepted \subseteq {a \in Answers : answers[a] # {}}
    /\ overtaken \in BOOLEAN
    /\ DOMAIN req = Handlers

\* What a request has read: a patch a row of a set, an acceptance an answer that was
\* not accepted then.
ExpansionReading(h) ==
    /\ Busy(h, "patch") => /\ req[h].set \in DOMAIN sets
                           /\ req[h].row \in SetRows
                           /\ req[h].row.version <= Len(approvals) + 1
    /\ Busy(h, "accept") => /\ req[h].answer \in Answers
                            /\ answers[req[h].answer] # {}
                            /\ ~req[h].accepted

\* An approved set is as its last approval left it.
SnapshotOf(i, k) ==
    /\ approvals[k] = [set |-> i, version |-> sets[i].version, variants |-> sets[i].variants]
    /\ \A m \in DOMAIN approvals : m > k => approvals[m].set # i

\* What holds of sets and approvals until a request overtakes another.
SetsAreReviewed ==
    /\ \A i \in DOMAIN sets :
          \/ sets[i].status \in {"approved", "superseded"}
          \/ sets[i].status = StatusAfterSave(sets[i].variants, sets[i].mode)
    /\ \A i, j \in DOMAIN sets : sets[i].status = "approved" /\ sets[j].status = "approved" => i = j
    /\ \A i \in DOMAIN sets :
          sets[i].status = "approved" => \E k \in DOMAIN approvals : SnapshotOf(i, k)

ApprovalsAreNamed ==
    /\ \A k \in DOMAIN approvals : approvals[k].version <= sets[approvals[k].set].version
    /\ \A k, m \in DOMAIN approvals :
          /\ approvals[k].set = approvals[m].set
          /\ approvals[k].version = approvals[m].version
          => approvals[k].variants = approvals[m].variants

UsedIsApproved == \A s \in used : \E k \in DOMAIN approvals : approvals[k] = s

AnswersAreUsedOnce ==
    /\ \A i \in DOMAIN sets : sets[i].from \in Answers => sets[i].from \in accepted
    /\ \A i, j \in DOMAIN sets : sets[i].from \in Answers /\ sets[i].from = sets[j].from => i = j

ExpansionIInv ==
    /\ ExpansionShape
    /\ \A h \in Handlers : ExpansionReading(h)
    /\ overtaken \/ (SetsAreReviewed /\ ApprovalsAreNamed /\ UsedIsApproved /\ AnswersAreUsedOnce)

-----------------------------------------------------------------------------
\* A set without two elements has at most one.
LEMMA AtMostOne ==
  ASSUME NEW S, \A i, j \in S : i = j
  PROVE  Cardinality(S) <= 1
  <1>1. CASE S = {}
    BY <1>1, FS_EmptySet
  <1>2. CASE S # {}
    <2>1. PICK i \in S : TRUE
      BY <1>2
    <2>2. S = {i}
      BY <2>1
    <2>3. Cardinality({i}) = 1
      BY FS_Singleton
    <2>4. Cardinality(S) = 1
      BY <2>2, <2>3
    <2> QED BY <2>4
  <1> QED BY <1>1, <1>2

\* Who is idle patches and accepts nothing.
LEMMA IdleExpandsNothing == Idle.op # "patch" /\ Idle.op # "accept"
  BY DEF Idle

\* At the start there are no sets, no answers and no requests.
LEMMA ExpansionInitially == ExpansionInit => ExpansionIInv
  <1> SUFFICES ASSUME ExpansionInit PROVE ExpansionIInv
    OBVIOUS
  <1>1. sets = <<>> /\ approvals = <<>> /\ accepted = {} /\ used = {} /\ overtaken = FALSE
    BY DEF ExpansionInit
  <1>2. DOMAIN req = Handlers /\ \A h \in Handlers : req[h] = Idle
    BY DEF ExpansionInit, NoRequests
  <1>3. answers \in [Answers -> SUBSET Variants]
    BY DEF ExpansionInit
  <1>4. ExpansionShape
    <2>1. sets \in Seq(SetRows) /\ approvals \in Seq(ApprovalRows) /\ Len(approvals) = 0
      BY <1>1
    <2>2. DOMAIN sets = {} /\ DOMAIN approvals = {}
      BY <1>1
    <2>3. Len(approvals) <= MaxApprovals
      BY <2>1, VariantsAssumption
    <2> QED BY <1>1, <1>2, <1>3, <2>1, <2>2, <2>3 DEF ExpansionShape
  <1>5. \A h \in Handlers : ExpansionReading(h)
    BY <1>2, IdleExpandsNothing DEF ExpansionReading, Busy
  <1>6. SetsAreReviewed /\ ApprovalsAreNamed /\ UsedIsApproved /\ AnswersAreUsedOnce
    BY <1>1 DEF SetsAreReviewed, ApprovalsAreNamed, UsedIsApproved, AnswersAreUsedOnce
  <1> QED BY <1>4, <1>5, <1>6 DEF ExpansionIInv

\* What a request leaves of the others when it ends: as they were, itself idle.
LEMMA ExpansionEnds ==
  ASSUME DOMAIN req = Handlers, NEW h \in Handlers, End(h)
  PROVE  /\ DOMAIN req' = Handlers
         /\ req'[h] = Idle
         /\ \A x \in Handlers : x # h => req'[x] = req[x]
  BY DEF End

\* A new set changes none that is there, and is not approved.
LEMMA DraftKeeps ==
  ASSUME ExpansionShape, UNCHANGED <<approvals, used>>,
         NEW variants \in SUBSET Variants, NEW mode \in {"rule", "ai_assisted"},
         NEW from \in Answers \cup {RuleBased},
         CreateDraft(variants, mode, from)
  PROVE  /\ sets' \in Seq(SetRows) /\ Len(sets') = Len(sets) + 1
         /\ DOMAIN sets' = 1 .. Len(sets) + 1 /\ DOMAIN sets = 1 .. Len(sets)
         /\ \A i \in DOMAIN sets : sets'[i] = sets[i]
         /\ sets'[Len(sets) + 1].from = from
         /\ \A i \in DOMAIN sets' : sets'[i].version \in 1 .. Len(approvals) + 1
         /\ SetsAreReviewed => SetsAreReviewed'
         /\ ApprovalsAreNamed => ApprovalsAreNamed'
         /\ UsedIsApproved => UsedIsApproved'
  <1> DEFINE new == [status |-> StatusAfterSave(variants, mode), mode |-> mode,
                     variants |-> variants, version |-> 1, from |-> from]
  <1>1. sets' = Append(sets, new)
    BY DEF CreateDraft
  <1>2. new \in SetRows
    BY DEF SetRows, StatusAfterSave, SetStatuses
  <1>3. /\ new.status = StatusAfterSave(variants, mode) /\ new.mode = mode
        /\ new.variants = variants /\ new.version = 1 /\ new.from = from
    OBVIOUS
  <1> HIDE DEF new
  <1>4. sets \in Seq(SetRows) /\ approvals \in Seq(ApprovalRows)
    BY DEF ExpansionShape
  <1>5. /\ sets' \in Seq(SetRows) /\ Len(sets') = Len(sets) + 1
        /\ DOMAIN sets' = 1 .. Len(sets) + 1 /\ DOMAIN sets = 1 .. Len(sets)
        /\ Len(sets) \in Nat
        /\ \A i \in DOMAIN sets : sets'[i] = sets[i]
        /\ sets'[Len(sets) + 1] = new
    BY <1>1, <1>2, <1>4
  <1>6. \A i \in DOMAIN sets' : i \in DOMAIN sets \/ i = Len(sets) + 1
    BY <1>5
  <1>7. \A i \in DOMAIN sets' : sets'[i].version \in 1 .. Len(approvals) + 1
    <2>1. 1 \in 1 .. Len(approvals) + 1
      BY <1>4
    <2> QED BY <1>3, <1>5, <1>6, <2>1 DEF ExpansionShape
  <1>8. new.status # "approved"
    BY <1>3 DEF StatusAfterSave
  <1>9. ASSUME SetsAreReviewed PROVE SetsAreReviewed'
    <2>1. \A i \in DOMAIN sets' :
             \/ sets'[i].status \in {"approved", "superseded"}
             \/ sets'[i].status = StatusAfterSave(sets'[i].variants, sets'[i].mode)
      BY <1>3, <1>5, <1>6, <1>9 DEF SetsAreReviewed
    <2>2. \A i \in DOMAIN sets' : sets'[i].status = "approved" => i \in DOMAIN sets
      BY <1>5, <1>6, <1>8
    <2>3. \A i, j \in DOMAIN sets' :
             sets'[i].status = "approved" /\ sets'[j].status = "approved" => i = j
      BY <1>5, <1>9, <2>2 DEF SetsAreReviewed
    <2>4. ASSUME NEW i \in DOMAIN sets', sets'[i].status = "approved"
          PROVE  \E k \in DOMAIN approvals' : SnapshotOf(i, k)'
      BY <1>5, <1>9, <2>2, <2>4 DEF SetsAreReviewed, SnapshotOf
    <2> QED BY <2>1, <2>3, <2>4 DEF SetsAreReviewed
  <1>10. ApprovalsAreNamed => ApprovalsAreNamed'
    BY <1>5 DEF ApprovalsAreNamed, ExpansionShape
  <1>11. UsedIsApproved => UsedIsApproved'
    BY DEF UsedIsApproved
  <1> QED BY <1>3, <1>5, <1>7, <1>9, <1>10, <1>11

\* A patch of a set, of the row it has read: the rows beside it stay as they are, but
\* that an approval supersedes the approved one.
PatchOutcome(i, row, approve, variants) ==
    /\ sets'[i].status = Written(PatchedStatus(row, approve, variants), row.status, sets[i].status)
    /\ sets'[i].variants = Written(variants, row.variants, sets[i].variants)
    /\ sets'[i].version = Written(PatchedVersion(row, approve), row.version, sets[i].version)
    /\ sets'[i].mode = sets[i].mode /\ sets'[i].from = sets[i].from

\* The row a patch writes is a row of the table.
LEMMA PatchedIsARow ==
  ASSUME NEW i \in DOMAIN sets, sets[i] \in SetRows, NEW row \in SetRows,
         NEW approve \in BOOLEAN, NEW variants \in SUBSET Variants
  PROVE  LET new == PatchedSet(i, row, approve, variants)
         IN /\ new \in SetRows
            /\ new.status = Written(PatchedStatus(row, approve, variants), row.status, sets[i].status)
            /\ new.variants = Written(variants, row.variants, sets[i].variants)
            /\ new.version = Written(PatchedVersion(row, approve), row.version, sets[i].version)
            /\ new.mode = sets[i].mode /\ new.from = sets[i].from
  <1> DEFINE s == Written(PatchedStatus(row, approve, variants), row.status, sets[i].status)
             v == Written(variants, row.variants, sets[i].variants)
             n == Written(PatchedVersion(row, approve), row.version, sets[i].version)
             new == PatchedSet(i, row, approve, variants)
  <1>1. s \in SetStatuses
    BY DEF Written, PatchedStatus, StatusAfterSave, SetStatuses, SetRows
  <1>2. v \in SUBSET Variants
    BY DEF Written, SetRows
  <1>3. n \in Nat
    BY DEF Written, PatchedVersion, SetRows
  <1>4. new = [sets[i] EXCEPT !.status = s, !.variants = v, !.version = n]
    BY DEF PatchedSet
  <1> HIDE DEF s, v, n, new
  <1>5. /\ new \in SetRows /\ new.status = s /\ new.variants = v /\ new.version = n
        /\ new.mode = sets[i].mode /\ new.from = sets[i].from
    BY <1>1, <1>2, <1>3, <1>4 DEF SetRows
  <1> QED BY <1>5 DEF s, v, n, new

\* An approval, row by row.
LEMMA ApproveRows ==
  ASSUME ExpansionShape, NEW h \in Handlers, ExpansionReading(h), Busy(h, "patch"),
         NEW variants \in SUBSET Variants, Approve(h, variants)
  PROVE  LET i == req[h].set IN
         /\ sets' \in Seq(SetRows) /\ Len(sets') = Len(sets) /\ DOMAIN sets' = DOMAIN sets
         /\ i \in DOMAIN sets
         /\ PatchOutcome(i, req[h].row, TRUE, variants)
         /\ \A j \in DOMAIN sets : j # i =>
               /\ sets'[j].status = IF sets[j].status = "approved" THEN "superseded" ELSE sets[j].status
               /\ sets'[j].variants = sets[j].variants /\ sets'[j].version = sets[j].version
               /\ sets'[j].mode = sets[j].mode /\ sets'[j].from = sets[j].from
         /\ approvals' \in Seq(ApprovalRows) /\ Len(approvals') = Len(approvals) + 1
         /\ Len(approvals') <= MaxApprovals
         /\ \A k \in DOMAIN approvals : approvals'[k] = approvals[k]
         /\ approvals'[Len(approvals) + 1] =
               [set |-> i, version |-> sets'[i].version, variants |-> variants]
  <1> DEFINE i == req[h].set
             patched == PatchedSet(i, req[h].row, TRUE, variants)
             other(j) == [sets[j] EXCEPT !.status = SupersedeApprovedSets(i)[j]]
  <1>1. i \in DOMAIN sets /\ req[h].row \in SetRows
    BY DEF ExpansionReading
  <1>2. /\ sets \in Seq(SetRows) /\ approvals \in Seq(ApprovalRows)
        /\ \A j \in DOMAIN sets : sets[j] \in SetRows
    BY DEF ExpansionShape
  <1>3. /\ sets' = [j \in DOMAIN sets |-> IF j = i THEN patched ELSE other(j)]
        /\ approvals' = Append(approvals, [set |-> i, version |-> patched.version,
                                          variants |-> variants])
        /\ Len(approvals) < MaxApprovals
    BY DEF Approve
  <1>4. /\ patched \in SetRows
        /\ patched.status = Written(PatchedStatus(req[h].row, TRUE, variants), req[h].row.status, sets[i].status)
        /\ patched.variants = Written(variants, req[h].row.variants, sets[i].variants)
        /\ patched.version = Written(PatchedVersion(req[h].row, TRUE), req[h].row.version, sets[i].version)
        /\ patched.mode = sets[i].mode /\ patched.from = sets[i].from
    BY <1>1, <1>2, PatchedIsARow
  <1> HIDE DEF patched
  <1>5. ASSUME NEW j \in DOMAIN sets, j # i
        PROVE  /\ other(j) \in SetRows
               /\ other(j).status = IF sets[j].status = "approved" THEN "superseded" ELSE sets[j].status
               /\ other(j).variants = sets[j].variants /\ other(j).version = sets[j].version
               /\ other(j).mode = sets[j].mode /\ other(j).from = sets[j].from
    <2>1. SupersedeApprovedSets(i)[j] = IF sets[j].status = "approved" THEN "superseded" ELSE sets[j].status
      BY <1>5 DEF SupersedeApprovedSets
    <2>2. sets[j] \in SetRows
      BY <1>2
    <2> QED BY <2>1, <2>2 DEF SetRows, SetStatuses
  <1> HIDE DEF other
  <1>6. \A j \in DOMAIN sets : sets'[j] = IF j = i THEN patched ELSE other(j)
    BY <1>3
  <1>7. DOMAIN sets' = DOMAIN sets /\ DOMAIN sets = 1 .. Len(sets) /\ Len(sets) \in Nat
    BY <1>2, <1>3
  <1>8. \A j \in DOMAIN sets : sets'[j] \in SetRows
    BY <1>4, <1>5, <1>6
  <1>9. sets' \in Seq(SetRows) /\ Len(sets') = Len(sets)
    <2>1. sets' = [j \in 1 .. Len(sets) |-> sets'[j]]
      BY <1>3, <1>7
    <2>2. sets' \in [1 .. Len(sets) -> SetRows]
      BY <1>7, <1>8, <2>1
    <2> QED BY <1>7, <2>2
  <1>10. PatchOutcome(i, req[h].row, TRUE, variants)
    BY <1>1, <1>4, <1>6 DEF PatchOutcome
  <1>11. \A j \in DOMAIN sets : j # i =>
               /\ sets'[j].status = IF sets[j].status = "approved" THEN "superseded" ELSE sets[j].status
               /\ sets'[j].variants = sets[j].variants /\ sets'[j].version = sets[j].version
               /\ sets'[j].mode = sets[j].mode /\ sets'[j].from = sets[j].from
    BY <1>5, <1>6
  <1>12. i \in Nat /\ patched.version \in Nat /\ sets'[i] = patched
    <2>1. patched.version \in Nat
      BY <1>4 DEF SetRows
    <2> QED BY <1>1, <1>6, <1>7, <2>1
  <1>13. DEFINE a == [set |-> i, version |-> patched.version, variants |-> variants]
  <1>14. a \in ApprovalRows
    BY <1>12 DEF ApprovalRows
  <1> HIDE DEF a
  <1>15. /\ approvals' \in Seq(ApprovalRows) /\ Len(approvals') = Len(approvals) + 1
         /\ \A k \in DOMAIN approvals : approvals'[k] = approvals[k]
         /\ approvals'[Len(approvals) + 1] = a
    BY <1>2, <1>3, <1>14 DEF a
  <1>16. Len(approvals') <= MaxApprovals
    BY <1>2, <1>3, <1>15, VariantsAssumption
  <1>17. approvals'[Len(approvals) + 1] = [set |-> i, version |-> sets'[i].version, variants |-> variants]
    BY <1>12, <1>15 DEF a
  <1> QED BY <1>1, <1>7, <1>9, <1>10, <1>11, <1>15, <1>16, <1>17

\* An edit, row by row.
LEMMA EditRows ==
  ASSUME ExpansionShape, NEW h \in Handlers, ExpansionReading(h), Busy(h, "patch"),
         NEW variants \in SUBSET Variants, Edit(h, variants)
  PROVE  LET i == req[h].set IN
         /\ sets' \in Seq(SetRows) /\ Len(sets') = Len(sets) /\ DOMAIN sets' = DOMAIN sets
         /\ i \in DOMAIN sets
         /\ PatchOutcome(i, req[h].row, FALSE, variants)
         /\ \A j \in DOMAIN sets : j # i => sets'[j] = sets[j]
         /\ approvals' = approvals
  <1> DEFINE i == req[h].set
             patched == PatchedSet(i, req[h].row, FALSE, variants)
  <1>1. i \in DOMAIN sets /\ req[h].row \in SetRows
    BY DEF ExpansionReading
  <1>2. sets \in Seq(SetRows) /\ \A j \in DOMAIN sets : sets[j] \in SetRows
    BY DEF ExpansionShape
  <1>3. sets' = [sets EXCEPT ![i] = patched] /\ approvals' = approvals
    BY DEF Edit
  <1>4. /\ patched \in SetRows
        /\ patched.status = Written(PatchedStatus(req[h].row, FALSE, variants), req[h].row.status, sets[i].status)
        /\ patched.variants = Written(variants, req[h].row.variants, sets[i].variants)
        /\ patched.version = Written(PatchedVersion(req[h].row, FALSE), req[h].row.version, sets[i].version)
        /\ patched.mode = sets[i].mode /\ patched.from = sets[i].from
    BY <1>1, <1>2, PatchedIsARow
  <1> HIDE DEF patched
  <1>5. /\ sets' \in Seq(SetRows) /\ Len(sets') = Len(sets) /\ DOMAIN sets' = DOMAIN sets
        /\ sets'[i] = patched /\ \A j \in DOMAIN sets : j # i => sets'[j] = sets[j]
    BY <1>1, <1>2, <1>3, <1>4
  <1>6. PatchOutcome(i, req[h].row, FALSE, variants)
    BY <1>4, <1>5 DEF PatchOutcome
  <1> QED BY <1>1, <1>3, <1>5, <1>6

\* An approval keeps the invariant: it is the set's last, of a version of its own, and
\* no other set stays approved.
LEMMA ApproveKeeps ==
  ASSUME ExpansionIInv, NEW h \in Handlers, Busy(h, "patch"),
         NEW variants \in SUBSET Variants, Approve(h, variants),
         overtaken' = (\/ overtaken
                       \/ sets[req[h].set] # req[h].row
                       \/ Len(approvals) > req[h].approvals),
         End(h), UNCHANGED <<answers, accepted, used>>
  PROVE  ExpansionIInv'
  <1> DEFINE i == req[h].set
             n == Len(approvals) + 1
  <1>1. ExpansionShape /\ ExpansionReading(h)
    BY DEF ExpansionIInv
  <1>2. /\ sets' \in Seq(SetRows) /\ Len(sets') = Len(sets) /\ DOMAIN sets' = DOMAIN sets
        /\ i \in DOMAIN sets
        /\ PatchOutcome(i, req[h].row, TRUE, variants)
        /\ approvals' \in Seq(ApprovalRows) /\ Len(approvals') = n
        /\ n <= MaxApprovals
        /\ \A k \in DOMAIN approvals : approvals'[k] = approvals[k]
        /\ approvals'[n] = [set |-> i, version |-> sets'[i].version, variants |-> variants]
    BY <1>1, ApproveRows
  <1>3. \A j \in DOMAIN sets : j # i =>
               /\ sets'[j].status = IF sets[j].status = "approved" THEN "superseded" ELSE sets[j].status
               /\ sets'[j].variants = sets[j].variants /\ sets'[j].version = sets[j].version
               /\ sets'[j].mode = sets[j].mode /\ sets'[j].from = sets[j].from
    BY <1>1, ApproveRows
  <1>4. DOMAIN approvals = 1 .. Len(approvals) /\ DOMAIN approvals' = 1 .. n /\ Len(approvals) \in Nat
    BY <1>1, <1>2 DEF ExpansionShape
  <1>5. n \in DOMAIN approvals' /\ \A k \in DOMAIN approvals' : k \in DOMAIN approvals \/ k = n
    BY <1>4
  <1>6. /\ \A j \in DOMAIN sets : sets[j] \in SetRows
        /\ \A k \in DOMAIN approvals : approvals[k] \in ApprovalRows
        /\ req[h].row \in SetRows
    BY <1>1 DEF ExpansionShape, ExpansionReading
  <1> HIDE DEF n, i
  <1>7. /\ approvals'[n].set = i /\ approvals'[n].version = sets'[i].version
        /\ approvals'[n].variants = variants
    BY <1>2
  <1>8. \A j \in DOMAIN sets' : sets'[j].version \in 1 .. Len(approvals') + 1
    <2>1. \A j \in DOMAIN sets : sets[j].version \in 1 .. Len(approvals) + 1
      BY <1>1 DEF ExpansionShape
    <2>2. ASSUME NEW j \in DOMAIN sets, j # i PROVE sets'[j].version \in 1 .. n + 1
      BY <1>3, <1>4, <2>1, <2>2 DEF n
    <2>3. /\ sets'[i].version = Written(PatchedVersion(req[h].row, TRUE), req[h].row.version, sets[i].version)
          /\ req[h].row.version <= Len(approvals) + 1 /\ req[h].row.version \in Nat
      BY <1>1, <1>2, <1>6 DEF PatchOutcome, ExpansionReading, SetRows
    <2>4. sets'[i].version = req[h].row.version + 1 \/ sets'[i].version = sets[i].version
      BY <2>3 DEF Written, PatchedVersion
    <2>5. sets'[i].version \in 1 .. n + 1
      <3>1. sets[i].version \in 1 .. Len(approvals) + 1
        BY <1>2, <2>1
      <3>2. Len(approvals) \in Nat
        BY <1>4
      <3>3. req[h].row.version \in Nat /\ req[h].row.version <= Len(approvals) + 1
        BY <2>3
      <3>4. sets'[i].version \in 1 .. Len(approvals) + 2
        BY <2>4, <3>1, <3>2, <3>3
      <3> QED BY <3>2, <3>4 DEF n
    <2> QED BY <1>2, <2>2, <2>5
  <1>9. \A k \in DOMAIN approvals' : approvals'[k].set \in DOMAIN sets'
    BY <1>1, <1>2, <1>5, <1>7 DEF ExpansionShape
  <1>10. /\ DOMAIN req' = Handlers /\ req'[h] = Idle
         /\ \A x \in Handlers : x # h => req'[x] = req[x]
    BY <1>1, ExpansionEnds DEF ExpansionShape
  <1>11. ExpansionShape'
    BY <1>1, <1>2, <1>8, <1>9, <1>10 DEF ExpansionShape
  <1>12. ASSUME NEW x \in Handlers PROVE ExpansionReading(x)'
    <2>1. CASE x = h
      BY <1>10, <2>1, IdleExpandsNothing DEF ExpansionReading, Busy
    <2>2. CASE x # h
      <3>1. ExpansionReading(x) /\ req'[x] = req[x]
        BY <1>10, <2>2 DEF ExpansionIInv
      <3>2. Busy(x, "patch") => req[x].row.version \in Nat
        BY <3>1 DEF ExpansionReading, SetRows
      <3>3. Busy(x, "patch") => req[x].row.version <= Len(approvals') + 1
        BY <1>2, <1>4, <3>1, <3>2 DEF ExpansionReading, n
      <3> QED BY <1>2, <3>1, <3>3 DEF ExpansionReading, Busy
    <2> QED BY <2>1, <2>2
  <1>13. ASSUME ~overtaken'
         PROVE  SetsAreReviewed' /\ ApprovalsAreNamed' /\ UsedIsApproved' /\ AnswersAreUsedOnce'
    <2>1. ~overtaken /\ sets[i] = req[h].row
      BY <1>13 DEF i
    <2>2. SetsAreReviewed /\ ApprovalsAreNamed /\ UsedIsApproved /\ AnswersAreUsedOnce
      BY <2>1 DEF ExpansionIInv
    <2>3. /\ sets'[i].status = "approved" /\ sets'[i].variants = variants
          /\ sets'[i].version = sets[i].version + 1
          /\ sets'[i].mode = sets[i].mode /\ sets'[i].from = sets[i].from
      BY <1>2, <2>1 DEF PatchOutcome, Written, PatchedStatus, PatchedVersion
    <2>4. \A j \in DOMAIN sets : j # i => sets'[j].status # "approved"
      BY <1>3
    <2>5. \A k \in DOMAIN approvals :
             /\ approvals[k].version \in Nat /\ approvals[k].set \in DOMAIN sets
             /\ approvals[k].version <= sets[approvals[k].set].version
      BY <1>1, <1>6, <2>2 DEF ApprovalsAreNamed, ApprovalRows, ExpansionShape
    <2>6. sets[i].version \in Nat
      BY <1>2, <1>6 DEF SetRows
    <2>7. \A k \in DOMAIN approvals : approvals[k].set = i => approvals[k].version < sets'[i].version
      BY <2>3, <2>5, <2>6
    <2>8. SetsAreReviewed'
      <3>1. \A j \in DOMAIN sets' :
               \/ sets'[j].status \in {"approved", "superseded"}
               \/ sets'[j].status = StatusAfterSave(sets'[j].variants, sets'[j].mode)
        BY <1>2, <1>3, <2>2, <2>3 DEF SetsAreReviewed
      <3>2. \A j, l \in DOMAIN sets' :
               sets'[j].status = "approved" /\ sets'[l].status = "approved" => j = l
        BY <1>2, <2>4
      <3>3. \A m \in DOMAIN approvals' : ~(m > n)
        BY <1>4 DEF n
      <3>4. ASSUME NEW j \in DOMAIN sets', sets'[j].status = "approved"
            PROVE  \E k \in DOMAIN approvals' : SnapshotOf(j, k)'
        <4>1. j = i
          BY <1>2, <2>4, <3>4
        <4>2. approvals'[n] = [set |-> j, version |-> sets'[j].version, variants |-> sets'[j].variants]
          BY <1>2, <2>3, <4>1
        <4> QED BY <1>5, <3>3, <4>2 DEF SnapshotOf
      <3> QED BY <3>1, <3>2, <3>4 DEF SetsAreReviewed
    <2>9. ApprovalsAreNamed'
      <3>1. ASSUME NEW k \in DOMAIN approvals'
            PROVE  approvals'[k].version <= sets'[approvals'[k].set].version
        <4>1. CASE k = n
          <5>1. sets'[i].version \in Nat
            BY <2>3, <2>6
          <5> QED BY <1>7, <4>1, <5>1
        <4>2. CASE k \in DOMAIN approvals /\ approvals[k].set = i
          BY <1>2, <2>3, <2>5, <2>6, <4>2
        <4>3. CASE k \in DOMAIN approvals /\ approvals[k].set # i
          BY <1>2, <1>3, <2>5, <4>3
        <4> QED BY <1>5, <4>1, <4>2, <4>3
      <3>2. ASSUME NEW k \in DOMAIN approvals', NEW m \in DOMAIN approvals',
                   approvals'[k].set = approvals'[m].set,
                   approvals'[k].version = approvals'[m].version
            PROVE  approvals'[k].variants = approvals'[m].variants
        <4>1. CASE k = n /\ m = n
          BY <4>1
        <4>2. CASE k = n /\ m \in DOMAIN approvals
          BY <1>2, <1>7, <2>3, <2>5, <2>6, <2>7, <3>2, <4>2
        <4>3. CASE m = n /\ k \in DOMAIN approvals
          BY <1>2, <1>7, <2>3, <2>5, <2>6, <2>7, <3>2, <4>3
        <4>4. CASE k \in DOMAIN approvals /\ m \in DOMAIN approvals
          BY <1>2, <2>2, <3>2, <4>4 DEF ApprovalsAreNamed
        <4> QED BY <1>5, <4>1, <4>2, <4>3, <4>4
      <3> QED BY <3>1, <3>2 DEF ApprovalsAreNamed
    <2>10. UsedIsApproved'
      <3>1. \A k \in DOMAIN approvals : k \in DOMAIN approvals'
        BY <1>4 DEF n
      <3> QED BY <1>2, <2>2, <3>1 DEF UsedIsApproved
    <2>11. \A j \in DOMAIN sets : sets'[j].from = sets[j].from
      BY <1>3, <2>3
    <2>12. AnswersAreUsedOnce'
      BY <1>2, <2>2, <2>11 DEF AnswersAreUsedOnce
    <2> QED BY <2>8, <2>9, <2>10, <2>12
  <1> QED BY <1>11, <1>12, <1>13 DEF ExpansionIInv

\* An edit keeps the invariant: what is edited is not approved any more.
LEMMA EditKeeps ==
  ASSUME ExpansionIInv, NEW h \in Handlers, Busy(h, "patch"),
         NEW variants \in SUBSET Variants, Edit(h, variants),
         overtaken' = (\/ overtaken
                       \/ sets[req[h].set] # req[h].row
                       \/ Len(approvals) > req[h].approvals),
         End(h), UNCHANGED <<answers, accepted, used>>
  PROVE  ExpansionIInv'
  <1> DEFINE i == req[h].set
  <1>1. ExpansionShape /\ ExpansionReading(h)
    BY DEF ExpansionIInv
  <1>2. /\ sets' \in Seq(SetRows) /\ Len(sets') = Len(sets) /\ DOMAIN sets' = DOMAIN sets
        /\ i \in DOMAIN sets
        /\ PatchOutcome(i, req[h].row, FALSE, variants)
        /\ \A j \in DOMAIN sets : j # i => sets'[j] = sets[j]
        /\ approvals' = approvals
    BY <1>1, EditRows
  <1> HIDE DEF i
  <1>3. sets'[i].version = sets[i].version
    BY <1>2 DEF PatchOutcome, Written, PatchedVersion
  <1>4. /\ DOMAIN req' = Handlers /\ req'[h] = Idle
        /\ \A x \in Handlers : x # h => req'[x] = req[x]
    BY <1>1, ExpansionEnds DEF ExpansionShape
  <1>5. \A j \in DOMAIN sets' : sets'[j].version = sets[j].version
    BY <1>2, <1>3
  <1>6. ExpansionShape'
    BY <1>1, <1>2, <1>4, <1>5 DEF ExpansionShape
  <1>7. ASSUME NEW x \in Handlers PROVE ExpansionReading(x)'
    <2>1. CASE x = h
      BY <1>4, <2>1, IdleExpandsNothing DEF ExpansionReading, Busy
    <2>2. CASE x # h
      BY <1>2, <1>4, <2>2 DEF ExpansionIInv, ExpansionReading, Busy
    <2> QED BY <2>1, <2>2
  <1>8. ASSUME ~overtaken'
        PROVE  SetsAreReviewed' /\ ApprovalsAreNamed' /\ UsedIsApproved' /\ AnswersAreUsedOnce'
    <2>1. ~overtaken /\ sets[i] = req[h].row
      BY <1>8 DEF i
    <2>2. SetsAreReviewed /\ ApprovalsAreNamed /\ UsedIsApproved /\ AnswersAreUsedOnce
      BY <2>1 DEF ExpansionIInv
    <2>3. /\ sets'[i].status = StatusAfterSave(variants, sets[i].mode)
          /\ sets'[i].variants = variants
          /\ sets'[i].mode = sets[i].mode /\ sets'[i].from = sets[i].from
      BY <1>2, <2>1 DEF PatchOutcome, Written, PatchedStatus
    <2>4. sets'[i].status # "approved"
      BY <2>3 DEF StatusAfterSave
    <2>5. SetsAreReviewed'
      <3>1. \A j \in DOMAIN sets' :
               \/ sets'[j].status \in {"approved", "superseded"}
               \/ sets'[j].status = StatusAfterSave(sets'[j].variants, sets'[j].mode)
        BY <1>2, <2>2, <2>3 DEF SetsAreReviewed
      <3>2. \A j, l \in DOMAIN sets' :
               sets'[j].status = "approved" /\ sets'[l].status = "approved" => j = l
        BY <1>2, <2>2, <2>4 DEF SetsAreReviewed
      <3>3. ASSUME NEW j \in DOMAIN sets', sets'[j].status = "approved"
            PROVE  \E k \in DOMAIN approvals' : SnapshotOf(j, k)'
        BY <1>2, <2>2, <2>4, <3>3 DEF SetsAreReviewed, SnapshotOf
      <3> QED BY <3>1, <3>2, <3>3 DEF SetsAreReviewed
    <2>6. ApprovalsAreNamed'
      BY <1>1, <1>2, <1>5, <2>2 DEF ApprovalsAreNamed, ExpansionShape
    <2>7. UsedIsApproved'
      BY <1>2, <2>2 DEF UsedIsApproved
    <2>8. \A j \in DOMAIN sets : sets'[j].from = sets[j].from
      BY <1>2, <2>3
    <2>9. AnswersAreUsedOnce'
      BY <1>2, <2>2, <2>8 DEF AnswersAreUsedOnce
    <2> QED BY <2>5, <2>6, <2>7, <2>9
  <1> QED BY <1>6, <1>7, <1>8 DEF ExpansionIInv

\* The set a job takes its variants from is the approved one, and as it was approved.
LEMMA ResolvedIsApproved ==
  ASSUME ExpansionShape, SetsAreReviewed,
         NEW i \in DOMAIN sets, sets[i].status = "approved"
  PROVE  /\ Resolved = i
         /\ \E k \in DOMAIN approvals :
               approvals[k] = [set |-> Resolved, version |-> sets[Resolved].version,
                               variants |-> sets[Resolved].variants]
  <1> DEFINE ofApproved == {k \in DOMAIN approvals : sets[approvals[k].set].status = "approved"}
             last == CHOOSE k \in ofApproved : \A j \in ofApproved : j <= k
  <1>1. PICK k \in DOMAIN approvals : SnapshotOf(i, k)
    BY DEF SetsAreReviewed
  <1>2. \A m \in ofApproved : approvals[m].set = i
    BY DEF SetsAreReviewed, ExpansionShape
  <1>3. DOMAIN approvals \subseteq Nat
    BY DEF ExpansionShape
  <1>4. approvals[k].set = i
    BY <1>1 DEF SnapshotOf
  <1>5. k \in ofApproved
    BY <1>4
  <1>6. \A j \in ofApproved : j <= k
    BY <1>1, <1>2, <1>3 DEF SnapshotOf
  <1>7. last \in ofApproved
    BY <1>5, <1>6
  <1>8. approvals[last].set = i
    BY <1>2, <1>7
  <1>9. Resolved = i
    BY <1>8 DEF Resolved, LatestApproved
  <1>10. approvals[k] = [set |-> i, version |-> sets[i].version, variants |-> sets[i].variants]
    BY <1>1 DEF SnapshotOf
  <1> QED BY <1>9, <1>10

\* Every step of the variants' life keeps it.
LEMMA ExpansionSteps ==
  ASSUME ExpansionIInv, [ExpansionNext]_expansionVars
  PROVE  ExpansionIInv'
  <1>0. ExpansionShape /\ \A h \in Handlers : ExpansionReading(h)
    BY DEF ExpansionIInv
  <1>1. CASE UNCHANGED expansionVars
    <2>1. UNCHANGED <<sets, approvals, answers, accepted, used, overtaken, req>>
      BY <1>1 DEF expansionVars, expansionRows, requestVars
    <2> QED BY <2>1 DEF ExpansionIInv, ExpansionShape, ExpansionReading, Busy, SetsAreReviewed,
              ApprovalsAreNamed, UsedIsApproved, AnswersAreUsedOnce, SnapshotOf
  <1>2. CASE Generate
    <2>1. PICK variants \in SUBSET Variants :
             CreateDraft(variants,
                         IF variants \cap AiVariants # {} THEN "ai_assisted" ELSE "rule", RuleBased)
      BY <1>2 DEF Generate
    <2>2. UNCHANGED <<approvals, answers, accepted, used, overtaken, req>>
      BY <1>2 DEF Generate, requestVars
    <2> DEFINE mode == IF variants \cap AiVariants # {} THEN "ai_assisted" ELSE "rule"
    <2>3. CreateDraft(variants, mode, RuleBased) /\ mode \in {"rule", "ai_assisted"}
      BY <2>1
    <2> HIDE DEF mode
    <2>4. /\ sets' \in Seq(SetRows)
          /\ DOMAIN sets' = 1 .. Len(sets) + 1 /\ DOMAIN sets = 1 .. Len(sets)
          /\ \A i \in DOMAIN sets : sets'[i] = sets[i]
          /\ sets'[Len(sets) + 1].from = RuleBased
          /\ \A i \in DOMAIN sets' : sets'[i].version \in 1 .. Len(approvals) + 1
          /\ SetsAreReviewed => SetsAreReviewed'
          /\ ApprovalsAreNamed => ApprovalsAreNamed'
          /\ UsedIsApproved => UsedIsApproved'
      BY <1>0, <2>2, <2>3, DraftKeeps
    <2>5. \A i \in DOMAIN sets' : i \in DOMAIN sets \/ sets'[i].from = RuleBased
      BY <1>0, <2>4 DEF ExpansionShape
    <2>6. DOMAIN sets \subseteq DOMAIN sets'
      BY <1>0, <2>4 DEF ExpansionShape
    <2>7. ExpansionShape'
      BY <1>0, <2>2, <2>4, <2>6 DEF ExpansionShape
    <2>8. \A h \in Handlers : ExpansionReading(h)'
      BY <1>0, <2>2, <2>6 DEF ExpansionReading, Busy
    <2>9. AnswersAreUsedOnce => AnswersAreUsedOnce'
      BY <2>2, <2>4, <2>5, VariantsAssumption DEF AnswersAreUsedOnce
    <2> QED BY <2>2, <2>4, <2>7, <2>8, <2>9 DEF ExpansionIInv
  <1>3. CASE ResolveForDiscovery
    <2>1. UNCHANGED <<sets, approvals, answers, accepted, overtaken, req>>
      BY <1>3 DEF ResolveForDiscovery, requestVars
    <2>2. used' = {[set |-> Resolved, version |-> sets[Resolved].version,
                    variants |-> sets[Resolved].variants]}
      BY <1>3 DEF ResolveForDiscovery
    <2>3. PICK i \in DOMAIN sets : sets[i].status = "approved"
      BY <1>3 DEF ResolveForDiscovery
    <2>4. SetsAreReviewed => UsedIsApproved'
      BY <1>0, <2>1, <2>2, <2>3, ResolvedIsApproved DEF UsedIsApproved
    <2>5. ExpansionShape' /\ \A h \in Handlers : ExpansionReading(h)'
      BY <1>0, <2>1 DEF ExpansionShape, ExpansionReading, Busy
    <2> QED BY <2>1, <2>4, <2>5 DEF ExpansionIInv, SetsAreReviewed, ApprovalsAreNamed,
              AnswersAreUsedOnce, SnapshotOf
  <1>4. ASSUME NEW a \in Answers, Respond(a) PROVE ExpansionIInv'
    <2>1. UNCHANGED <<sets, approvals, accepted, used, overtaken, req>>
      BY <1>4 DEF Respond, requestVars
    <2>2. PICK framing \in SUBSET AiVariants \ {{}} : answers' = [answers EXCEPT ![a] = framing]
      BY <1>4 DEF Respond
    <2>3. answers[a] = {}
      BY <1>4 DEF Respond
    <2>4. answers \in [Answers -> SUBSET Variants]
      BY <1>0 DEF ExpansionShape
    <2>5. answers' \in [Answers -> SUBSET Variants]
      BY <2>2, <2>4, VariantsAssumption
    <2>6. \A b \in Answers : answers[b] # {} => answers'[b] # {}
      BY <2>2, <2>3, <2>4
    <2>7. ExpansionShape'
      BY <1>0, <2>1, <2>5, <2>6 DEF ExpansionShape
    <2>8. \A h \in Handlers : ExpansionReading(h)'
      BY <1>0, <2>1, <2>6 DEF ExpansionReading, Busy
    <2> QED BY <2>1, <2>7, <2>8 DEF ExpansionIInv, SetsAreReviewed, ApprovalsAreNamed,
              UsedIsApproved, AnswersAreUsedOnce, SnapshotOf
  <1>5. ASSUME NEW h \in Handlers, NEW r,
               UNCHANGED <<sets, approvals, answers, accepted, used, overtaken>>,
               Begin(h, r) \/ (End(h) /\ r = Idle), 
               /\ r.op = "patch" => /\ r.set \in DOMAIN sets /\ r.row \in SetRows
                                    /\ r.row.version <= Len(approvals) + 1
               /\ r.op = "accept" => r.answer \in Answers /\ answers[r.answer] # {} /\ ~r.accepted
        PROVE  ExpansionIInv'
    <2>1. DOMAIN req = Handlers
      BY <1>0 DEF ExpansionShape
    <2>2. DOMAIN req' = Handlers /\ req'[h] = r /\ \A x \in Handlers : x # h => req'[x] = req[x]
      BY <1>5, <2>1 DEF Begin, End
    <2>3. ExpansionShape'
      BY <1>0, <1>5, <2>2 DEF ExpansionShape
    <2>4. ExpansionReading(h)'
      BY <1>5, <2>2 DEF ExpansionReading, Busy
    <2>5. ASSUME NEW x \in Handlers, x # h PROVE ExpansionReading(x)'
      BY <1>0, <1>5, <2>2, <2>5 DEF ExpansionReading, Busy
    <2> QED BY <1>5, <2>3, <2>4, <2>5 DEF ExpansionIInv, SetsAreReviewed, ApprovalsAreNamed,
              UsedIsApproved, AnswersAreUsedOnce, SnapshotOf
  <1>6. ASSUME NEW h \in Handlers, PatchRead(h) PROVE ExpansionIInv'
    <2> DEFINE r == [op |-> "patch", set |-> LatestSet, row |-> sets[LatestSet],
                     approvals |-> Len(approvals)]
    <2>1. sets # <<>> /\ Begin(h, r) /\ UNCHANGED <<sets, approvals, answers, accepted, used, overtaken>>
      BY <1>6 DEF PatchRead, expansionRows
    <2>2. r.op = "patch" /\ r.set = Len(sets) /\ r.row = sets[Len(sets)]
      BY DEF LatestSet
    <2> HIDE DEF r
    <2>3. sets \in Seq(SetRows)
      BY <1>0 DEF ExpansionShape
    <2>4. Len(sets) \in DOMAIN sets
      BY <2>1, <2>3
    <2>5. sets[Len(sets)] \in SetRows
      BY <2>3, <2>4
    <2>6. approvals \in Seq(ApprovalRows) /\ sets[Len(sets)].version \in 1 .. Len(approvals) + 1
      BY <1>0, <2>4 DEF ExpansionShape
    <2>7. sets[Len(sets)].version <= Len(approvals) + 1
      BY <2>6
    <2> QED BY <1>5, <2>1, <2>2, <2>4, <2>5, <2>7
  <1>7. ASSUME NEW h \in Handlers, PatchWrite(h) PROVE ExpansionIInv'
    <2>1. PICK variants \in SUBSET Variants : Approve(h, variants) \/ Edit(h, variants)
      BY <1>7 DEF PatchWrite
    <2>2. /\ Busy(h, "patch") /\ End(h) /\ UNCHANGED <<answers, accepted, used>>
          /\ overtaken' = (\/ overtaken
                           \/ sets[req[h].set] # req[h].row
                           \/ Len(approvals) > req[h].approvals)
      BY <1>7 DEF PatchWrite
    <2> QED BY <2>1, <2>2, ApproveKeeps, EditKeeps
  <1>8. ASSUME NEW h \in Handlers, NEW a \in Answers, AcceptAnswerRead(h, a) PROVE ExpansionIInv'
    <2> DEFINE r == [op |-> "accept", answer |-> a, accepted |-> a \in accepted]
    <2>1. /\ answers[a] # {} /\ a \notin accepted /\ Begin(h, r)
          /\ UNCHANGED <<sets, approvals, answers, accepted, used, overtaken>>
      BY <1>8 DEF AcceptAnswerRead, expansionRows
    <2>2. r.op = "accept" /\ r.answer = a /\ r.accepted = (a \in accepted)
      OBVIOUS
    <2> HIDE DEF r
    <2> QED BY <1>5, <2>1, <2>2
  <1>9. ASSUME NEW h \in Handlers, AcceptAnswerWrite(h) PROVE ExpansionIInv'
    <2> DEFINE a == req[h].answer
    <2>1. /\ Busy(h, "accept") /\ End(h) /\ UNCHANGED <<approvals, answers, used>>
          /\ CreateDraft(answers[a], "ai_assisted", a)
          /\ accepted' = accepted \cup {a}
          /\ overtaken' = (overtaken \/ (~req[h].accepted /\ a \in accepted))
      BY <1>9 DEF AcceptAnswerWrite
    <2>2. a \in Answers /\ answers[a] # {} /\ ~req[h].accepted
      BY <1>0, <2>1 DEF ExpansionReading
    <2> HIDE DEF a
    <2>3. answers[a] \in SUBSET Variants
      BY <1>0, <2>2 DEF ExpansionShape
    <2>4. /\ sets' \in Seq(SetRows)
          /\ DOMAIN sets' = 1 .. Len(sets) + 1 /\ DOMAIN sets = 1 .. Len(sets)
          /\ \A i \in DOMAIN sets : sets'[i] = sets[i]
          /\ sets'[Len(sets) + 1].from = a
          /\ \A i \in DOMAIN sets' : sets'[i].version \in 1 .. Len(approvals) + 1
          /\ SetsAreReviewed => SetsAreReviewed'
          /\ ApprovalsAreNamed => ApprovalsAreNamed'
          /\ UsedIsApproved => UsedIsApproved'
      BY <1>0, <2>1, <2>2, <2>3, DraftKeeps
    <2>5. \A i \in DOMAIN sets' : i \in DOMAIN sets \/ i = Len(sets) + 1
      BY <1>0, <2>4 DEF ExpansionShape
    <2>6. DOMAIN sets \subseteq DOMAIN sets'
      BY <1>0, <2>4 DEF ExpansionShape
    <2>7. /\ DOMAIN req' = Handlers /\ req'[h] = Idle
          /\ \A x \in Handlers : x # h => req'[x] = req[x]
      BY <1>0, <2>1, ExpansionEnds DEF ExpansionShape
    <2>8. accepted' \subseteq {b \in Answers : answers[b] # {}} /\ overtaken' \in BOOLEAN
      BY <1>0, <2>1, <2>2 DEF ExpansionShape
    <2>9. ExpansionShape'
      BY <1>0, <2>1, <2>4, <2>6, <2>7, <2>8 DEF ExpansionShape
    <2>10. ASSUME NEW x \in Handlers PROVE ExpansionReading(x)'
      <3>1. CASE x = h
        BY <2>7, <3>1, IdleExpandsNothing DEF ExpansionReading, Busy
      <3>2. CASE x # h
        BY <1>0, <2>1, <2>6, <2>7, <3>2 DEF ExpansionReading, Busy
      <3> QED BY <3>1, <3>2
    <2>11. ASSUME ~overtaken'
           PROVE  ~overtaken /\ a \notin accepted
      BY <2>1, <2>2, <2>11
    <2>12. ASSUME AnswersAreUsedOnce, a \notin accepted PROVE AnswersAreUsedOnce'
      <3>1. \A i \in DOMAIN sets : sets[i].from \in Answers => sets[i].from # a
        BY <2>12 DEF AnswersAreUsedOnce
      <3>2. \A i \in DOMAIN sets' : sets'[i].from \in Answers => sets'[i].from \in accepted'
        BY <2>1, <2>4, <2>5, <2>12 DEF AnswersAreUsedOnce
      <3>3. \A i, j \in DOMAIN sets' :
               sets'[i].from \in Answers /\ sets'[i].from = sets'[j].from => i = j
        BY <2>4, <2>5, <2>12, <3>1 DEF AnswersAreUsedOnce
      <3> QED BY <3>2, <3>3 DEF AnswersAreUsedOnce
    <2> QED BY <2>4, <2>9, <2>10, <2>11, <2>12 DEF ExpansionIInv
  <1>10. ASSUME NEW h \in Handlers, Lost(h), UNCHANGED <<expansionRows, overtaken>>
         PROVE  ExpansionIInv'
    <2>1. End(h) /\ UNCHANGED <<sets, approvals, answers, accepted, used, overtaken>>
      BY <1>10 DEF Lost, expansionRows
    <2> QED BY <1>5, <2>1, IdleExpandsNothing
  <1> QED BY <1>1, <1>2, <1>3, <1>4, <1>6, <1>7, <1>8, <1>9, <1>10
          DEF ExpansionNext, PatchSet, AcceptIntoQueryExpansion

\* What the invariant says of the properties.
LEMMA ExpansionHolds ==
  ASSUME ExpansionIInv
  PROVE  UsedWasReviewed /\ OneApproved /\ VersionNamesVariants /\ AcceptedOnce
  <1>1. CASE overtaken
    BY <1>1 DEF UsedWasReviewed, OneApproved, VersionNamesVariants, AcceptedOnce
  <1>2. CASE ~overtaken
    <2>1. SetsAreReviewed /\ ApprovalsAreNamed /\ UsedIsApproved /\ AnswersAreUsedOnce
      BY <1>2 DEF ExpansionIInv
    <2>2. Cardinality({i \in DOMAIN sets : sets[i].status = "approved"}) <= 1
      BY <2>1, AtMostOne DEF SetsAreReviewed
    <2>3. OneApproved
      BY <2>2 DEF OneApproved
    <2>4. VersionNamesVariants
      BY <2>1 DEF ApprovalsAreNamed, VersionNamesVariants
    <2> QED BY <2>1, <2>3, <2>4 DEF UsedIsApproved, UsedWasReviewed, AnswersAreUsedOnce, AcceptedOnce
  <1> QED BY <1>1, <1>2

\* The types follow too.
LEMMA ExpansionTypes == ExpansionIInv => ExpansionTypeOK
  <1> SUFFICES ASSUME ExpansionIInv PROVE ExpansionTypeOK
    OBVIOUS
  <1>1. ExpansionShape
    BY DEF ExpansionIInv
  <1>2. ASSUME NEW i \in DOMAIN sets
        PROVE  /\ sets[i].variants \subseteq Variants /\ sets[i].mode \in {"rule", "ai_assisted"}
               /\ sets[i].version \in 1 .. MaxApprovals + 1
    <2>1. sets[i] \in SetRows
      BY <1>1 DEF ExpansionShape
    <2>2. /\ sets[i].version \in 1 .. Len(approvals) + 1 /\ approvals \in Seq(ApprovalRows)
          /\ Len(approvals) <= MaxApprovals
      BY <1>1 DEF ExpansionShape
    <2>3. sets[i].version \in 1 .. MaxApprovals + 1
      BY <2>2, VariantsAssumption
    <2> QED BY <2>1, <2>3 DEF SetRows
  <1>3. overtaken \/ SetsAreReviewed
    BY DEF ExpansionIInv
  <1> QED BY <1>1, <1>2, <1>3 DEF ExpansionTypeOK, ExpansionShape, SetsAreReviewed

\* A discovery job runs with reviewed variants, one set of a campaign is approved, a
\* version names its variants and an answer becomes one set, however requests overlap
\* that see what they write over (QueryExpansionService, DiscoveryCopilotService).
THEOREM VariantsStayReviewed ==
  ExpansionSpec => [](UsedWasReviewed /\ OneApproved /\ VersionNamesVariants /\ AcceptedOnce)
  <1>1. ExpansionInit => ExpansionIInv
    BY ExpansionInitially
  <1>2. ExpansionIInv /\ [ExpansionNext]_expansionVars => ExpansionIInv'
    BY ExpansionSteps
  <1> QED BY <1>1, <1>2, ExpansionHolds, PTL DEF ExpansionSpec

-----------------------------------------------------------------------------
(* Engagement. *)

GenerationRows == [superseded : BOOLEAN, outdated : BOOLEAN]
PlanRows == [superseded : BOOLEAN, task : TaskStatuses]
FeedbackRows == [actor : Actors, target : Nat, state : FeedbackStates,
                 prior : FeedbackStates \cup {"none"}]

\* What actor a has said of generation i before entry n, and which of it was the last.
SaidBefore(entries, n, a, i) ==
    {m \in 1 .. n - 1 : entries[m].actor = a /\ entries[m].target = i}

LastWord(entries, n, a, i) ==
    IF SaidBefore(entries, n, a, i) = {} THEN "none"
    ELSE entries[CHOOSE m \in SaidBefore(entries, n, a, i) :
                    \A l \in SaidBefore(entries, n, a, i) : l <= m].state

HasLastWord(entries, n, a, i) ==
    \/ SaidBefore(entries, n, a, i) = {}
    \/ \E m \in SaidBefore(entries, n, a, i) : \A l \in SaidBefore(entries, n, a, i) : l <= m

\* Each entry names the last word before it.
Chained(entries) ==
    \A k \in DOMAIN entries :
        entries[k].prior = LastWord(entries, k, entries[k].actor, entries[k].target)

\* The columns the argument looks at.
EngagementShape ==
    /\ generations \in Seq(GenerationRows)
    /\ plans \in Seq(PlanRows)
    /\ plans # <<>> => scored
    /\ feedback \in Seq(FeedbackRows)
    /\ \A k \in DOMAIN feedback : feedback[k].target \in DOMAIN generations
    /\ \A n \in 1 .. Len(feedback) + 1, a \in Actors, i \in DOMAIN generations : HasLastWord(feedback, n, a, i)
    /\ scored \in BOOLEAN /\ crossed \in BOOLEAN
    /\ DOMAIN req = Handlers

\* What a request has read, of what does not change any more.
EngagementReading(h) ==
    /\ Busy(h, "plan") => scored
    /\ Busy(h, "task") => /\ req[h].plan \in DOMAIN plans /\ req[h].to \in TaskStatuses
                          /\ CanTransition(req[h].from, req[h].to)
    /\ Busy(h, "feedback") => /\ req[h].actor \in Actors
                              /\ req[h].target \in DOMAIN generations
                              /\ req[h].prior \in FeedbackStates \cup {"none"}

OneEach ==
    /\ \A i, j \in CurrentOf(generations) : i = j
    /\ \A i, j \in CurrentOf(plans) : i = j

EngagementIInv ==
    /\ EngagementShape
    /\ \A h \in Handlers : EngagementReading(h)
    /\ crossed \/ (OneEach /\ Chained(feedback))

\* What TasksMoveLegally says of one step.
TasksMove == \A i \in DOMAIN plans : crossed' \/ CanTransition(plans[i].task, plans'[i].task)

-----------------------------------------------------------------------------
\* Who is idle has read nothing.
LEMMA IdleFollowsNothing == Idle.op \notin {"plan", "task", "feedback"}
  BY DEF Idle

\* Replacing rows keeps the old ones, superseded where they were seen, and adds new ones.
LEMMA ReplacedRows ==
  ASSUME NEW R, \A r \in R : [r EXCEPT !.superseded = TRUE] \in R,
         NEW rows \in Seq(R), NEW new \in Seq(R), NEW seen
  PROVE  LET out == Replaced(rows, seen, new)
         IN /\ out \in Seq(R) /\ Len(out) = Len(rows) + Len(new)
            /\ DOMAIN rows \subseteq DOMAIN out
            /\ \A i \in DOMAIN rows :
                  out[i] = IF i \in seen THEN [rows[i] EXCEPT !.superseded = TRUE] ELSE rows[i]
            /\ \A i \in DOMAIN out : i \in DOMAIN rows
                                     \/ (/\ i - Len(rows) \in DOMAIN new
                                         /\ out[i] = new[i - Len(rows)])
  <1> DEFINE kept == [i \in DOMAIN rows |-> IF i \in seen THEN [rows[i] EXCEPT !.superseded = TRUE]
                                            ELSE rows[i]]
  <1>1. /\ DOMAIN rows = 1 .. Len(rows) /\ Len(rows) \in Nat
        /\ \A i \in DOMAIN rows : rows[i] \in R
    OBVIOUS
  <1>2. \A i \in DOMAIN rows :
           kept[i] = IF i \in seen THEN [rows[i] EXCEPT !.superseded = TRUE] ELSE rows[i]
    OBVIOUS
  <1>3. \A i \in DOMAIN rows : kept[i] \in R
    BY <1>1, <1>2
  <1>4. kept \in [1 .. Len(rows) -> R]
    <2>1. DOMAIN kept = 1 .. Len(rows) /\ kept = [i \in 1 .. Len(rows) |-> kept[i]]
      BY <1>1
    <2> HIDE DEF kept
    <2> QED BY <1>1, <1>3, <2>1
  <1>5. Replaced(rows, seen, new) = kept \o new
    BY DEF Replaced
  <1> HIDE DEF kept
  <1>6. kept \in Seq(R) /\ Len(kept) = Len(rows)
    BY <1>1, <1>4
  <1>7. /\ kept \o new \in Seq(R) /\ Len(kept \o new) = Len(rows) + Len(new)
        /\ \A i \in 1 .. Len(rows) : (kept \o new)[i] = kept[i]
        /\ \A i \in 1 .. Len(rows) + Len(new) :
              i > Len(rows) => (kept \o new)[i] = new[i - Len(rows)]
    BY <1>6
  <1> DEFINE out == kept \o new
  <1>8. DOMAIN out = 1 .. Len(rows) + Len(new) /\ Len(new) \in Nat /\ DOMAIN new = 1 .. Len(new)
    BY <1>7
  <1> HIDE DEF out
  <1>9. DOMAIN rows \subseteq DOMAIN out
    BY <1>1, <1>8
  <1>10. \A i \in DOMAIN out : i \in DOMAIN rows \/ i - Len(rows) \in DOMAIN new
    BY <1>1, <1>8
  <1>11. \A i \in DOMAIN out : i \in DOMAIN rows \/ out[i] = new[i - Len(rows)]
    BY <1>1, <1>7, <1>8 DEF out
  <1> QED BY <1>1, <1>2, <1>5, <1>7, <1>9, <1>10, <1>11 DEF out

\* If all that is current was seen, what is current then is what is new.
LEMMA NewIsCurrent ==
  ASSUME NEW R, \A r \in R : [r EXCEPT !.superseded = TRUE] \in R /\ [r EXCEPT !.superseded = TRUE].superseded,
         NEW rows \in Seq(R), NEW new \in Seq(R), Len(new) <= 1
  PROVE  LET out == Replaced(rows, CurrentOf(rows), new)
         IN \A i, j \in CurrentOf(out) : i = j
  <1> DEFINE out == Replaced(rows, CurrentOf(rows), new)
  <1>1. /\ out \in Seq(R)
        /\ \A i \in DOMAIN rows :
              out[i] = IF i \in CurrentOf(rows) THEN [rows[i] EXCEPT !.superseded = TRUE] ELSE rows[i]
        /\ \A i \in DOMAIN out : i \in DOMAIN rows \/ i - Len(rows) \in DOMAIN new
    BY ReplacedRows
  <1> HIDE DEF out
  <1>2. \A i \in DOMAIN rows : rows[i] \in R
    OBVIOUS
  <1>3. \A i \in DOMAIN rows : out[i].superseded
    BY <1>1, <1>2 DEF CurrentOf
  <1>4. DOMAIN out \subseteq Nat /\ Len(rows) \in Nat /\ DOMAIN new = 1 .. Len(new) /\ Len(new) \in Nat
    BY <1>1
  <1>5. \A i \in CurrentOf(out) : i \in DOMAIN out /\ i - Len(rows) \in DOMAIN new
    BY <1>1, <1>3 DEF CurrentOf
  <1>6. \A i \in CurrentOf(out) : i = Len(rows) + 1
    BY <1>4, <1>5
  <1> QED BY <1>6 DEF out

\* Superseding keeps a row of either table a row of it.
LEMMA SupersededRows ==
  /\ \A r \in GenerationRows : /\ [r EXCEPT !.superseded = TRUE] \in GenerationRows
                               /\ [r EXCEPT !.superseded = TRUE].superseded
  /\ \A r \in PlanRows : /\ [r EXCEPT !.superseded = TRUE] \in PlanRows
                         /\ [r EXCEPT !.superseded = TRUE].superseded
                         /\ [r EXCEPT !.superseded = TRUE].task = r.task
  BY DEF GenerationRows, PlanRows

\* Hypotheses are replaced.
LEMMA GenerationsReplaced ==
  ASSUME EngagementShape, NEW seen, NEW new \in Seq(GenerationRows), Len(new) <= 1,
         ReplaceForEvent(seen, new)
  PROVE  /\ generations' \in Seq(GenerationRows)
         /\ DOMAIN generations \subseteq DOMAIN generations'
         /\ crossed' \in BOOLEAN /\ (crossed => crossed')
         /\ crossed' \/ \A i, j \in CurrentOf(generations') : i = j
  <1>1. generations \in Seq(GenerationRows) /\ crossed \in BOOLEAN
    BY DEF EngagementShape
  <1>2. /\ generations' = Replaced(generations, seen, new)
        /\ crossed' = (crossed \/ CurrentOf(generations) # seen)
    BY DEF ReplaceForEvent, Crossed
  <1>3. generations' \in Seq(GenerationRows) /\ DOMAIN generations \subseteq DOMAIN generations'
    BY <1>1, <1>2, SupersededRows, ReplacedRows
  <1>4. ASSUME ~crossed' PROVE \A i, j \in CurrentOf(generations') : i = j
    <2>1. generations' = Replaced(generations, CurrentOf(generations), new)
      BY <1>2, <1>4
    <2> QED BY <1>1, <2>1, SupersededRows, NewIsCurrent
  <1> QED BY <1>1, <1>2, <1>3, <1>4

\* A plan replaces others.
LEMMA PlansReplaced ==
  ASSUME EngagementShape, NEW seen, ReplacePlan(seen)
  PROVE  /\ plans' \in Seq(PlanRows)
         /\ DOMAIN plans \subseteq DOMAIN plans'
         /\ \A i \in DOMAIN plans : plans'[i].task = plans[i].task
         /\ seen = CurrentOf(plans) => \A i, j \in CurrentOf(plans') : i = j
  <1> DEFINE row == [superseded |-> FALSE, task |-> "TODO"]
             new == <<row>>
  <1>1. plans \in Seq(PlanRows) /\ \A i \in DOMAIN plans : plans[i] \in PlanRows
    BY DEF EngagementShape
  <1>2. plans' = Replaced(plans, seen, new)
    BY DEF ReplacePlan
  <1>3. row \in PlanRows
    BY DEF PlanRows, TaskStatuses
  <1> HIDE DEF row
  <1>4. new \in Seq(PlanRows) /\ Len(new) = 1
    BY <1>3
  <1> HIDE DEF new
  <1>5. /\ plans' \in Seq(PlanRows) /\ DOMAIN plans \subseteq DOMAIN plans'
        /\ \A i \in DOMAIN plans :
              plans'[i] = IF i \in seen THEN [plans[i] EXCEPT !.superseded = TRUE] ELSE plans[i]
    BY <1>1, <1>2, <1>4, SupersededRows, ReplacedRows
  <1>6. \A i \in DOMAIN plans : plans'[i].task = plans[i].task
    BY <1>1, <1>5, SupersededRows
  <1>7. ASSUME seen = CurrentOf(plans) PROVE \A i, j \in CurrentOf(plans') : i = j
    <2>1. plans' = Replaced(plans, CurrentOf(plans), new)
      BY <1>2, <1>7
    <2>2. new \in Seq(PlanRows) /\ Len(new) <= 1
      BY <1>4
    <2>3. \A r \in PlanRows : /\ [r EXCEPT !.superseded = TRUE] \in PlanRows
                              /\ [r EXCEPT !.superseded = TRUE].superseded
      BY SupersededRows
    <2> QED BY <1>1, <2>1, <2>2, <2>3, NewIsCurrent
  <1> QED BY <1>5, <1>6, <1>7

\* What somebody sees as their last word is their last of all entries.
LEMMA ViewerSeesTheLast ==
  ASSUME NEW a, NEW i, feedback \in Seq(FeedbackRows)
  PROVE  ViewerProjection(a, i) = LastWord(feedback, Len(feedback) + 1, a, i)
  <1> DEFINE own == {k \in DOMAIN feedback : feedback[k].actor = a /\ feedback[k].target = i}
             said == SaidBefore(feedback, Len(feedback) + 1, a, i)
             word(S) == IF S = {} THEN "none"
                        ELSE feedback[CHOOSE k \in S : \A m \in S : m <= k].state
  <1>1. own = said
    <2>1. DOMAIN feedback = 1 .. Len(feedback) + 1 - 1
      OBVIOUS
    <2> QED BY <2>1 DEF SaidBefore
  <1>2. ViewerProjection(a, i) = word(own)
    BY DEF ViewerProjection
  <1>3. LastWord(feedback, Len(feedback) + 1, a, i) = word(said)
    BY DEF LastWord
  <1> HIDE DEF own, said, word
  <1> QED BY <1>1, <1>2, <1>3

\* An entry changes nothing of what was said before it.
LEMMA EarlierWordsStay ==
  ASSUME feedback \in Seq(FeedbackRows), NEW row \in FeedbackRows,
         feedback' = Append(feedback, row), NEW n \in 1 .. Len(feedback) + 1, NEW a, NEW i
  PROVE  /\ SaidBefore(feedback', n, a, i) = SaidBefore(feedback, n, a, i)
         /\ HasLastWord(feedback, n, a, i) => HasLastWord(feedback', n, a, i) /\ LastWord(feedback', n, a, i) = LastWord(feedback, n, a, i)
  <1>1. /\ n \in Nat /\ 1 .. n - 1 \subseteq DOMAIN feedback
        /\ \A m \in DOMAIN feedback : feedback'[m] = feedback[m]
    OBVIOUS
  <1>2. \A m \in 1 .. n - 1 : feedback'[m] = feedback[m]
    BY <1>1
  <1>3. SaidBefore(feedback', n, a, i) = SaidBefore(feedback, n, a, i)
    BY <1>2 DEF SaidBefore
  <1>4. HasLastWord(feedback, n, a, i) => HasLastWord(feedback', n, a, i)
    BY <1>3 DEF HasLastWord
  <1>5. ASSUME HasLastWord(feedback, n, a, i) PROVE LastWord(feedback', n, a, i) = LastWord(feedback, n, a, i)
    <2> DEFINE said == SaidBefore(feedback, n, a, i)
               last == CHOOSE m \in said : \A l \in said : l <= m
    <2>1. LastWord(feedback, n, a, i) = IF said = {} THEN "none" ELSE feedback[last].state
      BY DEF LastWord
    <2>2. LastWord(feedback', n, a, i) = IF said = {} THEN "none" ELSE feedback'[last].state
      BY <1>3 DEF LastWord
    <2>3. said # {} => last \in said
      BY <1>5 DEF HasLastWord
    <2>4. said \subseteq 1 .. n - 1
      BY DEF SaidBefore
    <2> HIDE DEF said, last
    <2>5. CASE said = {}
      BY <2>1, <2>2, <2>5
    <2>6. CASE said # {}
      <3>1. feedback'[last] = feedback[last]
        BY <1>2, <2>3, <2>4, <2>6
      <3> QED BY <2>1, <2>2, <2>6, <3>1
    <2> QED BY <2>5, <2>6
  <1> QED BY <1>3, <1>4, <1>5

\* After an entry everybody's last word is theirs, or the entry.
LEMMA EntryIsLast ==
  ASSUME feedback \in Seq(FeedbackRows), NEW row \in FeedbackRows,
         feedback' = Append(feedback, row), NEW n, n = Len(feedback) + 1, NEW a, NEW i,
         HasLastWord(feedback, n, a, i)
  PROVE  HasLastWord(feedback', n + 1, a, i)
  <1>1. /\ n \in Nat /\ n >= 1 /\ feedback'[n] = row
        /\ n \in 1 .. Len(feedback) + 1
    OBVIOUS
  <1>2. SaidBefore(feedback', n, a, i) = SaidBefore(feedback, n, a, i) /\ HasLastWord(feedback', n, a, i)
    BY <1>1, EarlierWordsStay
  <1>3. n + 1 - 1 = n /\ 1 .. n = (1 .. n - 1) \cup {n} /\ \A m \in 1 .. n : m <= n
    BY <1>1
  <1>4. CASE row.actor = a /\ row.target = i
    <2>1. n \in SaidBefore(feedback', n + 1, a, i) /\ \A l \in SaidBefore(feedback', n + 1, a, i) : l <= n
      BY <1>1, <1>3, <1>4 DEF SaidBefore
    <2> QED BY <2>1 DEF HasLastWord
  <1>5. CASE ~(row.actor = a /\ row.target = i)
    <2>1. SaidBefore(feedback', n + 1, a, i) = SaidBefore(feedback', n, a, i)
      BY <1>1, <1>3, <1>5 DEF SaidBefore
    <2> QED BY <1>2, <2>1 DEF HasLastWord
  <1> QED BY <1>4, <1>5

\* A last word is what somebody said, if anything.
LEMMA WordIsAState ==
  ASSUME EngagementShape, NEW a \in Actors, NEW i \in DOMAIN generations
  PROVE  ViewerProjection(a, i) \in FeedbackStates \cup {"none"}
  <1> DEFINE said == SaidBefore(feedback, Len(feedback) + 1, a, i)
             last == CHOOSE m \in said : \A l \in said : l <= m
  <1>1. feedback \in Seq(FeedbackRows)
    BY DEF EngagementShape
  <1>2. HasLastWord(feedback, Len(feedback) + 1, a, i)
    <2>1. Len(feedback) + 1 \in 1 .. Len(feedback) + 1
      BY <1>1
    <2> QED BY <2>1 DEF EngagementShape
  <1>3. ViewerProjection(a, i) = IF said = {} THEN "none" ELSE feedback[last].state
    BY <1>1, ViewerSeesTheLast DEF LastWord
  <1>4. said # {} => last \in said
    BY <1>2 DEF HasLastWord
  <1>5. said \subseteq DOMAIN feedback
    BY <1>1 DEF SaidBefore
  <1> HIDE DEF said, last
  <1>6. \A m \in DOMAIN feedback : feedback[m].state \in FeedbackStates
    <2>1. \A m \in DOMAIN feedback : feedback[m] \in FeedbackRows
      BY <1>1
    <2> QED BY <2>1 DEF FeedbackRows
  <1> QED BY <1>3, <1>4, <1>5, <1>6

\* An entry names what its author had said before, unless they have spoken meanwhile.
LEMMA FeedbackKeeps ==
  ASSUME EngagementShape, crossed \/ Chained(feedback), NEW row \in FeedbackRows,
         row.actor \in Actors, row.target \in DOMAIN generations,
         feedback' = Append(feedback, row), UNCHANGED generations,
         crossed' = (crossed \/ ViewerProjection(row.actor, row.target) # row.prior)
  PROVE  /\ feedback' \in Seq(FeedbackRows)
         /\ \A k \in DOMAIN feedback' : feedback'[k].target \in DOMAIN generations'
         /\ \A n \in 1 .. Len(feedback') + 1, a \in Actors, i \in DOMAIN generations' :
               HasLastWord(feedback', n, a, i)
         /\ crossed' \/ Chained(feedback')
  <1>1. feedback \in Seq(FeedbackRows) /\ crossed \in BOOLEAN
    BY DEF EngagementShape
  <1>2. PICK e : e = Len(feedback) + 1
    OBVIOUS
  <1>3. /\ feedback' \in Seq(FeedbackRows) /\ Len(feedback') = e /\ feedback'[e] = row
        /\ e \in Nat /\ e \in 1 .. Len(feedback) + 1
        /\ DOMAIN feedback = 1 .. Len(feedback)
        /\ DOMAIN feedback' = 1 .. e
        /\ \A k \in DOMAIN feedback : feedback'[k] = feedback[k]
    BY <1>1, <1>2
  <1>4. /\ \A k \in 1 .. e : k \in DOMAIN feedback \/ k = e
        /\ \A n \in 1 .. e + 1 : n \in 1 .. Len(feedback) + 1 \/ n = e + 1
        /\ \A k \in DOMAIN feedback : k \in 1 .. Len(feedback) + 1
    BY <1>1, <1>2, <1>3
  <1>5. \A k \in DOMAIN feedback' : feedback'[k].target \in DOMAIN generations'
    BY <1>3, <1>4 DEF EngagementShape
  <1>6. ASSUME NEW n \in 1 .. Len(feedback') + 1, NEW a \in Actors, NEW i \in DOMAIN generations
        PROVE  HasLastWord(feedback', n, a, i)
    <2>1. \A m \in 1 .. Len(feedback) + 1 : HasLastWord(feedback, m, a, i)
      BY DEF EngagementShape
    <2>2. CASE n \in 1 .. Len(feedback) + 1
      BY <1>1, <2>1, <2>2, EarlierWordsStay
    <2>3. CASE n = e + 1
      <3>1. HasLastWord(feedback, e, a, i)
        BY <1>3, <2>1
      <3>2. HasLastWord(feedback', e + 1, a, i)
        BY <1>1, <1>2, <3>1, EntryIsLast
      <3> QED BY <2>3, <3>2
    <2>4. n \in 1 .. e + 1
      BY <1>3, <1>6
    <2> QED BY <1>4, <2>2, <2>3, <2>4
  <1>7. ASSUME ~crossed' PROVE Chained(feedback')
    <2>1. ~crossed /\ ViewerProjection(row.actor, row.target) = row.prior
      BY <1>7
    <2>2. \A k \in DOMAIN feedback :
             feedback[k].prior = LastWord(feedback, k, feedback[k].actor, feedback[k].target)
      BY <2>1 DEF Chained
    <2>3. ASSUME NEW n \in 1 .. Len(feedback) + 1, NEW a \in Actors, NEW i \in DOMAIN generations
          PROVE  LastWord(feedback', n, a, i) = LastWord(feedback, n, a, i)
      <3>1. HasLastWord(feedback, n, a, i)
        BY DEF EngagementShape
      <3> QED BY <1>1, <3>1, EarlierWordsStay
    <2>4. ASSUME NEW k \in DOMAIN feedback', NEW a, NEW i, a = feedback'[k].actor, i = feedback'[k].target
          PROVE  feedback'[k].prior = LastWord(feedback', k, a, i)
      <3>1. CASE k \in DOMAIN feedback
        <4>1. feedback[k] \in FeedbackRows /\ feedback'[k] = feedback[k] /\ k \in 1 .. Len(feedback) + 1
          BY <1>1, <1>3, <1>4, <3>1
        <4>2. a \in Actors /\ a = feedback[k].actor /\ i = feedback[k].target
          BY <2>4, <4>1 DEF FeedbackRows
        <4>3. i \in DOMAIN generations
          BY <3>1, <4>2 DEF EngagementShape
        <4>4. LastWord(feedback', k, a, i) = LastWord(feedback, k, a, i)
          BY <2>3, <4>1, <4>2, <4>3
        <4> QED BY <2>2, <3>1, <4>1, <4>2, <4>4
      <3>2. CASE k = e
        <4>1. a = row.actor /\ i = row.target /\ feedback'[k].prior = row.prior
          BY <1>3, <2>4, <3>2
        <4>2. k \in 1 .. Len(feedback) + 1
          BY <1>3, <3>2
        <4>3. LastWord(feedback', k, a, i) = LastWord(feedback, k, a, i)
          BY <2>3, <4>1, <4>2
        <4>4. ViewerProjection(a, i) = LastWord(feedback, k, a, i)
          BY <1>1, <1>2, <3>2, ViewerSeesTheLast
        <4> QED BY <2>1, <4>1, <4>3, <4>4
      <3> QED BY <1>3, <1>4, <3>1, <3>2
    <2>5. \A k \in DOMAIN feedback' :
             feedback'[k].prior = LastWord(feedback', k, feedback'[k].actor, feedback'[k].target)
      BY <2>4
    <2> QED BY <2>5 DEF Chained
  <1> QED BY <1>1, <1>3, <1>5, <1>6, <1>7

-----------------------------------------------------------------------------
\* At the start there is nothing.
LEMMA EngagementInitially == EngagementInit => EngagementIInv
  <1> SUFFICES ASSUME EngagementInit PROVE EngagementIInv
    OBVIOUS
  <1>1. generations = <<>> /\ plans = <<>> /\ feedback = <<>> /\ scored = FALSE /\ crossed = FALSE
    BY DEF EngagementInit
  <1>2. DOMAIN req = Handlers /\ \A h \in Handlers : req[h] = Idle
    BY DEF EngagementInit, NoRequests
  <1>3. /\ generations \in Seq(GenerationRows) /\ plans \in Seq(PlanRows)
        /\ feedback \in Seq(FeedbackRows)
        /\ DOMAIN generations = {} /\ DOMAIN plans = {} /\ DOMAIN feedback = {}
    BY <1>1
  <1>4. EngagementShape
    BY <1>1, <1>2, <1>3 DEF EngagementShape
  <1>5. \A h \in Handlers : EngagementReading(h)
    BY <1>2, IdleFollowsNothing DEF EngagementReading, Busy
  <1>6. OneEach /\ Chained(feedback)
    BY <1>3 DEF OneEach, CurrentOf, Chained
  <1> QED BY <1>4, <1>5, <1>6 DEF EngagementIInv

\* A task keeps its status, or moves as it may.
LEMMA TasksThatStay == \A s : CanTransition(s, s)
  BY DEF CanTransition

\* Of a generation that is not there yet nobody has said anything.
LEMMA NothingSaidOfNew ==
  ASSUME EngagementShape, NEW n \in 1 .. Len(feedback) + 1, NEW a \in Actors, NEW i
  PROVE  HasLastWord(feedback, n, a, i)
  <1>1. CASE i \in DOMAIN generations
    BY <1>1 DEF EngagementShape
  <1>2. CASE i \notin DOMAIN generations
    <2>1. feedback \in Seq(FeedbackRows) /\ \A k \in DOMAIN feedback : feedback[k].target # i
      BY <1>2 DEF EngagementShape
    <2>2. 1 .. n - 1 \subseteq DOMAIN feedback
      BY <2>1
    <2> QED BY <2>1, <2>2 DEF HasLastWord, SaidBefore
  <1> QED BY <1>1, <1>2

\* Every step keeps the invariant, and moves tasks as they may.
LEMMA EngagementSteps ==
  ASSUME EngagementIInv, [EngagementNext]_engagementVars
  PROVE  EngagementIInv' /\ TasksMove
  <1>0. /\ EngagementShape /\ \A h \in Handlers : EngagementReading(h)
        /\ crossed \/ (OneEach /\ Chained(feedback))
        /\ crossed \in BOOLEAN
    BY DEF EngagementIInv, EngagementShape
  <1>1. CASE UNCHANGED engagementVars
    <2>1. UNCHANGED <<generations, plans, scored, feedback, crossed, req>>
      BY <1>1 DEF engagementVars, engagementRows, requestVars
    <2>2. EngagementIInv'
      BY <2>1 DEF EngagementIInv, EngagementShape, EngagementReading, Busy, OneEach, CurrentOf
    <2> QED BY <2>1, <2>2, TasksThatStay DEF TasksMove
  <1>2. CASE NewStrategy
    <2>1. /\ generations' = [i \in DOMAIN generations |-> [generations[i] EXCEPT !.outdated = TRUE]]
          /\ UNCHANGED <<plans, scored, feedback, crossed, req>>
      BY <1>2 DEF NewStrategy, requestVars
    <2>2. generations \in Seq(GenerationRows) /\ \A i \in DOMAIN generations : generations[i] \in GenerationRows
      BY <1>0 DEF EngagementShape
    <2>3. \A r \in GenerationRows : /\ [r EXCEPT !.outdated = TRUE] \in GenerationRows
                                    /\ [r EXCEPT !.outdated = TRUE].superseded = r.superseded
      BY DEF GenerationRows
    <2>4. /\ DOMAIN generations' = DOMAIN generations
          /\ \A i \in DOMAIN generations :
                generations'[i] \in GenerationRows /\ generations'[i].superseded = generations[i].superseded
      BY <2>1, <2>2, <2>3
    <2>5. generations' \in Seq(GenerationRows)
      <3>1. DOMAIN generations = 1 .. Len(generations) /\ Len(generations) \in Nat
        BY <2>2
      <3>2. generations' \in [1 .. Len(generations) -> GenerationRows]
        <4>1. generations' = [i \in 1 .. Len(generations) |-> generations'[i]]
          BY <2>1, <3>1
        <4> QED BY <2>4, <3>1, <4>1
      <3> QED BY <3>1, <3>2
    <2>6. CurrentOf(generations') = CurrentOf(generations)
      BY <2>4 DEF CurrentOf
    <2>7. OneEach => OneEach'
      BY <2>1, <2>6 DEF OneEach
    <2>8. EngagementShape'
      BY <1>0, <2>1, <2>4, <2>5 DEF EngagementShape
    <2>9. \A h \in Handlers : EngagementReading(h)'
      BY <1>0, <2>1, <2>4 DEF EngagementReading, Busy
    <2> QED BY <1>0, <2>1, <2>7, <2>8, <2>9, TasksThatStay DEF EngagementIInv, TasksMove
  <1>3. CASE Score
    <2>1. scored' = TRUE /\ UNCHANGED <<generations, plans, feedback, crossed, req>>
      BY <1>3 DEF Score, requestVars
    <2>2. EngagementShape' /\ (OneEach => OneEach')
      BY <1>0, <2>1 DEF EngagementShape, OneEach, CurrentOf
    <2>3. \A h \in Handlers : EngagementReading(h)'
      BY <1>0, <2>1 DEF EngagementReading, Busy
    <2> QED BY <1>0, <2>1, <2>2, <2>3, TasksThatStay DEF EngagementIInv, TasksMove
  <1>4. ASSUME NEW h \in Handlers, NEW r, Begin(h, r) \/ (End(h) /\ r = Idle),
               UNCHANGED <<generations, plans, scored, feedback, crossed>>,
               r.op = "plan" => scored,
               r.op = "task" => /\ r.plan \in DOMAIN plans /\ r.to \in TaskStatuses
                                /\ CanTransition(r.from, r.to),
               r.op = "feedback" => /\ r.actor \in Actors /\ r.target \in DOMAIN generations
                                    /\ r.prior \in FeedbackStates \cup {"none"}
        PROVE  EngagementIInv' /\ TasksMove
    <2>1. DOMAIN req = Handlers
      BY <1>0 DEF EngagementShape
    <2>2. DOMAIN req' = Handlers /\ req'[h] = r /\ \A x \in Handlers : x # h => req'[x] = req[x]
      BY <1>4, <2>1 DEF Begin, End
    <2>3. EngagementShape' /\ (OneEach => OneEach')
      BY <1>0, <1>4, <2>2 DEF EngagementShape, OneEach, CurrentOf
    <2>4. EngagementReading(h)'
      BY <1>4, <2>2 DEF EngagementReading, Busy
    <2>5. ASSUME NEW x \in Handlers, x # h PROVE EngagementReading(x)'
      BY <1>0, <1>4, <2>2, <2>5 DEF EngagementReading, Busy
    <2> QED BY <1>0, <1>4, <2>3, <2>4, <2>5, TasksThatStay DEF EngagementIInv, TasksMove
  <1>5. ASSUME NEW h \in Handlers, End(h),
               DOMAIN generations \subseteq DOMAIN generations',
               DOMAIN plans \subseteq DOMAIN plans', scored' = scored
        PROVE  DOMAIN req' = Handlers /\ \A x \in Handlers : EngagementReading(x)'
    <2>1. DOMAIN req = Handlers
      BY <1>0 DEF EngagementShape
    <2>2. DOMAIN req' = Handlers /\ req'[h] = Idle /\ \A x \in Handlers : x # h => req'[x] = req[x]
      BY <1>5, <2>1 DEF End
    <2>3. EngagementReading(h)'
      BY <2>2, IdleFollowsNothing DEF EngagementReading, Busy
    <2>4. ASSUME NEW x \in Handlers, x # h PROVE EngagementReading(x)'
      BY <1>0, <1>5, <2>2, <2>4 DEF EngagementReading, Busy
    <2> QED BY <2>2, <2>3, <2>4
  <1>6. ASSUME NEW h \in Handlers, GetOrGenerate(h) PROVE EngagementIInv' /\ TasksMove
    <2>1. ASSUME NEW refresh \in BOOLEAN, AudienceRead(h, refresh) PROVE EngagementIInv' /\ TasksMove
      <3> DEFINE r == [op |-> "audience", seen |-> CurrentOf(generations), refresh |-> refresh]
      <3>1. Begin(h, r) /\ UNCHANGED <<generations, plans, scored, feedback, crossed>>
        BY <2>1 DEF AudienceRead, engagementRows
      <3>2. r.op = "audience"
        OBVIOUS
      <3> HIDE DEF r
      <3> QED BY <1>4, <3>1, <3>2
    <2>2. ASSUME AudienceWrite(h) PROVE EngagementIInv' /\ TasksMove
      <3>1. PICK new \in {<<NewGeneration>>, <<>>} : ReplaceForEvent(req[h].seen, new)
        BY <2>2 DEF AudienceWrite
      <3>2. NewGeneration \in GenerationRows
        BY DEF NewGeneration, GenerationRows
      <3>3. new \in Seq(GenerationRows) /\ Len(new) <= 1
        <4>1. CASE new = <<NewGeneration>>
          BY <3>2, <4>1
        <4>2. CASE new = <<>>
          BY <4>2
        <4> QED BY <3>1, <4>1, <4>2
      <3>4. End(h) /\ UNCHANGED <<plans, scored, feedback>>
        BY <2>2 DEF AudienceWrite
      <3>5. /\ generations' \in Seq(GenerationRows)
            /\ DOMAIN generations \subseteq DOMAIN generations'
            /\ crossed' \in BOOLEAN /\ (crossed => crossed')
            /\ crossed' \/ \A i, j \in CurrentOf(generations') : i = j
        BY <1>0, <3>1, <3>3, GenerationsReplaced
      <3>6. DOMAIN req' = Handlers /\ \A x \in Handlers : EngagementReading(x)'
        BY <1>5, <3>4, <3>5
      <3>7. EngagementShape'
        BY <1>0, <3>4, <3>5, <3>6, NothingSaidOfNew DEF EngagementShape
      <3>8. crossed' \/ (OneEach' /\ Chained(feedback'))
        BY <1>0, <3>4, <3>5 DEF OneEach
      <3> QED BY <3>4, <3>6, <3>7, <3>8, TasksThatStay DEF EngagementIInv, TasksMove
    <2> QED BY <1>6, <2>1, <2>2 DEF GetOrGenerate
  <1>7. ASSUME NEW h \in Handlers, CreateOrRefreshPlan(h) PROVE EngagementIInv' /\ TasksMove
    <2>1. ASSUME PlanRead(h) PROVE EngagementIInv' /\ TasksMove
      <3> DEFINE r == [op |-> "plan", seen |-> CurrentOf(generations), outdated |-> Outdated,
                       plans |-> CurrentOf(plans)]
      <3>1. scored /\ Begin(h, r) /\ UNCHANGED <<generations, plans, scored, feedback, crossed>>
        BY <2>1 DEF PlanRead, engagementRows
      <3>2. r.op = "plan"
        OBVIOUS
      <3> HIDE DEF r
      <3> QED BY <1>4, <3>1, <3>2
    <2>2. ASSUME PlanWrite(h) PROVE EngagementIInv' /\ TasksMove
      <3>1. Busy(h, "plan") /\ End(h) /\ UNCHANGED <<scored, feedback>>
        BY <2>2 DEF PlanWrite
      <3>2. scored
        BY <1>0, <3>1 DEF EngagementReading
      <3>3. PICK seen : /\ ReplacePlan(seen)
                        /\ \/ /\ ReplaceForEvent(req[h].seen, <<NewGeneration>>)
                              /\ seen = CurrentOf(plans)
                           \/ /\ Crossed(CurrentOf(plans) # seen)
                              /\ UNCHANGED generations
        BY <2>2 DEF PlanWrite
      <3>4. /\ plans' \in Seq(PlanRows)
            /\ DOMAIN plans \subseteq DOMAIN plans'
            /\ \A i \in DOMAIN plans : plans'[i].task = plans[i].task
            /\ seen = CurrentOf(plans) => \A i, j \in CurrentOf(plans') : i = j
        BY <1>0, <3>3, PlansReplaced
      <3>5. NewGeneration \in GenerationRows
        BY DEF NewGeneration, GenerationRows
      <3>6. <<NewGeneration>> \in Seq(GenerationRows) /\ Len(<<NewGeneration>>) <= 1
        BY <3>5
      <3>7. /\ generations' \in Seq(GenerationRows)
            /\ DOMAIN generations \subseteq DOMAIN generations'
            /\ crossed' \in BOOLEAN /\ (crossed => crossed')
            /\ crossed' \/ (seen = CurrentOf(plans) /\ \A i, j \in CurrentOf(generations') : i = j)
        <4>1. CASE ReplaceForEvent(req[h].seen, <<NewGeneration>>) /\ seen = CurrentOf(plans)
          BY <1>0, <3>6, <4>1, GenerationsReplaced
        <4>2. CASE Crossed(CurrentOf(plans) # seen) /\ UNCHANGED generations
          BY <1>0, <4>2 DEF Crossed, EngagementShape, OneEach
        <4> QED BY <3>3, <4>1, <4>2
      <3>8. DOMAIN req' = Handlers /\ \A x \in Handlers : EngagementReading(x)'
        BY <1>5, <3>1, <3>4, <3>7
      <3>9. EngagementShape'
        BY <1>0, <3>1, <3>2, <3>4, <3>7, <3>8, NothingSaidOfNew DEF EngagementShape
      <3>10. crossed' \/ (OneEach' /\ Chained(feedback'))
        BY <1>0, <3>1, <3>4, <3>7 DEF OneEach
      <3> QED BY <3>4, <3>8, <3>9, <3>10, TasksThatStay DEF EngagementIInv, TasksMove
    <2> QED BY <1>7, <2>1, <2>2 DEF CreateOrRefreshPlan
  <1>8. ASSUME NEW h \in Handlers, UpdateTask(h) PROVE EngagementIInv' /\ TasksMove
    <2>1. ASSUME NEW i \in DOMAIN plans, NEW to \in TaskStatuses, TaskRead(h, i, to)
          PROVE  EngagementIInv' /\ TasksMove
      <3> DEFINE r == [op |-> "task", plan |-> i, from |-> plans[i].task, to |-> to]
      <3>1. /\ CanTransition(plans[i].task, to) /\ Begin(h, r)
            /\ UNCHANGED <<generations, plans, scored, feedback, crossed>>
        BY <2>1 DEF TaskRead, engagementRows
      <3>2. r.op = "task" /\ r.plan = i /\ r.from = plans[i].task /\ r.to = to
        OBVIOUS
      <3> HIDE DEF r
      <3> QED BY <1>4, <3>1, <3>2
    <2>2. ASSUME TaskWrite(h) PROVE EngagementIInv' /\ TasksMove
      <3> DEFINE p == req[h].plan
      <3>1. /\ Busy(h, "task") /\ End(h) /\ UNCHANGED <<generations, scored, feedback>>
            /\ plans' = [plans EXCEPT ![p].task = req[h].to]
            /\ crossed' = (crossed \/ plans[p].task # req[h].from)
        BY <2>2 DEF TaskWrite, Crossed
      <3>2. p \in DOMAIN plans /\ req[h].to \in TaskStatuses /\ CanTransition(req[h].from, req[h].to)
        BY <1>0, <3>1 DEF EngagementReading
      <3> HIDE DEF p
      <3>3. plans \in Seq(PlanRows) /\ \A i \in DOMAIN plans : plans[i] \in PlanRows
        BY <1>0 DEF EngagementShape
      <3>4. DOMAIN plans' = DOMAIN plans /\ \A i \in DOMAIN plans : i # p => plans'[i] = plans[i]
        BY <3>1, <3>3
      <3>5. plans'[p] = [plans[p] EXCEPT !.task = req[h].to]
        BY <3>1, <3>2, <3>3
      <3>6. /\ plans'[p] \in PlanRows /\ plans'[p].task = req[h].to
            /\ plans'[p].superseded = plans[p].superseded
        BY <3>2, <3>3, <3>5 DEF PlanRows
      <3>7. plans' \in Seq(PlanRows) /\ Len(plans') = Len(plans)
        <4>1. DOMAIN plans = 1 .. Len(plans) /\ Len(plans) \in Nat
          BY <3>3
        <4>2. plans' = [i \in 1 .. Len(plans) |-> plans'[i]]
          BY <3>1, <3>4, <4>1
        <4>3. \A i \in 1 .. Len(plans) : plans'[i] \in PlanRows
          BY <3>3, <3>4, <3>6, <4>1
        <4>4. plans' \in [1 .. Len(plans) -> PlanRows]
          BY <4>2, <4>3
        <4> QED BY <4>1, <4>4
      <3>8. CurrentOf(plans') = CurrentOf(plans)
        BY <3>4, <3>6 DEF CurrentOf
      <3>9. DOMAIN req' = Handlers /\ \A x \in Handlers : EngagementReading(x)'
        BY <1>5, <3>1, <3>4
      <3>10. plans' # <<>> => scored
        <4>1. plans # <<>>
          BY <3>2
        <4> QED BY <1>0, <4>1 DEF EngagementShape
      <3>11. EngagementShape'
        BY <1>0, <3>1, <3>7, <3>9, <3>10 DEF EngagementShape
      <3>12. crossed' \/ (OneEach' /\ Chained(feedback'))
        BY <1>0, <3>1, <3>8 DEF OneEach
      <3>13. TasksMove
        <4>1. crossed' \/ CanTransition(plans[p].task, plans'[p].task)
          BY <3>1, <3>2, <3>6
        <4>2. \A i \in DOMAIN plans : i # p => CanTransition(plans[i].task, plans'[i].task)
          BY <3>4, TasksThatStay
        <4> QED BY <4>1, <4>2 DEF TasksMove
      <3> QED BY <3>9, <3>11, <3>12, <3>13 DEF EngagementIInv
    <2> QED BY <1>8, <2>1, <2>2 DEF UpdateTask
  <1>9. ASSUME NEW h \in Handlers, RecordFeedback(h) PROVE EngagementIInv' /\ TasksMove
    <2>1. ASSUME NEW a \in Actors, NEW i \in DOMAIN generations, FeedbackRead(h, a, i)
          PROVE  EngagementIInv' /\ TasksMove
      <3> DEFINE r == [op |-> "feedback", actor |-> a, target |-> i, prior |-> ViewerProjection(a, i)]
      <3>1. Begin(h, r) /\ UNCHANGED <<generations, plans, scored, feedback, crossed>>
        BY <2>1 DEF FeedbackRead, engagementRows
      <3>2. r.op = "feedback" /\ r.actor = a /\ r.target = i /\ r.prior = ViewerProjection(a, i)
        OBVIOUS
      <3>3. ViewerProjection(a, i) \in FeedbackStates \cup {"none"}
        BY <1>0, WordIsAState
      <3> HIDE DEF r
      <3> QED BY <1>4, <3>1, <3>2, <3>3
    <2>2. ASSUME FeedbackWrite(h) PROVE EngagementIInv' /\ TasksMove
      <3>1. PICK s \in FeedbackStates :
               feedback' = Append(feedback, [actor |-> req[h].actor, target |-> req[h].target,
                                             state |-> s, prior |-> req[h].prior])
        BY <2>2 DEF FeedbackWrite
      <3>2. /\ Busy(h, "feedback") /\ End(h) /\ UNCHANGED <<generations, plans, scored>>
            /\ crossed' = (crossed \/ ViewerProjection(req[h].actor, req[h].target) # req[h].prior)
        BY <2>2 DEF FeedbackWrite, Crossed
      <3>3. /\ req[h].actor \in Actors /\ req[h].target \in DOMAIN generations
            /\ req[h].prior \in FeedbackStates \cup {"none"}
        BY <1>0, <3>2 DEF EngagementReading
      <3> DEFINE row == [actor |-> req[h].actor, target |-> req[h].target, state |-> s,
                         prior |-> req[h].prior]
      <3>4. req[h].target \in Nat
        <4>1. generations \in Seq(GenerationRows)
          BY <1>0 DEF EngagementShape
        <4> QED BY <3>3, <4>1
      <3>5. row \in FeedbackRows
        BY <3>1, <3>3, <3>4 DEF FeedbackRows
      <3>6. row.actor = req[h].actor /\ row.target = req[h].target /\ row.prior = req[h].prior
        OBVIOUS
      <3>7. feedback' = Append(feedback, row)
        BY <3>1
      <3> HIDE DEF row
      <3>8. /\ feedback' \in Seq(FeedbackRows)
            /\ \A k \in DOMAIN feedback' : feedback'[k].target \in DOMAIN generations'
            /\ \A n \in 1 .. Len(feedback') + 1, a \in Actors, i \in DOMAIN generations' :
                  HasLastWord(feedback', n, a, i)
            /\ crossed' \/ Chained(feedback')
        <4>1. crossed' = (crossed \/ ViewerProjection(row.actor, row.target) # row.prior)
          BY <3>2, <3>6
        <4>2. row.actor \in Actors /\ row.target \in DOMAIN generations /\ generations' = generations
          BY <3>2, <3>3, <3>6
        <4>3. crossed \/ Chained(feedback)
          BY <1>0
        <4> QED BY <1>0, <3>5, <3>7, <4>1, <4>2, <4>3, FeedbackKeeps
      <3>9. DOMAIN req' = Handlers /\ \A x \in Handlers : EngagementReading(x)'
        BY <1>5, <3>2
      <3>10. crossed' \in BOOLEAN
        BY <3>2
      <3>11. EngagementShape'
        BY <1>0, <3>2, <3>8, <3>9, <3>10 DEF EngagementShape
      <3>12. crossed' \/ OneEach'
        BY <1>0, <3>2 DEF OneEach
      <3> QED BY <3>2, <3>8, <3>9, <3>11, <3>12, TasksThatStay DEF EngagementIInv, TasksMove
    <2> QED BY <1>9, <2>1, <2>2 DEF RecordFeedback
  <1>10. ASSUME NEW h \in Handlers, Lost(h), UNCHANGED <<engagementRows, crossed>>
         PROVE  EngagementIInv' /\ TasksMove
    <2>1. End(h) /\ UNCHANGED <<generations, plans, scored, feedback, crossed>>
      BY <1>10 DEF Lost, engagementRows
    <2> QED BY <1>4, <2>1, IdleFollowsNothing
  <1> QED BY <1>1, <1>2, <1>3, <1>6, <1>7, <1>8, <1>9, <1>10 DEF EngagementNext

\* What the invariant says of the properties.
LEMMA EngagementHolds == EngagementIInv => OneIsCurrent /\ FeedbackChains
  <1> SUFFICES ASSUME EngagementIInv PROVE OneIsCurrent /\ FeedbackChains
    OBVIOUS
  <1>1. CASE crossed
    BY <1>1 DEF OneIsCurrent, FeedbackChains
  <1>2. CASE ~crossed
    <2>1. OneEach /\ Chained(feedback)
      BY <1>2 DEF EngagementIInv
    <2>2. OneIsCurrent
      BY <2>1, AtMostOne DEF OneEach, OneIsCurrent
    <2>3. FeedbackChains
      BY <2>1 DEF Chained, FeedbackChains, LastWord, SaidBefore
    <2> QED BY <2>2, <2>3
  <1> QED BY <1>1, <1>2

\* And of the types.
LEMMA EngagementTypes == EngagementIInv => EngagementTypeOK
  <1> SUFFICES ASSUME EngagementIInv PROVE EngagementTypeOK
    OBVIOUS
  <1>1. EngagementShape
    BY DEF EngagementIInv
  <1>2. /\ \A i \in DOMAIN generations : generations[i] \in GenerationRows
        /\ \A i \in DOMAIN plans : plans[i] \in PlanRows
        /\ \A k \in DOMAIN feedback : feedback[k] \in FeedbackRows
    BY <1>1 DEF EngagementShape
  <1>3. \A k \in DOMAIN feedback : feedback[k].state \in FeedbackStates
    BY <1>2 DEF FeedbackRows
  <1> QED BY <1>1, <1>2, <1>3 DEF EngagementTypeOK, EngagementShape, GenerationRows, PlanRows

\* One plan of an event is followed at a time, feedback names what it changes and a task
\* moves as it may, however requests overlap that see what they write over
\* (AudienceService, EngagementService, AiFeedbackService).
THEOREM PlansStayFollowed == EngagementSpec => PlansAreFollowed
  <1>1. EngagementSpec => []EngagementIInv
    BY EngagementInitially, EngagementSteps, PTL DEF EngagementSpec
  <1>2. EngagementIInv /\ [EngagementNext]_engagementVars =>
           [\A i \in DOMAIN plans : crossed' \/ CanTransition(plans[i].task, plans'[i].task)]_engagementVars
    BY EngagementSteps DEF TasksMove
  <1>3. EngagementSpec => TasksMoveLegally
    BY <1>1, <1>2, PTL DEF EngagementSpec, TasksMoveLegally
  <1> QED BY <1>1, <1>3, EngagementHolds, PTL DEF PlansAreFollowed

-----------------------------------------------------------------------------
(* Variants and plans, in the composed specification. *)

\* Which component runs is decided once; of one that does not there is nothing.
AssistedIInv ==
    /\ part = "expansion" => ExpansionIInv
    /\ part # "expansion" => sets = <<>> /\ approvals = <<>> /\ used = {}
    /\ part = "engagement" => EngagementIInv
    /\ part # "engagement" => generations = <<>> /\ plans = <<>> /\ feedback = <<>>

\* Each starts as it would alone.
LEMMA AssistedInitially == CampaignInit => AssistedIInv
  BY ExpansionInitially, EngagementInitially
     DEF CampaignInit, AssistedIInv, ExpansionInit, EngagementInit

\* Each component's steps leave the other's rows alone.
LEMMA AssistedSteps ==
  ASSUME AssistedIInv, [CampaignNext]_campaignVars
  PROVE  AssistedIInv' /\ (TasksMove \/ UNCHANGED engagementVars)
  <1>1. CASE UNCHANGED campaignVars
    <2>1. UNCHANGED <<part, expansionVars, engagementVars>>
      BY <1>1 DEF campaignVars
    <2>2. UNCHANGED <<part, sets, approvals, used, generations, plans, feedback>>
      BY <2>1 DEF expansionVars, expansionRows, engagementVars, engagementRows
    <2> QED BY <2>1, <2>2, ExpansionSteps, EngagementSteps DEF AssistedIInv
  <1>2. CASE part = "expansion" /\ ExpansionNext /\ Alone("expansion")
    <2>1. UNCHANGED <<part, generations, plans, feedback>>
      BY <1>2 DEF Alone, engagementRows
    <2>2. TasksMove
      BY <2>1, TasksThatStay DEF TasksMove
    <2> QED BY <1>2, <2>1, <2>2, ExpansionSteps DEF AssistedIInv
  <1>3. CASE part = "engagement" /\ EngagementNext /\ Alone("engagement")
    <2>1. UNCHANGED <<part, sets, approvals, used>>
      BY <1>3 DEF Alone, expansionRows
    <2> QED BY <1>3, <2>1, EngagementSteps DEF AssistedIInv
  <1>4. ASSUME NEW p \in Parts \ {"expansion", "engagement"}, part = p, Alone(p)
        PROVE  AssistedIInv' /\ (TasksMove \/ UNCHANGED engagementVars)
    <2>1. UNCHANGED <<part, sets, approvals, used, generations, plans, feedback>>
      BY <1>4 DEF Alone, expansionRows, engagementRows, Parts
    <2>2. TasksMove
      BY <2>1, TasksThatStay DEF TasksMove
    <2> QED BY <1>4, <2>1, <2>2 DEF AssistedIInv
  <1> QED BY <1>1, <1>2, <1>3, <1>4 DEF CampaignNext, Parts

\* What a team is helped with is used as it was reviewed, one plan at a time
\* (QueryExpansionService, DiscoveryCopilotService, EngagementService, AiFeedbackService).
THEOREM AssistanceStaysReviewed == CampaignSpec => AssistanceIsReviewed
  <1>1. CampaignSpec => []AssistedIInv
    BY AssistedInitially, AssistedSteps, PTL DEF CampaignSpec
  <1>2. AssistedIInv => UsedWasReviewed /\ OneApproved /\ VersionNamesVariants /\ AcceptedOnce
    <2> SUFFICES ASSUME AssistedIInv
                 PROVE  UsedWasReviewed /\ OneApproved /\ VersionNamesVariants /\ AcceptedOnce
      OBVIOUS
    <2>1. CASE part = "expansion"
      BY <2>1, ExpansionHolds DEF AssistedIInv
    <2>2. CASE part # "expansion"
      <3>1. used = {} /\ DOMAIN sets = {} /\ DOMAIN approvals = {}
        BY <2>2 DEF AssistedIInv
      <3>2. OneApproved
        <4>1. \A i, j \in {k \in DOMAIN sets : sets[k].status = "approved"} : i = j
          BY <3>1
        <4> QED BY <4>1, AtMostOne DEF OneApproved
      <3> QED BY <3>1, <3>2 DEF UsedWasReviewed, VersionNamesVariants, AcceptedOnce
    <2> QED BY <2>1, <2>2
  <1>3. AssistedIInv => OneIsCurrent /\ FeedbackChains
    <2> SUFFICES ASSUME AssistedIInv PROVE OneIsCurrent /\ FeedbackChains
      OBVIOUS
    <2>1. CASE part = "engagement"
      BY <2>1, EngagementHolds DEF AssistedIInv
    <2>2. CASE part # "engagement"
      <3>1. DOMAIN generations = {} /\ DOMAIN plans = {} /\ DOMAIN feedback = {}
        BY <2>2 DEF AssistedIInv
      <3>2. CurrentOf(generations) = {} /\ CurrentOf(plans) = {}
        BY <3>1 DEF CurrentOf
      <3>3. OneIsCurrent
        BY <3>2, AtMostOne DEF OneIsCurrent
      <3> QED BY <3>1, <3>3 DEF FeedbackChains
    <2> QED BY <2>1, <2>2
  <1>4. AssistedIInv /\ [CampaignNext]_campaignVars =>
           [\A i \in DOMAIN plans : crossed' \/ CanTransition(plans[i].task, plans'[i].task)]_engagementVars
    BY AssistedSteps DEF TasksMove
  <1>5. CampaignSpec => TasksMoveLegally
    BY <1>1, <1>4, PTL DEF CampaignSpec, TasksMoveLegally
  <1>6. CampaignSpec => [](OneIsCurrent /\ FeedbackChains)
    BY <1>1, <1>3, PTL
  <1>7. CampaignSpec => PlansAreFollowed
    BY <1>5, <1>6 DEF PlansAreFollowed
  <1>8. CampaignSpec => [](UsedWasReviewed /\ OneApproved /\ VersionNamesVariants /\ AcceptedOnce)
    BY <1>1, <1>2, PTL
  <1> QED BY <1>7, <1>8 DEF AssistanceIsReviewed

-----------------------------------------------------------------------------
(* Types, in the composed specification. *)

\* The columns of a calendar's view that its order does not depend on, and what it shows.
FeedColumns ==
    /\ belongs \in [CalendarEvents -> Campaigns \cup {EveryCampaign}]
    /\ region \in [CalendarEvents -> Regions \cup {NoRegion}]
    /\ instant \in Instants

Shown ==
    /\ feed.scope \in {"none", "event", "watchlist", "event_filter"}
    /\ feed.status \in {"none", "served", "not_found", "error"}
    /\ feed.filter \in Filters
    /\ \A i \in DOMAIN feed.body :
          feed.body[i].status =
             IF starts[feed.body[i].event] <= instant THEN "CONFIRMED" ELSE "TENTATIVE"

\* An entry is confirmed if its event has begun by the clock of the export.
LEMMA EntriesAreTimed ==
  ASSUME starts \in [CalendarEvents -> Instants \cup {Undated}], instant \in Instants,
         NEW e \in CalendarEvents
  PROVE  FormatEvent(e).status = IF starts[e] <= instant THEN "CONFIRMED" ELSE "TENTATIVE"
  <1>1. /\ starts[e] \in Int /\ instant \in Int
        /\ starts[e] = Undated => ~(starts[e] <= instant)
    <2>1. starts[e] \in Instants \cup {Undated}
      OBVIOUS
    <2> QED BY <2>1, CalendarAssumption DEF Instants, Undated
  <1>2. CASE starts[e] <= instant
    <2>1. starts[e] # Undated /\ ~(instant < starts[e])
      BY <1>1, <1>2
    <2>2. ClassifyTimeState(e) = "live"
      BY <2>1 DEF ClassifyTimeState
    <2> QED BY <1>2, <2>2 DEF FormatEvent, CalendarStatus
  <1>3. CASE ~(starts[e] <= instant)
    <2>1. instant < starts[e]
      BY <1>1, <1>3
    <2>2. ClassifyTimeState(e) = "upcoming"
      BY <2>1 DEF ClassifyTimeState
    <2> QED BY <1>3, <2>2 DEF FormatEvent, CalendarStatus
  <1> QED BY <1>2, <1>3

\* A calendar of a list shows what it may.
LEMMA CalendarIsTimed ==
  ASSUME FeedShape, FeedColumns, UNCHANGED <<eventColumns, watchlist, instant>>,
         NEW list \in Seq(CalendarEvents), NEW kept \in SUBSET DOMAIN list,
         NEW scope \in {"event", "watchlist", "event_filter"},
         NEW filter \in Filters,
         feed' \in Calendar(scope, filter, list, kept)
  PROVE  FeedColumns' /\ Shown'
  <1>1. UNCHANGED <<starts, belongs, region, instant>>
    BY DEF eventColumns
  <1>2. PICK f \in Calendar(scope, filter, list, kept) : feed' = f
    OBVIOUS
  <1>3. FeedColumns'
    BY <1>1 DEF FeedColumns
  <1>4. /\ f.scope = scope /\ f.filter = filter /\ f.status \in {"served", "error"}
        /\ \A i \in DOMAIN f.body : \E e \in CalendarEvents : f.body[i] = FormatEvent(e)
    <2>1. CASE ~Sortable(list, kept)
      <3>1. f = [scope |-> scope, status |-> "error", filter |-> filter, body |-> <<>>]
        BY <2>1 DEF Calendar
      <3> QED BY <3>1
    <2>2. CASE Sortable(list, kept)
      <3>1. PICK ordered \in InStartOrder(list, kept) :
               f = [scope |-> scope, status |-> "served", filter |-> filter,
                    body |-> [i \in DOMAIN ordered |-> FormatEvent(ordered[i])]]
        BY <2>2 DEF Calendar
      <3>2. PICK o \in [1 .. Cardinality(kept) -> kept] : ordered = [k \in DOMAIN o |-> list[o[k]]]
        BY <3>1 DEF InStartOrder
      <3>3. \A k \in DOMAIN list : list[k] \in CalendarEvents
        BY ElementOfSeq, LenProperties
      <3>4. \A i \in DOMAIN ordered : ordered[i] \in CalendarEvents
        BY <3>2, <3>3
      <3> QED BY <3>1, <3>4
    <2> QED BY <2>1, <2>2
  <1>5. ASSUME NEW i \in DOMAIN f.body
        PROVE  f.body[i].status =
                  IF starts[f.body[i].event] <= instant THEN "CONFIRMED" ELSE "TENTATIVE"
    <2>1. PICK e \in CalendarEvents : f.body[i] = FormatEvent(e)
      BY <1>4
    <2>2. f.body[i].event = e
      BY <2>1 DEF FormatEvent
    <2>3. FormatEvent(e).status = IF starts[e] <= instant THEN "CONFIRMED" ELSE "TENTATIVE"
      BY EntriesAreTimed DEF FeedShape, FeedColumns
    <2> QED BY <2>1, <2>2, <2>3
  <1>6. Shown'
    BY <1>1, <1>2, <1>4, <1>5 DEF Shown
  <1> QED BY <1>3, <1>6

\* Nothing that is shown is shown wrongly.
LEMMA NothingIsTimed == feed' = NoFeed => Shown'
  <1> SUFFICES ASSUME feed' = NoFeed PROVE Shown'
    OBVIOUS
  <1>1. /\ feed'.scope = "none" /\ feed'.status = "none" /\ feed'.filter \in Filters
        /\ DOMAIN feed'.body = {}
    BY DEF NoFeed, NoFilter, Filters
  <1> QED BY <1>1 DEF Shown

\* At the start there is nothing to show.
LEMMA FeedTypesInitially == FeedInit => FeedColumns /\ Shown
  <1> SUFFICES ASSUME FeedInit PROVE FeedColumns /\ Shown
    OBVIOUS
  <1>1. /\ feed.scope = "none" /\ feed.status = "none" /\ feed.filter \in Filters
        /\ DOMAIN feed.body = {}
    BY DEF FeedInit, NoFeed, NoFilter, Filters
  <1>2. Shown
    BY <1>1 DEF Shown
  <1>3. FeedColumns
    BY CalendarAssumption DEF FeedInit, FeedColumns, Instants
  <1> QED BY <1>2, <1>3

\* Every step of the calendars keeps the types.
LEMMA FeedTypeSteps ==
  ASSUME FeedShape, FeedColumns, Shown, [FeedNext]_feedVars
  PROVE  FeedColumns' /\ Shown'
  <1>1. ASSUME NEW e \in CalendarEvents, NEW c \in Campaigns, NEW t \in Instants \cup {Undated},
               NEW r \in Regions \cup {NoRegion}, Observed(e, c, t, r)
        PROVE  FeedColumns' /\ Shown'
    BY <1>1, NothingIsTimed DEF Observed, FeedColumns
  <1>2. ASSUME NEW e \in CalendarEvents, NEW t \in Instants \cup {Undated},
               NEW r \in Regions \cup {NoRegion}, Corrected(e, t, r)
        PROVE  FeedColumns' /\ Shown'
    BY <1>2, NothingIsTimed DEF Corrected, FeedColumns
  <1>3. ASSUME NEW e \in CalendarEvents, WatchEvent(e) \/ UnwatchEvent(e)
        PROVE  FeedColumns' /\ Shown'
    BY <1>3, NothingIsTimed DEF WatchEvent, UnwatchEvent, FeedColumns, eventColumns
  <1>4. ASSUME NEW e \in CalendarEvents, GetEventIcs(e) PROVE FeedColumns' /\ Shown'
    <2>1. UNCHANGED <<eventColumns, watchlist, instant>>
      BY <1>4 DEF GetEventIcs
    <2>2. CASE Listed(e)
      <3>1. feed' \in Calendar("event", NoFilter, <<e>>, {1})
        BY <1>4, <2>2 DEF GetEventIcs
      <3>2. <<e>> \in Seq(CalendarEvents) /\ {1} \in SUBSET DOMAIN <<e>>
        OBVIOUS
      <3>3. NoFilter \in Filters
        BY DEF NoFilter, Filters
      <3> QED BY <2>1, <3>1, <3>2, <3>3, CalendarIsTimed
    <2>3. CASE ~Listed(e)
      <3>1. feed' = [NoFeed EXCEPT !.scope = "event", !.status = "not_found"]
        BY <1>4, <2>3 DEF GetEventIcs
      <3>2. /\ feed'.scope = "event" /\ feed'.status = "not_found"
            /\ feed'.filter \in Filters /\ DOMAIN feed'.body = {}
        BY <3>1 DEF NoFeed, NoFilter, Filters
      <3>3. Shown'
        BY <3>2 DEF Shown
      <3> QED BY <2>1, <3>3 DEF FeedColumns, eventColumns
    <2> QED BY <2>2, <2>3
  <1>5. CASE InstantPasses
    <2>1. instant' \in Instants
      BY <1>5, CalendarAssumption DEF InstantPasses, FeedColumns, Instants
    <2> QED BY <1>5, <2>1, NothingIsTimed DEF InstantPasses, FeedColumns, eventColumns
  <1>6. CASE GetWatchlistIcs
    <2>1. Limited(watchlist) \in SUBSET DOMAIN watchlist
      BY DEF Limited
    <2>2. NoFilter \in Filters
      BY DEF NoFilter, Filters
    <2> QED BY <1>6, <2>1, <2>2, CalendarIsTimed DEF GetWatchlistIcs, FeedShape
  <1>7. ASSUME NEW filter \in Filters, GetEventsIcs(filter)
        PROVE  FeedColumns' /\ Shown'
    <2>1. FilteredEvents(filter) \in SUBSET DOMAIN listing
      BY DEF Limited, FilteredEvents
    <2> QED BY <1>7, <2>1, CalendarIsTimed DEF GetEventsIcs, FeedShape
  <1>8. CASE UNCHANGED feedVars
    <2>1. UNCHANGED <<starts, belongs, region, instant, feed>>
      BY <1>8 DEF feedVars, eventColumns
    <2> QED BY <2>1 DEF FeedColumns, Shown
  <1>9. FeedNext => FeedColumns' /\ Shown'
    BY <1>1, <1>2, <1>3, <1>4, <1>5, <1>6, <1>7, Zenon DEF FeedNext
  <1> QED BY <1>8, <1>9

\* Together they are the types of the calendars.
LEMMA FeedTypes == FeedShape /\ FeedColumns /\ Shown => FeedTypeOK
  BY DEF FeedShape, FeedColumns, Shown, FeedTypeOK

\* A patch that is under way was not refused.
LocaleTInv ==
    /\ LocalesTypeOK
    /\ \A h \in Handlers : req[h] # Idle => RefusedFields(req[h].body) = {}

\* A value of each field is a preference.
LEMMA PreferencesOf ==
  ASSUME NEW p, p = [f \in Fields |-> p[f]], \A f \in Fields : p[f] \in Supported[f]
  PROVE  p \in Preferences
  <1>1. Supported["locale"] = Supported.locale /\ Supported["timezone"] = Supported.timezone
    OBVIOUS
  <1>2. p = [locale |-> p["locale"], timezone |-> p["timezone"]]
    BY DEF Fields
  <1> QED BY <1>1, <1>2 DEF Preferences, Fields

\* And has one of each.
LEMMA PreferencesHave ==
  ASSUME NEW p \in Preferences
  PROVE  \A f \in Fields : p[f] \in Supported[f]
  BY DEF Preferences, Fields

\* What an accepted body gives is supported.
LEMMA GivenIsSupported ==
  ASSUME NEW body \in Bodies, RefusedFields(body) = {}, NEW f \in Given(body)
  PROVE  f \in Fields /\ body[f] \in Supported[f]
  <1>1. body.locale # Unsupported
    BY DEF RefusedFields
  <1>2. body.timezone # Unsupported
    BY <1>1 DEF RefusedFields
  <1>3. f \in Fields /\ body[f] # Omitted
    BY DEF Given
  <1>4. CASE f = "locale"
    BY <1>1, <1>3, <1>4 DEF Bodies
  <1>5. CASE f = "timezone"
    BY <1>2, <1>3, <1>5 DEF Bodies
  <1> QED BY <1>3, <1>4, <1>5 DEF Fields

\* So is what a table of preferences becomes by it.
LEMMA PatchedIsTyped ==
  ASSUME NEW p \in Preferences, NEW body \in Bodies, RefusedFields(body) = {},
         NEW S \in SUBSET Given(body)
  PROVE  [f \in Fields |-> IF f \in S THEN body[f] ELSE p[f]] \in Preferences
  <1> DEFINE q == [f \in Fields |-> IF f \in S THEN body[f] ELSE p[f]]
  <1>1. \A f \in Fields : q[f] \in Supported[f]
    BY GivenIsSupported, PreferencesHave
  <1>2. q = [f \in Fields |-> q[f]]
    OBVIOUS
  <1> HIDE DEF q
  <1>3. q \in Preferences
    BY <1>1, <1>2, PreferencesOf
  <1> QED BY <1>3 DEF q

\* At the start the rows hold the defaults.
LEMMA LocaleTypesInitially == LocalesInit => LocaleTInv
  <1> SUFFICES ASSUME LocalesInit PROVE LocaleTInv
    OBVIOUS
  <1>1. Defaults \in Preferences
    BY ZonesAssumption DEF Defaults, Preferences, Supported
  <1>2. \A h \in Handlers : req[h] = Idle
    BY DEF LocalesInit, NoRequests
  <1>3. LocalesTypeOK
    BY <1>1 DEF LocalesInit, NoRequests, LocalesTypeOK, Subjects
  <1> QED BY <1>2, <1>3 DEF LocaleTInv

\* Every step of the preferences keeps the types.
LEMMA LocaleTypeSteps == LocaleTInv /\ [LocalesNext]_localeVars => LocaleTInv'
  <1> SUFFICES ASSUME LocaleTInv, [LocalesNext]_localeVars PROVE LocaleTInv'
    OBVIOUS
  <1> DEFINE Requests == [op : {"patch"}, whose : Subjects, body : Bodies, previous : Preferences]
  <1>0. /\ stored \in [Subjects -> Preferences] /\ trail \in [Subjects -> Preferences]
        /\ broken \in BOOLEAN /\ crossedOver \in BOOLEAN
        /\ refusals \in SUBSET (Fields \X Subjects) /\ chosen \in SUBSET Fields
        /\ req \in [Handlers -> {Idle} \cup Requests] /\ stale \in [Handlers -> BOOLEAN]
        /\ \A h \in Handlers : req[h] # Idle => RefusedFields(req[h].body) = {}
    BY DEF LocaleTInv, LocalesTypeOK
  <1>1. ASSUME NEW s \in Subjects, NEW body \in Bodies, RefusePatch(s, body) PROVE LocaleTInv'
    <2>1. RefusedFields(body) \X {s} \in SUBSET (Fields \X Subjects)
      BY DEF RefusedFields, Fields
    <2> QED BY <1>0, <1>1, <2>1 DEF RefusePatch, requestVars, LocaleTInv, LocalesTypeOK
  <1>2. ASSUME NEW h \in Handlers, NEW s \in Subjects, NEW body \in Bodies, PatchBegins(h, s, body)
        PROVE  LocaleTInv'
    <2> DEFINE r == [op |-> "patch", whose |-> s, body |-> body, previous |-> stored[s]]
    <2>1. r \in Requests /\ r.body = body
      BY <1>0
    <2>2. /\ RefusedFields(body) = {} /\ Begin(h, r)
          /\ UNCHANGED <<stored, trail, broken, refusals, chosen, crossedOver>>
      BY <1>2 DEF PatchBegins
    <2> HIDE DEF r, Requests
    <2>3. /\ req' \in [Handlers -> {Idle} \cup Requests] /\ stale' \in [Handlers -> BOOLEAN]
          /\ req'[h] = r /\ \A g \in Handlers \ {h} : req'[g] = req[g]
      BY <1>0, <2>1, <2>2 DEF Begin
    <2>4. \A g \in Handlers : req'[g] # Idle => RefusedFields(req'[g].body) = {}
      BY <1>0, <2>1, <2>2, <2>3
    <2> USE DEF Requests
    <2>5. LocalesTypeOK'
      BY <1>0, <2>2, <2>3 DEF LocalesTypeOK
    <2> QED BY <2>4, <2>5 DEF LocaleTInv
  <1>3. ASSUME NEW h \in Handlers, PatchCommits(h) PROVE LocaleTInv'
    <2> DEFINE s == req[h].whose
               body == req[h].body
               previous == req[h].previous
               news == {f \in Given(body) : body[f] # previous[f]}
    <2>1. /\ Busy(h, "patch")
          /\ stored' = [stored EXCEPT ![s] = Rewritten(s, body, previous)]
          /\ trail' = [trail EXCEPT ![s] = [f \in Fields |-> IF f \in news THEN body[f] ELSE @[f]]]
          /\ broken' = (broken \/ \E f \in news : previous[f] # trail[s][f])
          /\ chosen' = IF s = "user" THEN chosen \cup Given(body) ELSE chosen
          /\ crossedOver' = (crossedOver \/ stale[h])
          /\ EndAndOvertake(h) /\ UNCHANGED refusals
      BY <1>3 DEF PatchCommits, AuditPatch
    <2>2. req[h] # Idle
      BY <2>1, IdleIsNoPatch DEF Busy
    <2>3. s \in Subjects /\ body \in Bodies /\ RefusedFields(body) = {}
      BY <1>0, <2>2
    <2>4. Given(body) \in SUBSET Fields /\ news \in SUBSET Given(body)
      BY DEF Given
    <2>5. stored[s] \in Preferences /\ trail[s] \in Preferences
      BY <1>0, <2>3
    <2> HIDE DEF news, s, body, previous, Requests
    <2>6. [f \in Fields |-> IF f \in Given(body) THEN body[f] ELSE stored[s][f]] \in Preferences
      BY <2>3, <2>5, PatchedIsTyped
    <2>7. [f \in Fields |-> IF f \in news THEN body[f] ELSE trail[s][f]] \in Preferences
      BY <2>3, <2>4, <2>5, PatchedIsTyped
    <2>8. stored' \in [Subjects -> Preferences]
      BY <1>0, <2>1, <2>3, <2>6 DEF Rewritten
    <2>9. trail' \in [Subjects -> Preferences]
      BY <1>0, <2>1, <2>3, <2>7
    <2>10. broken' \in BOOLEAN /\ crossedOver' \in BOOLEAN
      BY <2>1
    <2>11. refusals' \in SUBSET (Fields \X Subjects) /\ chosen' \in SUBSET Fields
      BY <1>0, <2>1, <2>4
    <2>12. /\ req' \in [Handlers -> {Idle} \cup Requests] /\ stale' \in [Handlers -> BOOLEAN]
           /\ \A g \in Handlers : req'[g] = Idle \/ req'[g] = req[g]
      BY <1>0, <2>1 DEF EndAndOvertake
    <2>13. \A g \in Handlers : req'[g] # Idle => RefusedFields(req'[g].body) = {}
      BY <1>0, <2>12
    <2> USE DEF Requests
    <2>14. LocalesTypeOK'
      BY <2>8, <2>9, <2>10, <2>11, <2>12 DEF LocalesTypeOK
    <2> QED BY <2>13, <2>14 DEF LocaleTInv
  <1>4. ASSUME NEW h \in Handlers, Lost(h),
               UNCHANGED <<stored, trail, broken, refusals, chosen, crossedOver>>
        PROVE  LocaleTInv'
    <2> HIDE DEF Requests
    <2>1. /\ req' \in [Handlers -> {Idle} \cup Requests] /\ stale' \in [Handlers -> BOOLEAN]
          /\ \A g \in Handlers : req'[g] = Idle \/ req'[g] = req[g]
      BY <1>0, <1>4 DEF Lost, End
    <2>2. \A g \in Handlers : req'[g] # Idle => RefusedFields(req'[g].body) = {}
      BY <1>0, <2>1
    <2> USE DEF Requests
    <2>3. LocalesTypeOK'
      BY <1>0, <1>4, <2>1 DEF LocalesTypeOK
    <2> QED BY <2>2, <2>3 DEF LocaleTInv
  <1>5. CASE UNCHANGED localeVars
    BY <1>5 DEF localeVars, requestVars, LocaleTInv, LocalesTypeOK
  <1>6. "user" \in Subjects /\ "organization" \in Subjects
    BY DEF Subjects
  <1>7. ASSUME NEW h \in Handlers, PatchMyLocale(h) PROVE LocaleTInv'
    BY <1>1, <1>2, <1>3, <1>6, <1>7 DEF PatchMyLocale
  <1>8. ASSUME NEW h \in Handlers, PatchOrganizationLocale(h) PROVE LocaleTInv'
    BY <1>1, <1>2, <1>3, <1>6, <1>8 DEF PatchOrganizationLocale
  <1> QED BY <1>4, <1>5, <1>7, <1>8 DEF LocalesNext

\* What a request about sources has read names sources there are, and none is removed.
ReadsRegistered(h) ==
    /\ Busy(h, "patch") => req[h].row \in Registered
    /\ Busy(h, "put") => req[h].ids \subseteq Registered
    /\ Busy(h, "provision") =>
          /\ DOMAIN req[h].found = EvidenceEngines
          /\ \A e \in EvidenceEngines : req[h].found[e] \in Registered \cup {NoRow}
          /\ req[h].ids \subseteq Registered

RegistryTInv ==
    /\ RegistryTypeOK
    /\ req = [h \in Handlers |-> req[h]]
    /\ \A h \in Handlers : ReadsRegistered(h)

\* A row is registered when it has a record.
LEMMA RecordsAreRegistered == Absent \notin SourceRecord
  BY DEF Absent, SourceRecord, Engines, EvidenceEngines

\* What holds for the sources there were holds with more of them.
LEMMA MoreAreRegistered ==
  ASSUME RegistryTInv, registry' \in [SourceRows -> SourceRecord \cup {Absent}],
         Registered \subseteq Registered', pinned' \subseteq Registered',
         req' = [h \in Handlers |-> req'[h]], stale' \in [Handlers -> BOOLEAN],
         \A h \in Handlers : req'[h] = Idle \/ req'[h] = req[h] \/ ReadsRegistered(h)'
  PROVE  RegistryTInv'
  <1>1. RegistryTypeOK'
    BY DEF RegistryTypeOK
  <1>2. ASSUME NEW h \in Handlers PROVE ReadsRegistered(h)'
    <2>1. CASE req'[h] = Idle
      BY <2>1 DEF ReadsRegistered, Busy, Idle
    <2>2. CASE req'[h] = req[h]
      <3>1. ReadsRegistered(h)
        BY DEF RegistryTInv
      <3> QED BY <2>2, <3>1 DEF ReadsRegistered, Busy
    <2> QED BY <2>1, <2>2
  <1> QED BY <1>1, <1>2 DEF RegistryTInv

\* A write that leaves each row its record removes none.
LEMMA RowsStayRegistered ==
  ASSUME RegistryTypeOK, \A s \in Registered : registry'[s] \in SourceRecord
  PROVE  Registered \subseteq Registered'
  BY RecordsAreRegistered DEF Registered

\* Linking names nothing but what it is given.
LEMMA LinkingAddsNoMore ==
  ASSUME NEW t, NEW source, NEW ids, NEW bound, t.links \subseteq bound, ids \subseteq bound,
         source \in bound
  PROVE  Provisioned(t, source, ids).links \subseteq bound
  <1> DEFINE seen == IF t.wrote \/ registry[source] = Absent THEN t.links ELSE ids
  <1>1. seen \subseteq bound
    OBVIOUS
  <1>2. CASE source \in seen
    BY <1>2 DEF Provisioned
  <1>3. CASE source \notin seen
    <2>1. Provisioned(t, source, ids) = [wrote |-> TRUE, links |-> Linked(seen, source)]
      BY <1>3 DEF Provisioned
    <2> QED BY <1>1, <2>1 DEF Linked
  <1> QED BY <1>2, <1>3

\* A provisioning writes records, and links sources there are.
LEMMA ProvisionTypes ==
  ASSUME RegistryTInv, NEW h \in Handlers, ProvisionWrites(h)
  PROVE  RegistryTInv'
  <1>0. registry \in [SourceRows -> SourceRecord \cup {Absent}] /\ pinned \subseteq Registered
    BY DEF RegistryTInv, RegistryTypeOK
  <1> DEFINE found == req[h].found
             ids == req[h].ids
             missing == {e \in DOMAIN found : found[e] = NoRow}
  <1>1. Busy(h, "provision") /\ EndAndOvertake(h)
    BY DEF ProvisionWrites
  <1>2. PICK new \in Injection(missing, SourceRows \ Registered) :
          LET source(e) == IF e \in missing THEN new[e] ELSE found[e]
              start == [wrote |-> FALSE, links |-> pinned]
              first == Provisioned(start, source("playwright"), ids)
              end == Provisioned(first, source("selenium"), ids)
          IN  /\ registry' = [s \in SourceRows |->
                     IF s \in Range(new)
                     THEN [engine |-> CHOOSE e \in missing : new[e] = s,
                           enabled |-> TRUE, fit |-> TRUE]
                     ELSE registry[s]]
              /\ pinned' = end.links
    BY DEF ProvisionWrites
  <1>3. /\ DOMAIN found = EvidenceEngines /\ ids \subseteq Registered
        /\ \A e \in EvidenceEngines : found[e] \in Registered \cup {NoRow}
    BY <1>1 DEF RegistryTInv, ReadsRegistered
  <1>4. new \in [missing -> SourceRows \ Registered] /\ missing \subseteq Engines
    BY <1>2, <1>3 DEF Injection, Engines
  <1>5. Range(new) \subseteq SourceRows \ Registered /\ \A e \in missing : new[e] \in Range(new)
    BY <1>4 DEF Range
  <1>6. ASSUME NEW s \in Range(new) PROVE s \in SourceRows /\ registry'[s] \in SourceRecord
    <2>1. s \in SourceRows /\ \E e \in missing : new[e] = s
      BY <1>4, <1>5 DEF Range
    <2>2. (CHOOSE e \in missing : new[e] = s) \in Engines
      BY <1>4, <2>1
    <2>3. registry'[s] = [engine |-> CHOOSE e \in missing : new[e] = s,
                          enabled |-> TRUE, fit |-> TRUE]
      BY <1>2, <2>1
    <2> QED BY <2>1, <2>2, <2>3 DEF SourceRecord
  <1>7. ASSUME NEW s \in SourceRows \ Range(new) PROVE registry'[s] = registry[s]
    BY <1>2
  <1>8. registry' \in [SourceRows -> SourceRecord \cup {Absent}]
    <2>1. \A s \in SourceRows : registry'[s] \in SourceRecord \cup {Absent}
      BY <1>0, <1>6, <1>7
    <2>2. registry' = [s \in SourceRows |-> registry'[s]]
      BY <1>2
    <2> QED BY <2>1, <2>2
  <1>9. Registered \subseteq Registered' /\ Range(new) \subseteq Registered'
    <2>1. \A s \in Registered : s \in SourceRows \ Range(new)
      BY <1>5 DEF Registered
    <2>2. Registered \subseteq Registered'
      BY <1>7, <2>1 DEF Registered
    <2> QED BY <1>6, <2>2, RecordsAreRegistered DEF Registered
  <1>10. pinned' \subseteq Registered'
    <2> DEFINE source(e) == IF e \in missing THEN new[e] ELSE found[e]
               start == [wrote |-> FALSE, links |-> pinned]
               first == Provisioned(start, source("playwright"), ids)
    <2>1. \A e \in EvidenceEngines : source(e) \in Registered'
      <3> SUFFICES ASSUME NEW e \in EvidenceEngines PROVE source(e) \in Registered'
        OBVIOUS
      <3>1. CASE e \in missing
        BY <1>5, <1>9, <3>1
      <3>2. CASE e \notin missing
        BY <1>3, <1>9, <3>2
      <3> QED BY <3>1, <3>2
    <2>2. source("playwright") \in Registered' /\ source("selenium") \in Registered'
      BY <2>1 DEF EvidenceEngines
    <2>3. start.links \subseteq Registered' /\ ids \subseteq Registered'
      BY <1>0, <1>3, <1>9
    <2> HIDE DEF start
    <2>4. first.links \subseteq Registered'
      BY <2>2, <2>3, LinkingAddsNoMore
    <2>5. pinned' = Provisioned(first, source("selenium"), ids).links
      BY <1>2 DEF start
    <2> HIDE DEF first, source
    <2>6. Provisioned(first, source("selenium"), ids).links \subseteq Registered'
      BY <2>2, <2>3, <2>4, LinkingAddsNoMore
    <2> QED BY <2>5, <2>6
  <1>11. /\ req' = [g \in Handlers |-> req'[g]] /\ stale' \in [Handlers -> BOOLEAN]
         /\ \A g \in Handlers : req'[g] = Idle \/ req'[g] = req[g]
    BY <1>1 DEF EndAndOvertake, RegistryTInv
  <1> QED BY <1>8, <1>9, <1>10, <1>11, MoreAreRegistered

\* A request that begins has read sources there are.
LEMMA RequestTypes ==
  ASSUME RegistryTInv, NEW h \in Handlers, NEW r, Begin(h, r), UNCHANGED <<registry, pinned>>,
         ReadsRegistered(h)'
  PROVE  RegistryTInv'
  <1>1. /\ req' = [g \in Handlers |-> req'[g]] /\ stale' \in [Handlers -> BOOLEAN]
        /\ \A g \in Handlers \ {h} : req'[g] = req[g]
    BY DEF RegistryTInv, RegistryTypeOK, Begin
  <1>2. Registered' = Registered
    BY DEF Registered
  <1> QED BY <1>1, <1>2, MoreAreRegistered DEF RegistryTInv, RegistryTypeOK

\* At the start there are no sources.
LEMMA RegistryTypesInitially == RegistryInit => RegistryTInv
  <1> SUFFICES ASSUME RegistryInit PROVE RegistryTInv
    OBVIOUS
  <1>1. \A h \in Handlers : ReadsRegistered(h)
    BY DEF RegistryInit, NoRequests, ReadsRegistered, Busy, Idle
  <1>2. RegistryTypeOK
    BY DEF RegistryInit, NoRequests, RegistryTypeOK
  <1>3. req = [h \in Handlers |-> req[h]]
    BY DEF RegistryInit, NoRequests
  <1> QED BY <1>1, <1>2, <1>3 DEF RegistryTInv

\* Every step of the registry keeps the types.
LEMMA RegistryTypeSteps == RegistryTInv /\ [RegistryNext]_registryVars => RegistryTInv'
  <1> SUFFICES ASSUME RegistryTInv, [RegistryNext]_registryVars PROVE RegistryTInv'
    OBVIOUS
  <1>0. /\ registry \in [SourceRows -> SourceRecord \cup {Absent}] /\ pinned \subseteq Registered
        /\ stale \in [Handlers -> BOOLEAN] /\ req = [h \in Handlers |-> req[h]]
        /\ \A s \in Registered : s \in SourceRows /\ registry[s] \in SourceRecord
    BY DEF RegistryTInv, RegistryTypeOK, Registered
  \* A row is written and the requests go on.
  <1>a. ASSUME NEW s \in SourceRows, NEW row \in SourceRecord,
               registry' = [registry EXCEPT ![s] = row], UNCHANGED pinned,
               req' = [h \in Handlers |-> req'[h]], stale' \in [Handlers -> BOOLEAN],
               \A h \in Handlers : req'[h] = Idle \/ req'[h] = req[h]
        PROVE  RegistryTInv'
    <2>1. registry' \in [SourceRows -> SourceRecord \cup {Absent}]
      BY <1>0, <1>a
    <2>2. \A x \in Registered : registry'[x] \in SourceRecord
      BY <1>0, <1>a
    <2>3. Registered \subseteq Registered'
      BY <2>2, RowsStayRegistered DEF RegistryTInv
    <2> QED BY <1>0, <1>a, <2>1, <2>3, MoreAreRegistered
  <1>b. ASSUME Unseen PROVE /\ req' = [h \in Handlers |-> req'[h]] /\ stale' \in [Handlers -> BOOLEAN]
                            /\ \A h \in Handlers : req'[h] = req[h]
    BY <1>0, <1>b DEF Unseen
  <1>1. ASSUME NEW s \in SourceRows, NEW e \in Engines, NEW fit \in BOOLEAN, CreateConnector(s, e, fit)
        PROVE  RegistryTInv'
    <2>1. [engine |-> e, enabled |-> TRUE, fit |-> fit] \in SourceRecord
      BY DEF SourceRecord
    <2> QED BY <1>1, <1>a, <1>b, <2>1 DEF CreateConnector
  <1>2. ASSUME NEW h \in Handlers, NEW s, PatchLoad(h, s) PROVE RegistryTInv'
    <2> DEFINE r == [op |-> "patch", row |-> s, loaded |-> registry[s]]
    <2>1. Begin(h, r) /\ UNCHANGED <<registry, pinned>> /\ r.op = "patch" /\ r.row = s /\ s \in Registered
      BY <1>2 DEF PatchLoad
    <2> HIDE DEF r
    <2>2. req'[h] = r
      BY <1>0, <2>1 DEF Begin
    <2>3. ReadsRegistered(h)'
      BY <2>1, <2>2 DEF ReadsRegistered, Busy, Registered
    <2> QED BY <2>1, <2>3, RequestTypes
  <1>3. ASSUME NEW h \in Handlers, ApplyPatch(h) PROVE RegistryTInv'
    <2> DEFINE s == req[h].row
               loaded == req[h].loaded
               now == registry[s]
    <2>1. Busy(h, "patch") /\ EndAndOvertake(h) /\ UNCHANGED pinned
      BY <1>3 DEF ApplyPatch
    <2>2. PICK on \in BOOLEAN, fit \in BOOLEAN :
             registry' = [registry EXCEPT ![s] = [now EXCEPT
                 !.enabled = IF on # loaded.enabled THEN on ELSE now.enabled,
                 !.fit = IF fit # loaded.fit THEN fit ELSE now.fit]]
      BY <1>3 DEF ApplyPatch
    <2>3. s \in SourceRows /\ now \in SourceRecord
      BY <1>0, <2>1 DEF RegistryTInv, ReadsRegistered
    <2> DEFINE switch == IF on # loaded.enabled THEN on ELSE now.enabled
               usable == IF fit # loaded.fit THEN fit ELSE now.fit
    <2>4. switch \in BOOLEAN /\ usable \in BOOLEAN
      BY <2>3 DEF SourceRecord
    <2>5. registry' = [registry EXCEPT ![s] = [now EXCEPT !.enabled = switch, !.fit = usable]]
      BY <2>2
    <2> HIDE DEF switch, usable, now, s
    <2>6. [now EXCEPT !.enabled = switch, !.fit = usable] \in SourceRecord
      BY <2>3, <2>4 DEF SourceRecord
    <2>7. /\ req' = [g \in Handlers |-> req'[g]] /\ stale' \in [Handlers -> BOOLEAN]
          /\ \A g \in Handlers : req'[g] = Idle \/ req'[g] = req[g]
      BY <1>0, <2>1 DEF EndAndOvertake
    <2> QED BY <1>a, <2>1, <2>3, <2>5, <2>6, <2>7
  <1>4. ASSUME NEW s \in SourceRows, SourceChanges(s) PROVE RegistryTInv'
    <2>1. registry[s] \in SourceRecord
      BY <1>0, <1>4 DEF SourceChanges
    <2>2. /\ [registry[s] EXCEPT !.fit = ~@] \in SourceRecord
          /\ [registry[s] EXCEPT !.enabled = ~@] \in SourceRecord
      BY <2>1 DEF SourceRecord
    <2>3. \/ registry' = [registry EXCEPT ![s] = [registry[s] EXCEPT !.fit = ~@]]
          \/ registry' = [registry EXCEPT ![s] = [registry[s] EXCEPT !.enabled = ~@]]
      BY <1>4 DEF SourceChanges
    <2> QED BY <1>4, <1>a, <1>b, <2>2, <2>3 DEF SourceChanges
  <1>5. ASSUME NEW h \in Handlers, NEW ids, PutChecks(h, ids) PROVE RegistryTInv'
    <2> DEFINE r == [op |-> "put", ids |-> ids]
    <2>1. Begin(h, r) /\ UNCHANGED <<registry, pinned>> /\ r.op = "put" /\ r.ids = ids
      BY <1>5 DEF PutChecks
    <2>2. ids \subseteq Registered
      BY <1>5 DEF PutChecks
    <2> HIDE DEF r
    <2>3. req'[h] = r
      BY <1>0, <2>1 DEF Begin
    <2>4. ReadsRegistered(h)'
      BY <2>1, <2>2, <2>3 DEF ReadsRegistered, Busy, Registered
    <2> QED BY <2>1, <2>4, RequestTypes
  <1>6. ASSUME NEW h \in Handlers, PutWrites(h) PROVE RegistryTInv'
    <2>1. req[h].ids \subseteq Registered /\ pinned' = req[h].ids /\ UNCHANGED registry
      BY <1>6 DEF PutWrites, RegistryTInv, ReadsRegistered
    <2>2. /\ req' = [g \in Handlers |-> req'[g]] /\ stale' \in [Handlers -> BOOLEAN]
          /\ \A g \in Handlers : req'[g] = Idle \/ req'[g] = req[g]
      BY <1>0, <1>6 DEF PutWrites, EndAndOvertake
    <2>3. Registered' = Registered
      BY <2>1 DEF Registered
    <2> QED BY <1>0, <2>1, <2>2, <2>3, MoreAreRegistered
  <1>7. ASSUME NEW h \in Handlers, ProvisionLooks(h) PROVE RegistryTInv'
    <2>1. PICK found \in [EvidenceEngines -> SourceRows \cup {NoRow}] :
             /\ \A e \in DOMAIN found :
                    IF Known(e) = {} THEN found[e] = NoRow ELSE found[e] \in Known(e)
             /\ Begin(h, [op |-> "provision", found |-> found, ids |-> pinned])
             /\ UNCHANGED <<registry, pinned>>
      BY <1>7 DEF ProvisionLooks
    <2> DEFINE r == [op |-> "provision", found |-> found, ids |-> pinned]
    <2>2. Begin(h, r) /\ r.op = "provision" /\ r.found = found /\ r.ids = pinned
      BY <2>1
    <2> HIDE DEF r
    <2>3. req'[h] = r
      BY <1>0, <2>2 DEF Begin
    <2>4. \A e \in EvidenceEngines : found[e] \in Registered \cup {NoRow}
      BY <2>1 DEF Known, OfEngine
    <2>5. DOMAIN found = EvidenceEngines
      OBVIOUS
    <2>6. Registered' = Registered
      BY <2>1 DEF Registered
    <2>7. ReadsRegistered(h)'
      BY <1>0, <2>2, <2>3, <2>4, <2>5, <2>6 DEF ReadsRegistered, Busy
    <2> QED BY <2>1, <2>2, <2>7, RequestTypes
  <1>8. ASSUME NEW h \in Handlers, Lost(h), UNCHANGED <<registry, pinned>> PROVE RegistryTInv'
    <2>1. /\ req' = [g \in Handlers |-> req'[g]] /\ stale' \in [Handlers -> BOOLEAN]
          /\ \A g \in Handlers : req'[g] = Idle \/ req'[g] = req[g]
      BY <1>0, <1>8 DEF Lost, End
    <2>2. Registered' = Registered
      BY <1>8 DEF Registered
    <2> QED BY <1>0, <1>8, <2>1, <2>2, MoreAreRegistered
  <1>9. CASE UNCHANGED registryVars
    <2>1. UNCHANGED <<registry, pinned, req, stale>>
      BY <1>9 DEF registryVars, requestVars
    <2>2. Registered' = Registered
      BY <2>1 DEF Registered
    <2>3. /\ req' = [g \in Handlers |-> req'[g]] /\ stale' \in [Handlers -> BOOLEAN]
          /\ registry' \in [SourceRows -> SourceRecord \cup {Absent}]
          /\ \A g \in Handlers : req'[g] = req[g]
      BY <1>0, <2>1
    <2> QED BY <1>0, <2>1, <2>2, <2>3, MoreAreRegistered
  <1> QED
    BY <1>1, <1>2, <1>3, <1>4, <1>5, <1>6, <1>7, <1>8, <1>9, ProvisionTypes
       DEF RegistryNext, ConnectorRequest, PutCampaignSources, EnsureBrowserSources

\* What the component that runs relies on.
CampaignIInv ==
    /\ part \in Parts
    /\ part = "tick" => TInv
    /\ part = "members" => MemberIInv
    /\ part = "login" => LimiterIInv
    /\ part = "calendar" => FeedIInv /\ FeedColumns /\ Shown
    /\ part = "expansion" => ExpansionIInv
    /\ part = "engagement" => EngagementIInv
    /\ part = "locales" => LocaleTInv
    /\ part = "registry" => RegistryTInv

\* Each starts as it would alone.
LEMMA CampaignInitially == CampaignInit => CampaignIInv
  BY Initially, MemberInit, LimiterInit, FeedInitially, FeedTypesInitially, ExpansionInitially,
     EngagementInitially, LocaleTypesInitially, RegistryTypesInitially
     DEF CampaignInit, CampaignIInv

\* The worker's tick keeps the invariant of automatic disabling.
LEMMA TickSteps == TInv /\ [TickNext]_vars => TInv'
  <1> SUFFICES ASSUME TInv, [TickNext]_vars PROVE TInv'
    OBVIOUS
  <1>1. CASE AdminStep \/ Environment
    BY <1>1, OutsideKeeps
  <1>2. ASSUME NEW h \in Callers, HandlerStep(h) \/ FinalizeStep(h) PROVE TInv'
    BY <1>2, HandlerKeeps
  <1>3. CASE UNCHANGED vars
    BY <1>3, StutterKeeps
  <1> QED BY <1>1, <1>2, <1>3 DEF TickNext, Next

\* Only the component that runs moves, and it keeps what it relies on.
LEMMA CampaignSteps == CampaignIInv /\ [CampaignNext]_campaignVars => CampaignIInv'
  <1> SUFFICES ASSUME CampaignIInv, [CampaignNext]_campaignVars PROVE CampaignIInv'
    OBVIOUS
  <1>0. /\ part \in Parts
        /\ part = "tick" => TInv
        /\ part = "members" => MemberIInv
        /\ part = "login" => LimiterIInv
        /\ part = "calendar" => FeedIInv /\ FeedColumns /\ Shown
        /\ part = "expansion" => ExpansionIInv
        /\ part = "engagement" => EngagementIInv
        /\ part = "locales" => LocaleTInv
        /\ part = "registry" => RegistryTInv
    BY DEF CampaignIInv
  <1>1. /\ part' = part
        /\ part = "tick" => [TickNext]_vars
        /\ part = "members" => [MembershipNext]_membershipVars
        /\ part = "login" => [LoginNext]_loginVars
        /\ part = "calendar" => [FeedNext]_feedVars
        /\ part = "expansion" => [ExpansionNext]_expansionVars
        /\ part = "engagement" => [EngagementNext]_engagementVars
        /\ part = "locales" => [LocalesNext]_localeVars
        /\ part = "registry" => [RegistryNext]_registryVars
    BY DEF CampaignNext, campaignVars, Alone
  <1>2. part = "tick" => TInv'
    BY <1>0, <1>1, TickSteps
  <1>3. part = "members" => MemberIInv'
    BY <1>0, <1>1, MemberNext
  <1>4. part = "login" => LimiterIInv'
    BY <1>0, <1>1, LimiterNext
  <1>5. part = "calendar" => FeedIInv' /\ FeedColumns' /\ Shown'
    BY <1>0, <1>1, FeedSteps, FeedTypeSteps DEF FeedIInv
  <1>6. part = "expansion" => ExpansionIInv'
    BY <1>0, <1>1, ExpansionSteps
  <1>7. part = "engagement" => EngagementIInv'
    BY <1>0, <1>1, EngagementSteps
  <1>8. part = "locales" => LocaleTInv'
    BY <1>0, <1>1, LocaleTypeSteps
  <1>9. part = "registry" => RegistryTInv'
    BY <1>0, <1>1, RegistryTypeSteps
  <1> QED BY <1>0, <1>1, <1>2, <1>3, <1>4, <1>5, <1>6, <1>7, <1>8, <1>9 DEF CampaignIInv

\* Whichever component runs, its variables have their values: a calendar confirms the
\* events that have begun and cancels none, no preference is stored that cannot be shown or
\* computed with, and a campaign is pinned to sources there are (CalendarExportService,
\* I18nService, campaign_sources, and the parts' types).
THEOREM CampaignTypesHold == CampaignSpec => []CampaignTypeOK
  <1>1. CampaignSpec => []CampaignIInv
    BY CampaignInitially, CampaignSteps, PTL DEF CampaignSpec
  <1>2. CampaignIInv => CampaignTypeOK
    <2> SUFFICES ASSUME CampaignIInv PROVE CampaignTypeOK
      OBVIOUS
    <2>1. /\ part \in Parts
          /\ part = "tick" => TypeOK
          /\ part = "members" => MembershipTypeOK
          /\ part = "login" => LoginTypeOK
          /\ part = "locales" => LocalesTypeOK
          /\ part = "registry" => RegistryTypeOK
      BY DEF CampaignIInv, TInv, MemberIInv, LimiterIInv, LocaleTInv, RegistryTInv
    <2>2. /\ part = "calendar" => FeedTypeOK
          /\ part = "expansion" => ExpansionTypeOK
          /\ part = "engagement" => EngagementTypeOK
      BY FeedTypes, ExpansionTypes, EngagementTypes DEF CampaignIInv, FeedIInv
    <2> QED BY <2>1, <2>2 DEF CampaignTypeOK, Parts
  <1> QED BY <1>1, <1>2, PTL

=============================================================================
