------------------------------ MODULE GeoAccess ------------------------------
(***************************************************************************)
(* Access by country: GeolocationService and its guard.  The lists are two  *)
(* Redis sets that all instances share and that no restart of Redis's       *)
(* clients empties; every instance replaces the allowlist by its own        *)
(* configuration when it starts, one command after the other, while the     *)
(* others go on serving.  A start may be broken off between two commands.   *)
(* Only an instance that has finished its start serves requests.            *)
(***************************************************************************)
EXTENDS FiniteSets

CONSTANTS Instances, Countries, GeoReqs,
          Configs,      \* values of GEO_ALLOWED_COUNTRIES; {} is an absent one
          GeoFaults     \* BOOLEAN: Redis commands may fail

ASSUME GeoAssumption == Configs \subseteq SUBSET Countries /\ GeoFaults \in BOOLEAN

VARIABLES
  allowedCountries, blockedCountries,
  instPc, instTodo, instConfig,      \* instances: "down", "clear", "load" or "up"
  geoPc, geoCountry,                 \* requests in the guard
  clean,        \* history: starts that nobody has interfered with since their DEL
  settled,      \* history: the configuration that a clean start has loaded, and
                \* that nobody has changed since, or Disturbed
  mustRefuse    \* history: requests whose country has been blocked all along

geoLists == <<allowedCountries, blockedCountries>>
instVars == <<instPc, instTodo, instConfig>>
geoVars == <<geoLists, instVars, geoPc, geoCountry, clean, settled, mustRefuse>>

NoCountry == "none"
Disturbed == {NoCountry}

GeoInit ==
  /\ allowedCountries = {} /\ blockedCountries = {}
  /\ instPc = [g \in Instances |-> "down"]
  /\ instTodo = [g \in Instances |-> {}]
  /\ instConfig = [g \in Instances |-> {}]
  /\ geoPc = [r \in GeoReqs |-> "idle"]
  /\ geoCountry = [r \in GeoReqs |-> NoCountry]
  /\ clean = {} /\ settled = Disturbed /\ mustRefuse = {}
-----------------------------------------------------------------------------
(* onModuleInit *)

GeoBoot(g) ==
  /\ instPc[g] = "down"
  /\ \E c \in Configs : instConfig' = [instConfig EXCEPT ![g] = c]
  /\ instPc' = [instPc EXCEPT ![g] = "clear"]
  /\ UNCHANGED <<geoLists, instTodo, geoPc, geoCountry, clean, settled, mustRefuse>>

\* Mutant: countries are only ever added.
NotCleared == allowedCountries
Cleared == {}
\* DEL; a failure is swallowed by RedisService.del.
ClearAllowlist(g) ==
  /\ instPc[g] = "clear"
  /\ \/ allowedCountries' = Cleared /\ clean' = {g} /\ settled' = Disturbed
     \/ GeoFaults /\ UNCHANGED <<allowedCountries, clean, settled>>
  /\ instPc' = [instPc EXCEPT ![g] = "load"]
  /\ instTodo' = [instTodo EXCEPT ![g] = instConfig[g]]
  /\ UNCHANGED <<blockedCountries, instConfig, geoPc, geoCountry, mustRefuse>>

\* One SADD per country of the configuration.
LoadCountry(g) ==
  /\ instPc[g] = "load"
  /\ \E c \in instTodo[g] :
       /\ allowedCountries' = allowedCountries \cup {c}
       /\ instTodo' = [instTodo EXCEPT ![g] = @ \ {c}]
  /\ clean' = clean \cap {g} /\ settled' = Disturbed
  /\ UNCHANGED <<blockedCountries, instPc, instConfig, geoPc, geoCountry, mustRefuse>>

StartEnds(g) ==
  /\ instPc[g] = "load" /\ instTodo[g] = {}
  /\ instPc' = [instPc EXCEPT ![g] = "up"]
  /\ settled' = IF g \in clean THEN instConfig[g] ELSE settled
  /\ clean' = clean \ {g}
  /\ UNCHANGED <<geoLists, instTodo, instConfig, geoPc, geoCountry, mustRefuse>>

\* The process ends, or a SADD throws and the application does not start.
InstanceStops(g) ==
  /\ instPc[g] # "down"
  /\ instPc' = [instPc EXCEPT ![g] = "down"]
  /\ instTodo' = [instTodo EXCEPT ![g] = {}]
  /\ clean' = clean \ {g}
  /\ UNCHANGED <<geoLists, instConfig, geoPc, geoCountry, settled, mustRefuse>>
-----------------------------------------------------------------------------
(* Administration; the countries' case is folded by every operation *)

ListsChange(allowed, blocked) ==
  /\ allowedCountries' = allowed /\ blockedCountries' = blocked
  /\ <<allowed, blocked>> # <<allowedCountries, blockedCountries>>
  /\ clean' = {} /\ settled' = Disturbed
  /\ mustRefuse' = {r \in mustRefuse : geoCountry[r] \in blocked}
  /\ UNCHANGED <<instVars, geoPc, geoCountry>>
AddAllowedCountry(c) == ListsChange(allowedCountries \cup {c}, blockedCountries)
RemoveAllowedCountry(c) == ListsChange(allowedCountries \ {c}, blockedCountries)
BlockCountry(c) == ListsChange(allowedCountries, blockedCountries \cup {c})
UnblockCountry(c) == ListsChange(allowedCountries, blockedCountries \ {c})
-----------------------------------------------------------------------------
(* The guard: SISMEMBER of the blocklist, SCARD, SISMEMBER of the allowlist.   *)
(* A read that fails answers FALSE or 0.                                        *)

GeoRequest(r) ==
  /\ geoPc[r] = "idle" /\ \E g \in Instances : instPc[g] = "up"
  /\ \E c \in Countries :
       /\ geoCountry' = [geoCountry EXCEPT ![r] = c]
       /\ mustRefuse' = IF c \in blockedCountries THEN mustRefuse \cup {r} ELSE mustRefuse
  /\ geoPc' = [geoPc EXCEPT ![r] = "blocked?"]
  /\ UNCHANGED <<geoLists, instVars, clean, settled>>

\* Mutant: the blocklist only warns.
AfterListIgnored(listed) == "count"
AfterBlockedList(listed) == IF listed THEN "refused" ELSE "count"
AfterSize(some) == IF some THEN "allowed?" ELSE "passed"
AfterAllowedList(listed) == IF listed THEN "passed" ELSE "refused"

GuardReads(r) ==
  /\ geoPc' = [geoPc EXCEPT ![r] =
       CASE geoPc[r] = "blocked?" -> AfterBlockedList(geoCountry[r] \in blockedCountries)
         [] geoPc[r] = "count"    -> AfterSize(allowedCountries # {})
         [] geoPc[r] = "allowed?" -> AfterAllowedList(geoCountry[r] \in allowedCountries)]
  /\ UNCHANGED mustRefuse
GuardReadFails(r) ==
  /\ GeoFaults
  /\ geoPc' = [geoPc EXCEPT ![r] =
       CASE geoPc[r] = "blocked?" -> AfterBlockedList(FALSE)
         [] geoPc[r] = "count"    -> AfterSize(FALSE)
         [] geoPc[r] = "allowed?" -> AfterAllowedList(FALSE)]
  /\ mustRefuse' = mustRefuse \ {r}
GeoStep(r) ==
  /\ geoPc[r] \in {"blocked?", "count", "allowed?"}
  /\ GuardReads(r) \/ GuardReadFails(r)
  /\ UNCHANGED <<geoLists, instVars, geoCountry, clean, settled>>

GeoAnswered(r) ==
  /\ geoPc[r] \in {"passed", "refused"}
  /\ geoPc' = [geoPc EXCEPT ![r] = "idle"]
  /\ geoCountry' = [geoCountry EXCEPT ![r] = NoCountry]
  /\ mustRefuse' = mustRefuse \ {r}
  /\ UNCHANGED <<geoLists, instVars, clean, settled>>
-----------------------------------------------------------------------------
GeoNext ==
  \/ \E g \in Instances :
       GeoBoot(g) \/ ClearAllowlist(g) \/ LoadCountry(g) \/ StartEnds(g) \/ InstanceStops(g)
  \/ \E c \in Countries :
       \/ AddAllowedCountry(c) \/ RemoveAllowedCountry(c)
       \/ BlockCountry(c) \/ UnblockCountry(c)
  \/ \E r \in GeoReqs : GeoRequest(r) \/ GeoStep(r) \/ GeoAnswered(r)

GeoSpec == GeoInit /\ [][GeoNext]_geoVars
-----------------------------------------------------------------------------
(* Properties *)

GeoTypeOK ==
  /\ allowedCountries \subseteq Countries /\ blockedCountries \subseteq Countries
  /\ instPc \in [Instances -> {"down", "clear", "load", "up"}]
  /\ geoPc \in [GeoReqs -> {"idle", "blocked?", "count", "allowed?", "passed", "refused"}]

\* geolocation.service.ts:31, "Clear existing allowlist to sync with .env": when an
\* instance has started, and no other start, administrator or lost DEL got in its
\* way, the allowlist is its configuration, whatever broken-off starts and earlier
\* configurations have left behind.
AllowlistIsConfigured == settled # Disturbed => allowedCountries = settled

\* geolocation.service.ts:81, "immediate rejection": a country that is blocked all
\* the time of a request is refused, however the allowlist is being rewritten; only
\* a read that fails lets it pass.
BlockedAreRefused == \A r \in mustRefuse : geoPc[r] # "passed"

\* The lists are those that were configured, and the guard goes by them.
ListsAreEnforced == AllowlistIsConfigured /\ BlockedAreRefused

\* geolocation.service.ts:83, "If allowlist is active, country must be in it".  As
\* every start empties the list first, a country that no configuration has ever
\* allowed passes while an instance starts: the code does not keep it.
OnlyConfiguredPass ==
  \A r \in GeoReqs : geoPc[r] = "passed" =>
    \/ geoCountry[r] \in UNION Configs \cup allowedCountries
    \/ {} \in Configs
=============================================================================
