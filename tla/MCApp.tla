------------------------------- MODULE MCApp -------------------------------
(* The desktop program's shared state, for TLC: lists, catalogue and service    *)
(* under their one lock, and the processes that start.  A behaviour belongs to   *)
(* one of four scopes, chosen at its start, in which the other parts rest, so    *)
(* that their states add up and do not multiply; "catalog" contains the steps    *)
(* of the list it shares.  What a user, a launch or (in "service" and "startup")  *)
(* a crash can set off is bounded by Budget; what follows from it is not, nor    *)
(* are the crashes of "lists" and "catalog".                                      *)
EXTENDS UpdateCatalog, ServiceSwitch, Startup

Budget == [lists |-> 0, catalog |-> 2, service |-> 3, startup |-> 3]

VARIABLES scope, left

mcVars == <<lockVars, listVars, catVars, svcVars, startVars, scope, left>>

Scopes == DOMAIN Budget

\* In the scope of the catalogue: what the list's own scope does not show.
CatalogStart ==
  /\ service = NoFile /\ ~subnets /\ mode \in {"loaded", "none"} /\ live # Own

MCInit ==
  /\ scope \in Scopes
  /\ ListsInit /\ CatalogInit /\ ServiceInit /\ StartupInit
  /\ scope # "lists"   => CatalogStart
  /\ scope \notin {"lists", "catalog"} => live = Stub
  /\ scope # "service" => sys = Absent
  /\ scope # "startup" => file = Missing /\ lock = Nobody
  /\ left = Budget[scope]

\* Everything, the presets alone, a file alone.
SomeWishes == {{}, {"presets"}, {"bat"}}

In(s) == scope = s /\ UNCHANGED scope
Spends == left > 0 /\ left' = left - 1
Follows  == UNCHANGED left

ListsPart ==
  /\ In("lists") /\ UNCHANGED <<catVars, svcVars, startVars>>
  /\ ListsNext /\ Follows

CatalogPart ==
  /\ In("catalog") /\ UNCHANGED <<svcVars, startVars>>
  /\ \/ /\ Spends
        /\ \/ \E who \in Askers : CheckLooks(who)
           \/ \E ids \in SomeWishes : ApplyLooks(ids)
           \/ EditsList
           \/ \E m \in {"loaded", "none"} : SetsMode(m)
     \/ /\ Follows
        /\ \/ \E who \in Askers : \/ CheckTakes(who) \/ CheckCompares(who)
                                  \/ CheckStores(who) \/ CheckFails(who)
           \/ CheckRefused \/ CheckShows
           \/ ApplyTakes \/ ApplyBegins \/ ApplyFetches \/ ApplyWrites \/ ApplySyncs \/ ApplyStores
           \/ \E f \in Files : ApplySkips(f) \/ ApplyBacksUp(f)
           \/ Publishes \/ CatalogDies \/ CatalogStarts
           \/ (ApplyMode \/ HealAtStart) /\ UNCHANGED catVars

ServicePart ==
  /\ In("service") /\ UNCHANGED <<listVars, catVars, startVars>>
  /\ \/ Spends /\ (ServiceBegins \/ SystemChanges \/ ServiceDies)
     \/ Follows /\ (ServiceWorks \/ Watches \/ ServiceStarts \/ SyncsTask)

StartupPart ==
  /\ In("startup") /\ UNCHANGED <<lockVars, listVars, catVars, svcVars>>
  /\ \E p \in Process :
       \/ Spends /\ (Launch(p) \/ SaveBegins(p) \/ ChangesSetting(p) \/ Dies(p))
       \/ Follows /\ \/ Load(p) \/ CardSynced(p) \/ Relaunches(p) \/ LooksAtLock(p)
                     \/ ListsOthers(p) \/ ClaimsLock(p) \/ WritesLock(p) \/ Settles(p)
                     \/ (\E q \in Process : KillsOther(p, q))
                     \/ SaveWrites(p) \/ SaveRenames(p) \/ SaveFails(p) \/ Quits(p)

MCNext == ListsPart \/ CatalogPart \/ ServicePart \/ StartupPart

MCSpec == MCInit /\ [][MCNext]_mcVars /\ ServiceFairness

\* The parts are well-typed together: in particular the lock is held exactly as
\* long as the operation that took it runs (OpsGuard, BusyGuard).
AppTypeOK == ListsTypeOK /\ CatalogTypeOK /\ ServiceTypeOK /\ StartupTypeOK
=============================================================================
