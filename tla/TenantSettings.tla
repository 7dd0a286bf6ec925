--------------------------- MODULE TenantSettings ---------------------------
(***************************************************************************)
(* Tenants with the groups of their roles, and the settings that are       *)
(* looked up through them: a user's setting, that of a group of the user's *)
(* role, the tenant's, the common one.                                     *)
(***************************************************************************)
EXTENDS ItemStore, FiniteSetsExt, SequencesExt

CONSTANTS
  Roles,
  Groups,          (* the groups of the tenant, of Nat: their order is that *)
                   (* of sortGroups, the deepest first                      *)
  Contents,        (* what a setting may say                                *)
  UserKey, TenantKey, CommonKey,  (* the items of one setting at its levels *)
  GroupKeys,                      (* group -> its item                      *)
  TheTenant, CommonTenant,        (* the items of the tenant, the common    *)
  TenantGroup                     (* tenant and a group of tenants          *)

VARIABLE lookup    (* the reader that looks the setting up                  *)

tenantVars == <<log, synced, call, lookup>>

NoGroups == [mode |-> "none", groups |-> <<>>, settingGroups |-> <<>>]
Settings == {UserKey, TenantKey, CommonKey} \cup {GroupKeys[g] : g \in Groups}

Tenants == {TheTenant, CommonTenant}

(* A row of a setting is never one of a tenant.                            *)
ASSUME KeysAssumption ==
  /\ Groups \subseteq Nat /\ GroupKeys \in [Groups -> Items]
  /\ Settings \cup Tenants \cup {TenantGroup} \subseteq Items
  /\ Settings \cap (Tenants \cup {TenantGroup}) = {}
  /\ CommonTenant \notin {TheTenant, TenantGroup}

(***************************************************************************)
(* The tenant: whether it is deleted, its name, the groups of each role.    *)
(***************************************************************************)
(* The attributes of a new tenant are free: they may bring groups.         *)
FirstGroup(g) == [mode |-> "auto", groups |-> <<g>>, settingGroups |-> <<g>>]
FirstGroups == {NoGroups} \cup {FirstGroup(g) : g \in Groups}
TenantState(d, x, s) ==
  [deleted |-> d, name |-> x, setting |-> [r \in Roles |-> s]]

CreateTenant(c, x, s) == Create(c, "create", TheTenant, TenantState("no", x, s))

(* isDeleted is not written, so nothing ever says that the common tenant   *)
(* exists already.                                                         *)
CreateCommonTenant(c, x, s) == Create(c, "createCommon", CommonTenant, TenantState("unset", x, s))

(* A tenant group is an item of its own, next to the tenants.              *)
CreateTenantGroup(c, x, s) == Create(c, "create", TenantGroup, TenantState("no", x, s))

(* The attributes that an update adds are other than the groups.           *)
UpdateTenant(c, t, x) == HasRow(t) /\ Replace(c, "update", t, [Row(t) EXCEPT !.name = x])
DeleteTenant(c, t) == HasRow(t) /\ Replace(c, "delete", t, [Row(t) EXCEPT !.deleted = "yes"])

(* Seeded bug: a group that is added is not sorted in.                     *)
SortGroupsNot(groups) == groups

(* The k-th of them is the group that, with itself, k of them precede.     *)
SortGroups(groups) ==
  LET all == ToSet(groups)
      rank(g) == Cardinality({h \in all : h <= g})
  IN [k \in 1 .. Cardinality(all) |-> CHOOSE g \in all : rank(g) = k]

(* A role's groups with one more: sortGroups sorts in place, so in auto    *)
(* mode both lists are the sorted one.                                     *)
UpdateAttribute(s, g) ==
  IF s.mode = "none" THEN FirstGroup(g)
  ELSE IF g \in ToSet(s.groups) THEN s
  ELSE IF s.mode = "customized"
       THEN [s EXCEPT !.groups = Append(@, g), !.settingGroups = Append(@, g)]
  ELSE LET sorted == SortGroups(Append(s.groups, g))
       IN [s EXCEPT !.groups = sorted, !.settingGroups = sorted]

AddTenantGroup(c, t, r, g) ==
  /\ HasRow(t)
  /\ Replace(c, "addGroup", t, [Row(t) EXCEPT !.setting[r] = UpdateAttribute(@, g)])

(* Only a role that has groups can be customised.                          *)
CustomizeSettingGroups(c, t, r, groups) ==
  /\ HasRow(t)
  /\ Replace(c, "customize", t,
             [Row(t) EXCEPT !.setting[r] =
                IF @.mode = "none" THEN @
                ELSE [mode |-> "customized", groups |-> groups, settingGroups |-> groups]])

(***************************************************************************)
(* The setting at its levels.                                              *)
(***************************************************************************)
SettingState(d, x) == [deleted |-> d, value |-> x]

CreateUserSetting(c, x) == Create(c, "create", UserKey, SettingState("no", x))
CreateGroupSetting(c, g, x) == Create(c, "create", GroupKeys[g], SettingState("no", x))
CreateTenantSetting(c, x) == Create(c, "create", TenantKey, SettingState("no", x))
UpsertTenantSetting(c, x) ==
  Begin(c, Call("upsert", TenantKey, synced[TenantKey], SettingState("no", x)))
CreateCommonTenantSetting(c, x) == Create(c, "create", CommonKey, SettingState("no", x))

(* Neither asks whether the setting is deleted.                            *)
UpdateSetting(c, s, x) == HasRow(s) /\ Replace(c, "update", s, [Row(s) EXCEPT !.value = x])
DeleteSetting(c, s) == HasRow(s) /\ Replace(c, "delete", s, [Row(s) EXCEPT !.deleted = "yes"])

(***************************************************************************)
(* getSetting: a row of a level is found even if it is deleted.  Every     *)
(* read is eventually consistent, and any of them may fail.                *)
(***************************************************************************)
NoLookup == [at |-> "none"]

(* What a read of item i may return: any version, 0 if no row is found.    *)
AnyVersion(i) == 0 .. synced[i]

(* Seeded bug: a deleted setting is skipped.                               *)
FoundUndeleted(s, v) == v # 0 /\ log[s][v].row.deleted # "yes"

Found(s, v) == v # 0

SettingGroups(r, v) == IF v = 0 THEN <<>> ELSE log[TheTenant][v].row.setting[r].settingGroups

(* The levels that are nobody's and no group's.                            *)
TenantLevels == <<TenantKey, CommonKey>>

Levels(groups) ==
  <<UserKey>> \o [k \in DOMAIN groups |-> GroupKeys[groups[k]]] \o TenantLevels

(* The place, among the levels, of the first one that had a row then.      *)
FirstFound(levels, since) ==
  LET hits == {k \in DOMAIN levels : since[levels[k]] # 0}
  IN IF hits = {} THEN Len(levels) + 1 ELSE Min(hits)

(* The lookup knows what the tables said at its start: since, the versions *)
(* of the rows, levels, and first, the level in force; missed becomes true *)
(* when it passes a row of then or is told other groups.                   *)
StartLookup(r) ==
  LET levels == Levels(SettingGroups(r, synced[TheTenant])) IN
  /\ lookup.at = "none"
  /\ lookup' = [at |-> "user", role |-> r, todo |-> <<>>, answer |-> 0, since |-> synced,
                levels |-> levels, first |-> FirstFound(levels, synced), missed |-> FALSE]
  /\ UNCHANGED storeVars

(* A read that returns an older version than the row had at the start.     *)
Older(i, v) == v < lookup.since[i]

LookupUser ==
  /\ lookup.at = "user"
  /\ \E v \in AnyVersion(UserKey) :
       lookup' = IF Found(UserKey, v) THEN [lookup EXCEPT !.at = "done", !.answer = 1]
                 ELSE [lookup EXCEPT !.at = "groups", !.missed = @ \/ Older(UserKey, v)]
  /\ UNCHANGED storeVars

(* The tenant's row tells which groups to ask, and in which order.         *)
LookupGroups ==
  /\ lookup.at = "groups"
  /\ \E v \in AnyVersion(TheTenant) :
       LET levels == Levels(SettingGroups(lookup.role, v)) IN
       lookup' = [lookup EXCEPT !.at = "level", !.answer = 1, !.todo = Tail(levels),
                                !.missed = @ \/ levels # lookup.levels]
  /\ UNCHANGED storeVars

LookupLevel ==
  /\ lookup.at = "level" /\ lookup.todo # <<>>
  /\ \E v \in AnyVersion(Head(lookup.todo)) :
       lookup' = IF Found(Head(lookup.todo), v)
                 THEN [lookup EXCEPT !.at = "done", !.answer = @ + 1]
                 ELSE [lookup EXCEPT !.todo = Tail(@), !.answer = @ + 1,
                                     !.missed = @ \/ Older(Head(lookup.todo), v)]
  /\ UNCHANGED storeVars

(* No level has the setting: getSetting throws.                            *)
LookupNothing ==
  /\ lookup.at = "level" /\ lookup.todo = <<>>
  /\ lookup' = [lookup EXCEPT !.at = "done", !.answer = @ + 1]
  /\ UNCHANGED storeVars

AsksGroup ==
  lookup.at = "level" /\ lookup.todo # <<>> /\ Head(lookup.todo) \notin ToSet(TenantLevels)

(* An error of the tenant's read, or of a group's, is only logged: of the  *)
(* levels only those are left that are not a group's.                      *)
LookupSwallowsError ==
  /\ lookup.at = "groups" \/ AsksGroup
  /\ lookup' = [lookup EXCEPT !.at = "level", !.answer = 0, !.todo = TenantLevels,
                  !.levels = TenantLevels, !.first = FirstFound(TenantLevels, lookup.since),
                  !.missed = FALSE]
  /\ UNCHANGED storeVars

(* An error of another read ends the lookup.                               *)
LookupThrows ==
  /\ \/ lookup.at = "user"
     \/ lookup.at = "level" /\ lookup.todo # <<>> /\ ~AsksGroup
  /\ lookup' = NoLookup
  /\ UNCHANGED storeVars

EndLookup == lookup.at = "done" /\ lookup' = NoLookup /\ UNCHANGED storeVars

TenantStep(clients) ==
  \/ \E c \in clients, x \in Contents :
       \/ \E s \in FirstGroups : CreateTenant(c, x, s) \/ CreateCommonTenant(c, x, s)
       \/ CreateTenantGroup(c, x, NoGroups)
       \/ \E t \in Tenants \cup {TenantGroup} : UpdateTenant(c, t, x)
  \/ \E c \in clients :
       \/ \E t \in Tenants \cup {TenantGroup} : DeleteTenant(c, t)
       \/ \E t \in Tenants, r \in Roles, g \in Groups :
            AddTenantGroup(c, t, r, g) \/ CustomizeSettingGroups(c, t, r, <<g>>)
  \/ StoreNext

SettingStep(clients) ==
  \/ \E c \in clients, x \in Contents :
       \/ CreateUserSetting(c, x) \/ CreateTenantSetting(c, x) \/ UpsertTenantSetting(c, x)
       \/ CreateCommonTenantSetting(c, x)
       \/ \E g \in Groups : CreateGroupSetting(c, g, x)
       \/ \E s \in Settings : UpdateSetting(c, s, x)
  \/ \E c \in clients, s \in Settings : DeleteSetting(c, s)

Lookup ==
  \/ \E r \in Roles : StartLookup(r)
  \/ LookupUser \/ LookupGroups \/ LookupLevel \/ LookupNothing
  \/ LookupSwallowsError \/ LookupThrows \/ EndLookup

TenantInit == StoreInit /\ lookup = NoLookup
TenantNext == TenantStep(Clients) /\ UNCHANGED lookup

(* A reader among the requests of these clients.                           *)
LookupNext(clients) ==
  \/ (TenantStep(clients) \/ SettingStep(clients)) /\ UNCHANGED lookup
  \/ Lookup

TenantSpec == TenantInit /\ [][LookupNext(Clients)]_tenantVars

(***************************************************************************)
(* Properties.                                                             *)
(***************************************************************************)

(* Groups are added by concurrent requests, each from the tenant it read:  *)
(* none is lost, until the role is customised or the tenant created anew.  *)
GroupsSurvive ==
  \A t \in Tenants : \A v \in 2 .. Len(log[t]) :
    log[t][v].op \in {"addGroup", "update", "delete"} =>
      \A r \in Roles : ToSet(log[t][v - 1].row.setting[r].groups)
                         \subseteq ToSet(log[t][v].row.setting[r].groups)

(* As long as nobody customised a role its settings come from all of its   *)
(* groups, the deepest one first; afterwards the order is the customer's.  *)
AutoGroupsAgree ==
  \A t \in Tenants : \A v \in DOMAIN log[t], r \in Roles :
    LET s == log[t][v].row.setting[r] IN
    /\ ToSet(s.settingGroups) = ToSet(s.groups)
    /\ s.mode = "auto" => \A j, k \in DOMAIN s.settingGroups :
                            j < k => s.settingGroups[j] < s.settingGroups[k]

(* A lookup reads level after level while settings come and go, from rows  *)
(* that lag: its answer is never more general than the setting in force    *)
(* when it began, unless a read returned an older row than there was then  *)
(* or other groups.  An error takes the groups from the lookup, and never  *)
(* the tenant's own setting.                                               *)
LookupIsNotStale ==
  lookup.at = "done" /\ ~lookup.missed => lookup.answer <= lookup.first
=============================================================================
