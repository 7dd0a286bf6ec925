------------------------------ MODULE MCStores ------------------------------
(***************************************************************************)
(* The services on top of the command service, one of them at a time:      *)
(* subject says which, so the states are the sum of theirs.                *)
(***************************************************************************)
EXTENDS Directory, MasterItems, TenantSettings, NumberSequences, TLC

VARIABLE subject

Subjects == {"directory", "data", "ui", "survey", "generated", "tenant", "lookup",
             "sequence"}

(* The first two are the nodes of the directory.                           *)
MCItems == 1 .. 12
MCMaxVersion == <<3, 2, 3, 2, 2, 1, 1, 1, 1, 3, 1, 1>>
MCGroupKeys == <<6, 7>>

Shared == [c \in Clients |-> IF c = "c1" THEN "TAKE_OWNERSHIP" ELSE "WRITE"]
MCPermissions == {NoPermission, Shared}

(* A fiscal year of April whose format shows it, months in a format that   *)
(* shows them, and a fiscal year of October.                               *)
MCCodes == {"order", "invoice", "other"}
MCRotateBy == [order |-> "fiscal_yearly", invoice |-> "monthly", other |-> "fiscal_yearly"]
MCFormat == [order |-> {"fiscal_year"}, invoice |-> {"year", "month"}, other |-> {"fiscal_year"}]
MCStartMonth == [order |-> 4, invoice |-> 4, other |-> 10]
MCReferenceYear == [order |-> 1953, invoice |-> 1953, other |-> 2020]

(* The first days of 2021 and of its April, the day before that, and a day *)
(* of the next fiscal year, with two days to a month.                      *)
MCDays == {24 * 2021, 24 * 2021 + 5, 24 * 2021 + 6, 24 * 2022 + 6}

names == Permutations(Names)

storesVars == <<subject, log, synced, call, lookup, today, counter, asking, issued>>

MCInit ==
  /\ subject \in Subjects
  /\ DirectoryInit /\ TenantInit /\ SequenceInit
  /\ subject # "sequence" => today = 24 * 2021

Step(next) == next /\ UNCHANGED <<subject, today, counter, asking, issued>>

(* The second client of a service does only some of what the first does.   *)
Second(ops) == call'["c2"] = call["c2"] \/ call'["c2"].op \in ops \cup {"idle"}

Service ==
  \/ subject = "directory" /\ DirectoryNext /\ Second({"rename"})
  \/ subject = "data" /\ MasterDataNext({3, 4}) /\ Second({"create", "delete"})
  \/ subject = "ui" /\ UiSettingNext(3, 4)
  \/ subject = "survey" /\ SurveyNext(3, 4)
  \/ subject = "generated" /\ GeneratedNext(3)

MCNext ==
  \/ Step(Service) /\ UNCHANGED lookup
  \/ subject = "tenant" /\ Step(TenantNext)
  \/ /\ subject = "lookup" /\ Step(LookupNext({"c1"}))
     /\ call'["c1"] # Idle => call'["c1"].item \notin {CommonTenant, TenantGroup}
  \/ subject = "sequence" /\ SequenceNext /\ UNCHANGED <<subject, log, synced, call, lookup>>

MCSpec == MCInit /\ [][MCNext]_storesVars
=============================================================================
