--------------------------- MODULE CampaignLedger ---------------------------
(***************************************************************************)
(* What form campaigns promise, without the calls that carry it out: a     *)
(* campaign is edited while it is a draft; it is activated once, and in    *)
(* that step every recipient gets one open action item with the text the   *)
(* campaign has; from then on neither changes, and an item is settled      *)
(* once.  Items made by hand live by the same rule.                        *)
(***************************************************************************)
CONSTANTS Campaigns, Employees, ManualItems, Texts, NoText

VARIABLES
  form,     \* form[k]: status and text of campaign k
  task      \* task[i]: status and text of action item i

NoForm == [status |-> "none", text |-> NoText]
NoTask == [status |-> "none", text |-> NoText]

LedgerInit ==
  /\ form \in [Campaigns -> {NoForm} \cup [status : {"draft"}, text : Texts]]
  /\ task = [i \in (Campaigns \X Employees) \cup ManualItems |-> NoTask]

\* A new draft, or other words for a draft.
Write(k, t) ==
  /\ form[k].status \in {"none", "draft"}
  /\ form' = [form EXCEPT ![k] = [status |-> "draft", text |-> t]]
  /\ UNCHANGED task

\* Every recipient is handed the text of the campaign, all at once.
Activate(k, recipients) ==
  /\ form[k].status = "draft"
  /\ form' = [form EXCEPT ![k].status = "active"]
  /\ task' = [i \in DOMAIN task |->
                IF i \in {k} \X recipients THEN [status |-> "open", text |-> form[k].text]
                                           ELSE task[i]]

HandOut(i, t) ==
  /\ i \in ManualItems /\ task[i].status = "none"
  /\ task' = [task EXCEPT ![i] = [status |-> "open", text |-> t]]
  /\ UNCHANGED form

Settle(i, s) ==
  /\ task[i].status = "open"
  /\ task' = [task EXCEPT ![i].status = s]
  /\ UNCHANGED form

LedgerNext ==
  \/ \E k \in Campaigns, t \in Texts : Write(k, t)
  \/ \E k \in Campaigns, recipients \in SUBSET Employees : Activate(k, recipients)
  \/ \E i \in ManualItems, t \in Texts : HandOut(i, t)
  \/ \E i \in DOMAIN task, s \in {"completed", "cancelled"} : Settle(i, s)

LedgerSpec == LedgerInit /\ [][LedgerNext]_<<form, task>>
=============================================================================
