----------------------------- MODULE RoleConfig -----------------------------
(***************************************************************************)
(* Editing the rule of one role link: dashboard tabs (role_config.html)    *)
(* against role_config_data and role_config_save (routes/admin.rs) and the *)
(* optimistic lock on role_links.rule_tree_version, while RoleLogic may    *)
(* delete the link and register it again (routes/plugin.rs).               *)
(*                                                                         *)
(* A save is an HTTP request of several statements, each committed on its  *)
(* own; a tab goes on while its request is under way.                      *)
(***************************************************************************)
EXTENDS Integers

CONSTANTS
    Tabs,      \* dashboard tabs open on the link
    NoTab,     \* not a tab
    Trees,     \* rule trees
    Unset,     \* the tree of a freshly registered link: grants to nobody
    Default,   \* the tree an editor offers for it: anyone with a birthday
    MaxSaves,  \* bound: save requests ever sent
    MaxRows,   \* bound: rows ever registered for the link
    MaxFaults  \* bound: failures

ASSUME RoleConfigAssumption ==
    /\ NoTab \notin Tabs /\ Unset \in Trees /\ Default \in Trees \ {Unset}
    /\ MaxSaves \in Nat /\ MaxRows \in Nat /\ MaxFaults \in Nat

VARIABLES
    version,   \* rule_tree_version, 0 when the link has no row
    tree,      \* rule_tree
    rows,      \* rows registered so far
    unsynced,  \* the row was written and no config_sync was enqueued since
    shown,     \* shown[t]: what tab t was given: its state, version 0 before it loads
    edit,      \* edit[t]: the tree in t's editor, state._edit
    fetched,   \* fetched[t]: what a refresh under way has read
    saves,     \* save requests sent so far
    req,       \* req[i]: the i-th of them
    step,      \* step[i]: how far it is
    answer,    \* answer[i]: the version it answers with
    faults

tabVars == <<shown, edit, fetched>>
reqVars == <<saves, req, step, answer>>
rowVars == <<version, tree, rows, unsynced>>
vars == <<version, tree, rows, unsynced, shown, edit, fetched, saves, req, step, answer, faults>>

Requests == 1..MaxSaves

(* `knows` is the tree that the tab takes its version to stand for, `row` the row
   it has both from by one SELECT, or 0; neither exists in the program. *)
Views == [version : Nat, config : Trees, knows : Trees, row : Nat]
Payloads == [tab : Tabs \union {NoTab}, version : Nat, tree : Trees, knows : Trees, row : Nat]
Fetches == [version : Nat, tree : Trees, row : Nat]

Blank == [version |-> 0, config |-> Unset, knows |-> Unset, row |-> 0]
Unsent == [tab |-> NoTab, version |-> 0, tree |-> Unset, knows |-> Unset, row |-> 0]
NoFetch == [version |-> 0, tree |-> Unset, row |-> 0]

Init ==
    /\ version = 1 /\ tree = Unset /\ rows = 1 /\ unsynced = FALSE
    /\ shown = [t \in Tabs |-> Blank]
    /\ edit = [t \in Tabs |-> Unset]
    /\ fetched = [t \in Tabs |-> NoFetch]
    /\ saves = 0
    /\ req = [i \in Requests |-> Unsent]
    /\ step = [i \in Requests |-> "none"]
    /\ answer = [i \in Requests |-> 0]
    /\ faults = 0

Fault == faults < MaxFaults /\ faults' = faults + 1
Open(t) == shown[t].version # 0
Goto(i, s) == step' = [step EXCEPT ![i] = s]

(* The editor never holds the tree that grants to nobody. *)
Presented(x) == IF x = Unset THEN Default ELSE x

-----------------------------------------------------------------------------
(* The tab.                                                                *)

(* load(): role_config_data reads tree and version in one SELECT. *)
Load(t) ==
    /\ ~Open(t) /\ version # 0
    /\ shown' = [shown EXCEPT ![t] = [version |-> version, config |-> tree,
                                      knows |-> tree, row |-> rows]]
    /\ edit' = [edit EXCEPT ![t] = Presented(tree)]
    /\ UNCHANGED <<rowVars, fetched, reqVars, faults>>

Edit(t, x) ==
    /\ Open(t) /\ x # edit[t]
    /\ edit' = [edit EXCEPT ![t] = x]
    /\ UNCHANGED <<rowVars, shown, fetched, reqVars, faults>>

Dirty(t) == edit[t] # shown[t].config

(* doSave(), offered to a dirty tab; an earlier save of it may be under way. *)
Save(t) ==
    /\ Open(t) /\ Dirty(t) /\ saves < MaxSaves
    /\ saves' = saves + 1
    /\ req' = [req EXCEPT ![saves + 1] =
                  [tab |-> t, version |-> shown[t].version, tree |-> edit[t],
                   knows |-> shown[t].knows, row |-> shown[t].row]]
    /\ step' = [step EXCEPT ![saves + 1] = "update"]
    /\ UNCHANGED <<rowVars, tabVars, answer, faults>>

(* refreshFromServer(), when the tab gets the focus again: the SELECT, ... *)
Refresh(t) ==
    /\ Open(t) /\ fetched[t].version = 0 /\ version # 0
    /\ fetched' = [fetched EXCEPT ![t] = [version |-> version, tree |-> tree, row |-> rows]]
    /\ UNCHANGED <<rowVars, shown, edit, reqVars, faults>>

(* ... and its answer, taken when the tree differs and the tab is not dirty. *)
Refreshed(t) ==
    LET f == fetched[t]
    IN  /\ f.version # 0
        /\ fetched' = [fetched EXCEPT ![t] = NoFetch]
        /\ IF f.tree # shown[t].config /\ ~Dirty(t)
           THEN /\ shown' = [shown EXCEPT ![t] = [version |-> f.version, config |-> f.tree,
                                                  knows |-> f.tree, row |-> f.row]]
                /\ edit' = [edit EXCEPT ![t] = Presented(f.tree)]
           ELSE UNCHANGED <<shown, edit>>
        /\ UNCHANGED <<rowVars, reqVars, faults>>

-----------------------------------------------------------------------------
(* role_config_save.                                                       *)

(* Mistake: the version is not compared. *)
MatchesAny(i) == version # 0

Matches(i) == version # 0 /\ version = req[i].version

(* UPDATE ... WHERE rule_tree_version = $4 *)
Update(i) ==
    /\ step[i] = "update"
    /\ Matches(i)
    /\ version' = version + 1
    /\ tree' = req[i].tree
    /\ unsynced' = TRUE
    /\ Goto(i, "select")
    /\ UNCHANGED <<rows, tabVars, saves, req, answer, faults>>

(* No row matched: StaleVersion or NotFound, and the tab keeps its state. *)
Refuse(i) ==
    /\ step[i] = "update"
    /\ ~Matches(i)
    /\ Goto(i, "done")
    /\ UNCHANGED <<rowVars, tabVars, saves, req, answer, faults>>

(* Mistake: without a row the answer is version -1. *)
SelectVersionOrNone(i) ==
    /\ step[i] = "select"
    /\ answer' = [answer EXCEPT ![i] = IF version = 0 THEN -1 ELSE version]
    /\ Goto(i, "enqueue")
    /\ UNCHANGED <<rowVars, tabVars, saves, req, faults>>

(* Mistake: the tick is left to notice the change. *)
SelectVersionOnly(i) ==
    /\ step[i] = "select"
    /\ \/ version # 0 /\ answer' = [answer EXCEPT ![i] = version] /\ Goto(i, "answer")
       \/ version = 0 /\ Goto(i, "done") /\ UNCHANGED answer
    /\ UNCHANGED <<rowVars, tabVars, saves, req, faults>>

(* The version to answer with is read by a statement of its own; without a row
   the request fails. *)
SelectVersion(i) ==
    /\ step[i] = "select"
    /\ \/ /\ version # 0
          /\ answer' = [answer EXCEPT ![i] = version] /\ Goto(i, "enqueue")
       \/ version = 0 /\ Goto(i, "done") /\ UNCHANGED answer
    /\ UNCHANGED <<rowVars, tabVars, saves, req, faults>>

(* enqueue_config_sync: its failure is logged, and the save still succeeds. *)
EnqueueSync(i) ==
    /\ step[i] = "enqueue"
    /\ \/ unsynced' = FALSE /\ UNCHANGED faults
       \/ Fault /\ UNCHANGED unsynced
    /\ Goto(i, "answer")
    /\ UNCHANGED <<version, tree, rows, tabVars, saves, req, answer>>

(* The tab takes the version, and its editor for what is stored. *)
Saved(i) ==
    LET t == req[i].tab
    IN  /\ step[i] = "answer"
        /\ shown' = [shown EXCEPT ![t] = [version |-> answer[i], config |-> edit[t],
                                          knows |-> req[i].tree, row |-> 0]]
        /\ Goto(i, "done")
        /\ UNCHANGED <<rowVars, edit, fetched, saves, req, answer, faults>>

(* The request is lost, a statement fails, the process dies or the answer is
   lost: the tab only learns of an error. *)
Fails(i) ==
    /\ step[i] \in {"update", "select", "enqueue", "answer"}
    /\ Fault
    /\ Goto(i, "done")
    /\ UNCHANGED <<rowVars, tabVars, saves, req, answer>>

-----------------------------------------------------------------------------
(* RoleLogic's webhooks.  register leaves a row that exists as it is.      *)

Delete ==
    /\ version # 0
    /\ version' = 0 /\ tree' = Unset /\ unsynced' = FALSE
    /\ UNCHANGED <<rows, tabVars, reqVars, faults>>

Register ==
    /\ version = 0 /\ rows < MaxRows
    /\ version' = 1 /\ tree' = Unset /\ rows' = rows + 1
    /\ UNCHANGED <<unsynced, tabVars, reqVars, faults>>

-----------------------------------------------------------------------------
Tab(t) ==
    \/ Load(t) \/ Save(t) \/ Refresh(t) \/ Refreshed(t)
    \/ \E x \in Trees \ {Unset} : Edit(t, x)

Request(i) ==
    \/ Update(i) \/ Refuse(i) \/ SelectVersion(i) \/ EnqueueSync(i) \/ Saved(i) \/ Fails(i)

Next ==
    \/ \E t \in Tabs : Tab(t)
    \/ \E i \in Requests : Request(i)
    \/ Delete
    \/ Register

Spec == Init /\ [][Next]_vars

-----------------------------------------------------------------------------
(* Type invariant. *)
TypeOK ==
    /\ version \in Nat /\ tree \in Trees /\ rows \in Nat /\ unsynced \in BOOLEAN
    /\ shown \in [Tabs -> Views] /\ edit \in [Tabs -> Trees] /\ fetched \in [Tabs -> Fetches]
    /\ saves \in 0..MaxSaves
    /\ req \in [Requests -> Payloads]
    /\ step \in [Requests -> {"none", "update", "select", "enqueue", "answer", "done"}]
    /\ answer \in [Requests -> Nat]
    /\ faults \in 0..MaxFaults

(* The save of request i, if that is the step, overwrites the tree its tab knew. *)
OverwritesKnown(i) == step[i] = "update" /\ step'[i] = "select" => tree = req[i].knows

(* admin.rs: "only update if the version still matches what the editor loaded --
   a second tab can't silently clobber"; migrations/001: "two dashboard tabs
   editing the same role link cannot silently clobber each other". *)
NoSilentClobber == [][\A i \in Requests : OverwritesKnown(i)]_vars

(* The claim holds of a tab that has its version from a load or a refresh, as long
   as the link keeps the row that was loaded, whatever other tabs, late refreshes
   and failed requests do in between. *)
LoadedTabsNeverClobber == [][\A i \in Requests : req[i].row = rows => OverwritesKnown(i)]_vars

(* A rule that changed is never left to the tick alone unless something failed:
   once the requests are through, a config_sync was enqueued after the change. *)
ChangesAreSynced ==
    (faults = 0 /\ \A i \in Requests : step[i] \in {"none", "done"}) => ~unsynced
=============================================================================
