-------------------------- MODULE RoleConfigProofs --------------------------
(***************************************************************************)
(* Theorems about RoleConfig, for any number of tabs, trees and requests.  *)
(***************************************************************************)
EXTENDS RoleConfig, TLAPS

(* Version v of row n, if that is the row there is or was last, was not handed out
   for another tree than x: it is older than the row's, or x is what it holds. *)
Stands(n, v, x) ==
    /\ n <= rows
    /\ n = rows =>
          /\ v > 0
          /\ version # 0 => v <= version
          /\ version = v => tree = x

ViewsStand ==
    \A t \in Tabs : Stands(shown[t].row, shown[t].version, shown[t].knows)

FetchesStand ==
    \A t \in Tabs : Stands(fetched[t].row, fetched[t].version, fetched[t].tree)

RequestsStand ==
    \A i \in Requests : Stands(req[i].row, req[i].version, req[i].knows)

(* The inductive invariant behind LoadedTabsNeverClobber. *)
LockInv == TypeOK /\ rows >= 1 /\ ViewsStand /\ FetchesStand /\ RequestsStand

-----------------------------------------------------------------------------
(* Every step keeps the types. *)
LEMMA TypeStep == TypeOK /\ [Next]_vars => TypeOK'
<1> SUFFICES ASSUME TypeOK, [Next]_vars PROVE TypeOK'
  OBVIOUS
<1> USE RoleConfigAssumption DEF TypeOK, Requests, tabVars, reqVars, rowVars
<1>1. ASSUME NEW t \in Tabs, Load(t) PROVE TypeOK'
  BY <1>1 DEF Load, Presented, Views
<1>2. ASSUME NEW t \in Tabs, NEW x \in Trees \ {Unset}, Edit(t, x) PROVE TypeOK'
  BY <1>2 DEF Edit
<1>3. ASSUME NEW t \in Tabs, Save(t) PROVE TypeOK'
  <2>1. shown[t] \in Views /\ edit[t] \in Trees
    OBVIOUS
  <2>2. [tab |-> t, version |-> shown[t].version, tree |-> edit[t],
         knows |-> shown[t].knows, row |-> shown[t].row] \in Payloads
    BY <2>1 DEF Views, Payloads
  <2>3. req' \in [Requests -> Payloads] /\ saves' \in 0..MaxSaves
    BY <1>3, <2>2 DEF Save
  <2>4. step' \in [Requests -> {"none", "update", "select", "enqueue", "answer", "done"}]
    BY <1>3 DEF Save
  <2>5. UNCHANGED <<version, tree, rows, unsynced, shown, edit, fetched, answer, faults>>
    BY <1>3 DEF Save
  <2>6. QED
    BY <2>3, <2>4, <2>5
<1>4. ASSUME NEW t \in Tabs, Refresh(t) PROVE TypeOK'
  BY <1>4 DEF Refresh, Fetches
<1>5. ASSUME NEW t \in Tabs, Refreshed(t) PROVE TypeOK'
  <2>1. fetched' \in [Tabs -> Fetches]
    BY <1>5 DEF Refreshed, NoFetch, Fetches
  <2>2. fetched[t].version \in Nat /\ fetched[t].tree \in Trees /\ fetched[t].row \in Nat
    BY DEF Fetches
  <2>3. [version |-> fetched[t].version, config |-> fetched[t].tree,
         knows |-> fetched[t].tree, row |-> fetched[t].row] \in Views
    BY <2>2 DEF Views
  <2>4. shown' \in [Tabs -> Views] /\ edit' \in [Tabs -> Trees]
    <3>1. CASE fetched[t].tree # shown[t].config /\ ~Dirty(t)
      <4>1. shown' = [shown EXCEPT ![t] =
                        [version |-> fetched[t].version, config |-> fetched[t].tree,
                         knows |-> fetched[t].tree, row |-> fetched[t].row]]
            /\ edit' = [edit EXCEPT ![t] = Presented(fetched[t].tree)]
        BY <1>5, <3>1 DEF Refreshed
      <4>2. QED
        BY <4>1, <2>2, <2>3 DEF Presented
    <3>2. CASE ~(fetched[t].tree # shown[t].config /\ ~Dirty(t))
      <4>1. UNCHANGED <<shown, edit>>
        BY <1>5, <3>2 DEF Refreshed
      <4>2. QED
        BY <4>1
    <3>3. QED
      BY <3>1, <3>2
  <2>5. UNCHANGED <<version, tree, rows, unsynced, saves, req, step, answer, faults>>
    BY <1>5 DEF Refreshed
  <2>6. QED
    BY <2>1, <2>4, <2>5
<1>6. ASSUME NEW i \in Requests, Update(i) PROVE TypeOK'
  BY <1>6 DEF Update, Goto, Payloads
<1>7. ASSUME NEW i \in Requests, Refuse(i) PROVE TypeOK'
  BY <1>7 DEF Refuse, Goto
<1>8. ASSUME NEW i \in Requests, SelectVersion(i) PROVE TypeOK'
  BY <1>8 DEF SelectVersion, Goto
<1>9. ASSUME NEW i \in Requests, EnqueueSync(i) PROVE TypeOK'
  <2>1. step' \in [Requests -> {"none", "update", "select", "enqueue", "answer", "done"}]
    BY <1>9 DEF EnqueueSync, Goto
  <2>2. unsynced' \in BOOLEAN /\ faults' \in 0..MaxFaults
    <3>1. CASE unsynced' = FALSE /\ UNCHANGED faults
      BY <3>1
    <3>2. CASE Fault /\ UNCHANGED unsynced
      BY <3>2 DEF Fault
    <3>3. QED
      BY <1>9, <3>1, <3>2 DEF EnqueueSync
  <2>3. UNCHANGED <<version, tree, rows, shown, edit, fetched, saves, req, answer>>
    BY <1>9 DEF EnqueueSync
  <2>4. QED
    BY <2>1, <2>2, <2>3
<1>10. ASSUME NEW i \in Requests, Saved(i) PROVE TypeOK'
  <2>1. PICK t : t = req[i].tab
    OBVIOUS
  <2>2. req[i].tree \in Trees /\ answer[i] \in Nat
    BY DEF Payloads
  <2>3. shown' = [shown EXCEPT ![t] = [version |-> answer[i], config |-> edit[t],
                                       knows |-> req[i].tree, row |-> 0]]
    BY <1>10, <2>1 DEF Saved
  <2>4. shown' \in [Tabs -> Views]
    BY <2>2, <2>3 DEF Views
  <2>5. step' \in [Requests -> {"none", "update", "select", "enqueue", "answer", "done"}]
    BY <1>10 DEF Saved, Goto
  <2>6. UNCHANGED <<version, tree, rows, unsynced, edit, fetched, saves, req, answer, faults>>
    BY <1>10 DEF Saved
  <2>7. QED
    BY <2>4, <2>5, <2>6
<1>11. ASSUME NEW i \in Requests, Fails(i) PROVE TypeOK'
  BY <1>11 DEF Fails, Goto, Fault
<1>12. CASE Delete
  BY <1>12 DEF Delete
<1>13. CASE Register
  BY <1>13 DEF Register
<1>14. CASE UNCHANGED vars
  BY <1>14 DEF vars
<1>15. QED
  BY <1>1, <1>2, <1>3, <1>4, <1>5, <1>6, <1>7, <1>8, <1>9, <1>10, <1>11, <1>12, <1>13, <1>14
     DEF Next, Tab, Request

(* Where a step leaves the row alone: everywhere but in Update and the webhooks. *)
LEMMA RowKept ==
    ASSUME [Next]_vars, \A i \in Requests : ~Update(i), ~Delete, ~Register
    PROVE  UNCHANGED <<version, tree>>
<1>1. ASSUME NEW t \in Tabs, Tab(t) PROVE UNCHANGED <<version, tree>>
  BY <1>1 DEF Tab, Load, Save, Refresh, Refreshed, Edit, rowVars
<1>2. ASSUME NEW i \in Requests, Request(i) PROVE UNCHANGED <<version, tree>>
  BY <1>2 DEF Request, Refuse, SelectVersion, EnqueueSync, Saved, Fails, rowVars
<1>3. QED
  BY <1>1, <1>2 DEF Next, vars

(* No row disappears from the count of rows. *)
LEMMA RowsKept ==
    ASSUME TypeOK, [Next]_vars, ~Register
    PROVE  rows' = rows
<1>1. ASSUME NEW t \in Tabs, Tab(t) PROVE rows' = rows
  BY <1>1 DEF Tab, Load, Save, Refresh, Refreshed, Edit, rowVars
<1>2. ASSUME NEW i \in Requests, Request(i) PROVE rows' = rows
  BY <1>2 DEF Request, Update, Refuse, SelectVersion, EnqueueSync, Saved, Fails, rowVars
<1>3. Delete \/ UNCHANGED vars => rows' = rows
  BY DEF Delete, vars
<1>4. QED
  BY <1>1, <1>2, <1>3 DEF Next

(* Every step keeps what versions stand for: only Update writes the tree, under a
   version that nobody was given yet, and a row that is created is a new one. *)
LEMMA StandsKept ==
    ASSUME TypeOK, [Next]_vars, NEW n \in Nat, NEW v \in Nat, NEW x \in Trees, Stands(n, v, x)
    PROVE  Stands(n, v, x)'
<1> USE DEF Stands, TypeOK
<1>1. CASE \E i \in Requests : Update(i)
  BY <1>1 DEF Update, Matches
<1>2. CASE Delete
  BY <1>2 DEF Delete
<1>3. CASE Register
  BY <1>3 DEF Register
<1>4. CASE (\A i \in Requests : ~Update(i)) /\ ~Delete /\ ~Register
  BY <1>4, RowKept, RowsKept
<1>5. QED
  BY <1>1, <1>2, <1>3, <1>4

(* What a tab is shown stands for its tree: it comes from what was fetched. *)
LEMMA ViewsStep ==
    ASSUME TypeOK, rows >= 1, ViewsStand, FetchesStand, [Next]_vars
    PROVE  ViewsStand'
<1> SUFFICES ASSUME NEW t \in Tabs
             PROVE  Stands(shown[t].row, shown[t].version, shown[t].knows)'
  BY DEF ViewsStand
<1>1. CASE shown'[t] = shown[t]
  <2>1. shown[t].version \in Nat /\ shown[t].knows \in Trees /\ shown[t].row \in Nat
    BY DEF TypeOK, Views
  <2>2. Stands(shown[t].row, shown[t].version, shown[t].knows)
    BY DEF ViewsStand
  <2> DEFINE n == shown[t].row
             v == shown[t].version
             x == shown[t].knows
  <2>3. PICK n0 \in Nat, v0 \in Nat, x0 \in Trees : n0 = n /\ v0 = v /\ x0 = x
    BY <2>1
  <2>4. Stands(n0, v0, x0)
    BY <2>2, <2>3
  <2>5. Stands(n0, v0, x0)'
    BY <2>4, StandsKept
  <2>6. QED
    BY <2>5, <2>3, <1>1 DEF Stands
<1>2. CASE Load(t)
  BY <1>2 DEF Load, TypeOK, Stands, rowVars
<1>3. CASE Refreshed(t) /\ shown'[t] # shown[t]
  <2>1. /\ shown'[t].version = fetched[t].version /\ shown'[t].knows = fetched[t].tree
        /\ shown'[t].row = fetched[t].row
    BY <1>3 DEF Refreshed, TypeOK
  <2>2. fetched[t].version \in Nat /\ fetched[t].tree \in Trees /\ fetched[t].row \in Nat
    BY DEF TypeOK, Fetches
  <2>3. PICK n0 \in Nat, v0 \in Nat, x0 \in Trees :
           n0 = fetched[t].row /\ v0 = fetched[t].version /\ x0 = fetched[t].tree
    BY <2>2
  <2>4. Stands(n0, v0, x0)
    BY <2>3 DEF FetchesStand
  <2>5. Stands(n0, v0, x0)'
    BY <2>4, StandsKept
  <2>6. QED
    BY <2>5, <2>3, <2>1 DEF Stands
<1>4. CASE \E i \in Requests : Saved(i) /\ req[i].tab = t
  <2>1. shown'[t].row = 0 /\ rows' = rows
    BY <1>4 DEF Saved, TypeOK, rowVars
  <2>2. QED
    BY <2>1 DEF Stands, TypeOK
<1>5. QED
  <2>1. ASSUME NEW u \in Tabs, Tab(u), ~(u = t /\ (Load(t) \/ Refreshed(t)))
        PROVE  shown'[t] = shown[t]
    BY <2>1 DEF Tab, Load, Save, Refresh, Refreshed, Edit, tabVars, TypeOK
  <2>2. ASSUME NEW i \in Requests, Request(i), ~(Saved(i) /\ req[i].tab = t)
        PROVE  shown'[t] = shown[t]
    BY <2>2 DEF Request, Update, Refuse, SelectVersion, EnqueueSync, Saved, Fails, tabVars, TypeOK
  <2>3. Delete \/ Register \/ UNCHANGED vars => shown'[t] = shown[t]
    BY DEF Delete, Register, vars, tabVars
  <2>4. QED
    BY <1>1, <1>2, <1>3, <1>4, <2>1, <2>2, <2>3 DEF Next

(* What a refresh has fetched stands for its tree. *)
LEMMA FetchesStep ==
    ASSUME TypeOK, rows >= 1, FetchesStand, [Next]_vars
    PROVE  FetchesStand'
<1> SUFFICES ASSUME NEW t \in Tabs
             PROVE  Stands(fetched[t].row, fetched[t].version, fetched[t].tree)'
  BY DEF FetchesStand
<1>1. CASE fetched'[t] = fetched[t]
  <2>1. fetched[t].version \in Nat /\ fetched[t].tree \in Trees /\ fetched[t].row \in Nat
    BY DEF TypeOK, Fetches
  <2>2. PICK n0 \in Nat, v0 \in Nat, x0 \in Trees :
           n0 = fetched[t].row /\ v0 = fetched[t].version /\ x0 = fetched[t].tree
    BY <2>1
  <2>3. Stands(n0, v0, x0)
    BY <2>2 DEF FetchesStand
  <2>4. Stands(n0, v0, x0)'
    BY <2>3, StandsKept
  <2>5. QED
    BY <2>4, <2>2, <1>1 DEF Stands
<1>2. CASE Refresh(t)
  BY <1>2 DEF Refresh, TypeOK, Stands, rowVars
<1>3. CASE Refreshed(t)
  <2>1. fetched'[t].row = 0 /\ rows' = rows
    BY <1>3 DEF Refreshed, TypeOK, NoFetch, rowVars
  <2>2. QED
    BY <2>1 DEF Stands, TypeOK
<1>4. QED
  <2>1. ASSUME NEW u \in Tabs, Tab(u), ~(u = t /\ (Refresh(t) \/ Refreshed(t)))
        PROVE  fetched'[t] = fetched[t]
    BY <2>1 DEF Tab, Load, Save, Refresh, Refreshed, Edit, tabVars, TypeOK
  <2>2. ASSUME NEW i \in Requests, Request(i) PROVE fetched'[t] = fetched[t]
    BY <2>2 DEF Request, Update, Refuse, SelectVersion, EnqueueSync, Saved, Fails, tabVars
  <2>3. Delete \/ Register \/ UNCHANGED vars => fetched'[t] = fetched[t]
    BY DEF Delete, Register, vars, tabVars
  <2>4. QED
    BY <1>1, <1>2, <1>3, <2>1, <2>2, <2>3 DEF Next

(* What a request sends stands for the tree its tab knew. *)
LEMMA RequestsStep ==
    ASSUME TypeOK, rows >= 1, ViewsStand, RequestsStand, [Next]_vars
    PROVE  RequestsStand'
<1> SUFFICES ASSUME NEW i \in Requests
             PROVE  Stands(req[i].row, req[i].version, req[i].knows)'
  BY DEF RequestsStand, Requests
<1>1. CASE req'[i] = req[i]
  <2>1. req[i].version \in Nat /\ req[i].knows \in Trees /\ req[i].row \in Nat
    BY DEF TypeOK, Payloads
  <2>2. PICK n0 \in Nat, v0 \in Nat, x0 \in Trees :
           n0 = req[i].row /\ v0 = req[i].version /\ x0 = req[i].knows
    BY <2>1
  <2>3. Stands(n0, v0, x0)
    BY <2>2 DEF RequestsStand
  <2>4. Stands(n0, v0, x0)'
    BY <2>3, StandsKept
  <2>5. QED
    BY <2>4, <2>2, <1>1 DEF Stands
<1>2. ASSUME NEW t \in Tabs, Save(t), i = saves + 1
      PROVE  Stands(req[i].row, req[i].version, req[i].knows)'
  <2>1. /\ req'[i].version = shown[t].version /\ req'[i].knows = shown[t].knows
        /\ req'[i].row = shown[t].row
    BY <1>2 DEF Save, TypeOK
  <2>2. Stands(shown[t].row, shown[t].version, shown[t].knows)
    BY DEF ViewsStand
  <2>3. UNCHANGED <<version, tree, rows>>
    BY <1>2 DEF Save, rowVars
  <2>4. QED
    BY <2>1, <2>2, <2>3 DEF Stands
<1>3. QED
  <2>1. ASSUME NEW u \in Tabs, Tab(u), ~(Save(u) /\ i = saves + 1)
        PROVE  req'[i] = req[i]
    BY <2>1 DEF Tab, Load, Save, Refresh, Refreshed, Edit, reqVars, TypeOK
  <2>2. ASSUME NEW j \in Requests, Request(j) PROVE req'[i] = req[i]
    BY <2>2 DEF Request, Update, Refuse, SelectVersion, EnqueueSync, Saved, Fails, reqVars
  <2>3. Delete \/ Register \/ UNCHANGED vars => req'[i] = req[i]
    BY DEF Delete, Register, vars, reqVars
  <2>4. QED
    BY <1>1, <1>2, <2>1, <2>2, <2>3 DEF Next

-----------------------------------------------------------------------------
(* The initial state is well typed. *)
LEMMA TypeInit == Init => TypeOK
<1> SUFFICES ASSUME Init PROVE TypeOK
  OBVIOUS
<1>1. Unset \in Trees /\ MaxSaves \in Nat /\ MaxFaults \in Nat
  BY RoleConfigAssumption
<1>2. Blank \in Views /\ Unsent \in Payloads /\ NoFetch \in Fetches
  BY <1>1 DEF Blank, Views, Unsent, Payloads, NoFetch, Fetches
<1>3. version \in Nat /\ tree \in Trees /\ rows \in Nat /\ unsynced \in BOOLEAN
      /\ saves \in 0..MaxSaves /\ faults \in 0..MaxFaults
  <2>1. version = 1 /\ tree = Unset /\ rows = 1 /\ saves = 0 /\ faults = 0
    BY DEF Init
  <2>2. unsynced \in BOOLEAN
    BY DEF Init
  <2>3. QED
    BY <1>1, <2>1, <2>2
<1>4. shown \in [Tabs -> Views] /\ edit \in [Tabs -> Trees] /\ fetched \in [Tabs -> Fetches]
  BY <1>1, <1>2 DEF Init
<1>5. req \in [Requests -> Payloads] /\ answer \in [Requests -> Nat]
  BY <1>2 DEF Init
<1>6. step \in [Requests -> {"none", "update", "select", "enqueue", "answer", "done"}]
  BY DEF Init
<1>7. QED
  BY <1>3, <1>4, <1>5, <1>6 DEF TypeOK

(* The types are right in every reachable state. *)
THEOREM ConfigTypeCorrect == Spec => []TypeOK
<1>1. QED
  BY TypeInit, TypeStep, PTL DEF Spec

(* The invariant holds in every reachable state. *)
LEMMA LockInvariant == Spec => []LockInv
<1>1. Init => LockInv
  <2> SUFFICES ASSUME Init PROVE LockInv
    OBVIOUS
  <2>1. TypeOK /\ rows >= 1
    BY TypeInit DEF Init
  <2>2. ViewsStand /\ FetchesStand /\ RequestsStand
    BY DEF Init, ViewsStand, FetchesStand, RequestsStand, Stands, Blank, Unsent, NoFetch
  <2>3. QED
    BY <2>1, <2>2 DEF LockInv
<1>2. LockInv /\ [Next]_vars => LockInv'
  <2> SUFFICES ASSUME LockInv, [Next]_vars PROVE LockInv'
    OBVIOUS
  <2> USE DEF LockInv
  <2>1. TypeOK'
    BY TypeStep
  <2>2. ViewsStand'
    BY ViewsStep
  <2>3. FetchesStand'
    BY FetchesStep
  <2>4. RequestsStand'
    BY RequestsStep
  <2>5. rows' >= 1
    BY RowsKept DEF TypeOK, Register
  <2>6. QED
    BY <2>1, <2>2, <2>3, <2>4, <2>5
<1>3. QED
  BY <1>1, <1>2, PTL DEF Spec

(* An accepted save of a tab that has its version from a load or a refresh of the
   row it writes to overwrites the tree that tab was shown, for any number of tabs,
   saves and rows and however they overlap and fail. *)
THEOREM LoadedTabsSafe == Spec => LoadedTabsNeverClobber
<1>1. ASSUME LockInv, [Next]_vars, NEW i \in Requests, req[i].row = rows
      PROVE  OverwritesKnown(i)
  <2> SUFFICES ASSUME step[i] = "update", step'[i] = "select" PROVE tree = req[i].knows
    BY DEF OverwritesKnown
  <2>1. Update(i)
    <3> step \in [Requests -> {"none", "update", "select", "enqueue", "answer", "done"}]
      BY <1>1 DEF LockInv, TypeOK
    <3>1. ASSUME NEW t \in Tabs, Tab(t) PROVE FALSE
      <4>1. step' = step \/ step' = [step EXCEPT ![saves + 1] = "update"]
        BY <3>1 DEF Tab, Load, Save, Refresh, Refreshed, Edit, reqVars
      <4>2. QED
        BY <4>1
    <3>2. ASSUME NEW j \in Requests, Request(j), ~Update(i) PROVE FALSE
      <4>1. CASE Update(j)
        BY <4>1, <3>2 DEF Update, Goto
      <4>2. ASSUME NEW s \in {"enqueue", "answer", "done"}, Goto(j, s) PROVE FALSE
        BY <4>2 DEF Goto
      <4>3. QED
        BY <3>2, <4>1, <4>2 DEF Request, Refuse, SelectVersion, EnqueueSync, Saved, Fails
    <3>3. ~(Delete \/ Register \/ UNCHANGED vars)
      BY DEF Delete, Register, vars, reqVars
    <3>4. QED
      BY <1>1, <3>1, <3>2, <3>3 DEF Next
  <2>2. version = req[i].version
    BY <2>1 DEF Update, Matches
  <2>3. QED
    BY <2>2, <1>1 DEF LockInv, RequestsStand, Stands
<1>2. LockInv /\ [Next]_vars => [\A i \in Requests : req[i].row = rows => OverwritesKnown(i)]_vars
  BY <1>1
<1>3. QED
  BY LockInvariant, <1>2, PTL DEF Spec, LoadedTabsNeverClobber

-----------------------------------------------------------------------------
(* The inductive invariant behind ChangesAreSynced: unless something failed, a change
   that is not synced belongs to a save that is on its way to enqueue_config_sync. *)
Syncing(i) == step[i] \in {"select", "enqueue"}

SyncInv ==
    /\ TypeOK
    /\ \A i \in Requests : i > saves => step[i] = "none"
    /\ version = 0 => ~unsynced
    /\ faults = 0 /\ unsynced => \E i \in Requests : Syncing(i)

(* Requests are sent one after the other. *)
LEMMA SentKept ==
    ASSUME SyncInv, [Next]_vars
    PROVE  \A i \in Requests : i > saves' => step'[i] = "none"
<1> SUFFICES ASSUME NEW i \in Requests, i > saves' PROVE step'[i] = "none"
  OBVIOUS
<1> USE DEF SyncInv, TypeOK, Requests
<1>1. ASSUME NEW t \in Tabs, Tab(t) PROVE step'[i] = "none"
  <2>1. CASE Save(t)
    BY <2>1, RoleConfigAssumption DEF Save
  <2>2. CASE ~Save(t)
    BY <1>1, <2>2 DEF Tab, Load, Refresh, Refreshed, Edit, reqVars
  <2>3. QED
    BY <2>1, <2>2
<1>2. ASSUME NEW j \in Requests, Request(j) PROVE step'[i] = "none"
  <2>1. saves' = saves /\ step[j] # "none"
    BY <1>2 DEF Request, Update, Refuse, SelectVersion, EnqueueSync, Saved, Fails
  <2>2. \E s : Goto(j, s)
    BY <1>2 DEF Request, Update, Refuse, SelectVersion, EnqueueSync, Saved, Fails
  <2>3. QED
    BY <2>1, <2>2 DEF Goto
<1>3. ASSUME Delete \/ Register \/ UNCHANGED vars PROVE step'[i] = "none"
  BY <1>3 DEF Delete, Register, vars, reqVars
<1>4. QED
  BY <1>1, <1>2, <1>3 DEF Next

(* A step of a save, if nothing fails. *)
LEMMA RequestKeepsSync ==
    ASSUME SyncInv, NEW j \in Requests, Request(j)
    PROVE  /\ version' = 0 => ~unsynced'
           /\ faults' = 0 /\ unsynced' => \E i \in Requests : Syncing(i)'
<1> USE DEF SyncInv, TypeOK
<1>1. CASE Update(j)
  <2>1. Syncing(j)'
    BY <1>1 DEF Update, Goto, Syncing
  <2>2. version' # 0
    BY <1>1 DEF Update
  <2>3. QED
    BY <2>1, <2>2
<1>2. CASE SelectVersion(j)
  <2>1. UNCHANGED rowVars /\ UNCHANGED faults
    BY <1>2 DEF SelectVersion
  <2>2. CASE version # 0
    <3>1. Syncing(j)'
      BY <1>2, <2>2 DEF SelectVersion, Goto, Syncing
    <3>2. QED
      BY <2>1, <2>2, <3>1 DEF rowVars
  <2>3. CASE version = 0
    BY <2>1, <2>3 DEF rowVars
  <2>4. QED
    BY <2>2, <2>3
<1>3. CASE EnqueueSync(j)
  <2>1. CASE unsynced' = FALSE
    BY <2>1
  <2>2. CASE Fault /\ unsynced' = unsynced
    BY <1>3, <2>2 DEF Fault, EnqueueSync
  <2>3. QED
    BY <1>3, <2>1, <2>2 DEF EnqueueSync
<1>4. CASE Refuse(j) \/ Saved(j)
  <2>1. ~Syncing(j) /\ Goto(j, "done") /\ UNCHANGED rowVars /\ UNCHANGED faults
    BY <1>4 DEF Refuse, Saved, Syncing
  <2>2. \A i \in Requests : Syncing(i) => Syncing(i)'
    BY <2>1 DEF Goto, Syncing
  <2>3. QED
    BY <2>1, <2>2 DEF rowVars
<1>5. CASE Fails(j)
  BY <1>5 DEF Fails, Fault, rowVars
<1>6. QED
  BY <1>1, <1>2, <1>3, <1>4, <1>5 DEF Request

(* Unless something failed, a change is followed by a config_sync: once the requests
   are through, for any number of tabs and saves, none is left to the tick. *)
THEOREM SavesAreSynced == Spec => []ChangesAreSynced
<1>1. Init => SyncInv
  BY TypeInit DEF Init, SyncInv
<1>2. SyncInv /\ [Next]_vars => SyncInv'
  <2> SUFFICES ASSUME SyncInv, [Next]_vars PROVE SyncInv'
    OBVIOUS
  <2>1. TypeOK' /\ \A i \in Requests : i > saves' => step'[i] = "none"
    BY TypeStep, SentKept DEF SyncInv
  <2>2. ASSUME NEW t \in Tabs, Tab(t)
        PROVE  /\ version' = 0 => ~unsynced'
               /\ faults' = 0 /\ unsynced' => \E i \in Requests : Syncing(i)'
    <3>1. UNCHANGED rowVars /\ UNCHANGED faults
      BY <2>2 DEF Tab, Load, Save, Refresh, Refreshed, Edit
    <3>2. \A i \in Requests : Syncing(i) => Syncing(i)'
      <4>1. CASE Save(t)
        BY <4>1, RoleConfigAssumption DEF Save, SyncInv, TypeOK, Requests, Syncing
      <4>2. CASE ~Save(t)
        BY <2>2, <4>2 DEF Tab, Load, Refresh, Refreshed, Edit, reqVars, Syncing
      <4>3. QED
        BY <4>1, <4>2
    <3>3. QED
      BY <3>1, <3>2 DEF SyncInv, rowVars
  <2>3. ASSUME NEW j \in Requests, Request(j)
        PROVE  /\ version' = 0 => ~unsynced'
               /\ faults' = 0 /\ unsynced' => \E i \in Requests : Syncing(i)'
    BY <2>3, RequestKeepsSync
  <2>4. ASSUME Delete \/ Register \/ UNCHANGED vars
        PROVE  /\ version' = 0 => ~unsynced'
               /\ faults' = 0 /\ unsynced' => \E i \in Requests : Syncing(i)'
    <3>1. UNCHANGED step /\ UNCHANGED faults
      BY <2>4 DEF Delete, Register, vars, reqVars
    <3>2. UNCHANGED <<version, unsynced>> \/ unsynced' = FALSE
      BY <2>4 DEF Delete, Register, vars, SyncInv, TypeOK
    <3>3. QED
      BY <3>1, <3>2 DEF SyncInv, Syncing
  <2>5. QED
    BY <2>1, <2>2, <2>3, <2>4 DEF Next, SyncInv
<1>3. SyncInv => ChangesAreSynced
  BY DEF SyncInv, ChangesAreSynced, Syncing
<1>4. QED
  BY <1>1, <1>2, <1>3, PTL DEF Spec
=============================================================================
