-------------------------------- MODULE Sync --------------------------------
(***************************************************************************)
(* The sync engine of services/sync.rs over the role_links, birthdays and  *)
(* role_assignments tables, against RoleLogic (services/rolelogic.rs) and  *)
(* the Auth Gateway (services/auth_gateway.rs), with the writers that race *)
(* with it: members on /verify, admins, RoleLogic's own webhooks, and the  *)
(* calendar.                                                               *)
(*                                                                         *)
(* One guild.  Every query, transaction statement and HTTP call is a step  *)
(* of its own: what it read stays in work[w] while the others go on.  A    *)
(* rule tree is abstracted to "none" (unconfigured), "any"                 *)
(* (grant_on_any_birthday) or "rule" (conditions, which hold for the       *)
(* members in `matching`).  The job queue is abstracted to what JobQueue   *)
(* establishes: a pending job is run, and run again when its worker fails. *)
(***************************************************************************)
EXTENDS Integers, FiniteSets

CONSTANTS
    Members,     \* Discord ids, ordered as the ORDER BY discord_id is
    Links,       \* the (guild_id, role_id) pairs of the guild
    Workers,     \* job workers, of all replicas
    Limit,       \* user_limit of a role link
    Changes,     \* the kinds of change the outside world makes
    MaxChanges,  \* bound: how many of them
    Faults,      \* the kinds of failure that occur
    MaxFaults,   \* bound: how many of them
    MaxToken     \* bound: API tokens ever issued for a link

ChangeKinds == {"birthday", "calendar", "membership", "rule", "state", "link", "restore"}
FaultKinds ==
    {"enqueue", "gateway", "upstream", "lost_answer", "held", "lost_write", "rerun", "crash"}

ASSUME SyncAssumption ==
    /\ Members \subseteq Nat /\ IsFiniteSet(Members)
    /\ Limit \in Nat
    /\ Changes \subseteq ChangeKinds /\ MaxChanges \in Nat
    /\ Faults \subseteq FaultKinds /\ MaxFaults \in Nat
    /\ MaxToken \in Nat \ {0}

VARIABLES
    \* the plugin's database
    token,      \* role_links.api_token, 0 when there is no row
    rule,       \* role_links.rule_tree
    mirror,     \* role_assignments
    saved,      \* the members with a row in birthdays
    matching,   \* the members whose birthday the rule matches today
    pending,    \* how many copies of each job there are to run
    work,       \* what each worker is doing, with what it has read
    \* RoleLogic and the Auth Gateway
    upToken,    \* the token RoleLogic accepts for the link, 0 when it is gone
    upUsers,    \* the users that hold the role
    upEnabled,  \* FALSE: disabled or paused
    members,    \* the members of the guild
    \* history
    tokens, changes, faults

db == <<token, rule, mirror>>
people == <<saved, matching, members>>
upstream == <<upToken, upUsers, upEnabled>>
vars == <<token, rule, mirror, saved, matching, pending, work, upToken, upUsers,
          upEnabled, members, tokens, changes, faults>>

Rules == {"none", "any", "rule"}
PlayerSync(m) == [kind |-> "player_sync", who |-> m]
ConfigSync(l) == [kind |-> "config_sync", link |-> l]
Jobs == {PlayerSync(m) : m \in Members} \union {ConfigSync(l) : l \in Links}

NoJobs == [job \in Jobs |-> 0]
Put(job) == pending' = [pending EXCEPT ![job] = @ + 1]

Idle == [step |-> "idle"]
Change(k) == k \in Changes /\ changes < MaxChanges /\ changes' = changes + 1
Fault(k) == k \in Faults /\ faults < MaxFaults /\ faults' = faults + 1

(* Whether rule r grants to member m, with the birthday m has saved.  The same
   answer from condition_eval and from the SQL of rule_sql. *)
Qualifies(r, m) ==
    /\ m \in saved
    /\ \/ r = "any"
       \/ r = "rule" /\ m \in matching

(* ORDER BY discord_id LIMIT user_limit *)
FirstOf(S) == {m \in S : Cardinality({n \in S : n < m}) < Limit}

Init ==
    /\ token = [l \in Links |-> 1]
    /\ rule \in [Links -> Rules]
    /\ mirror = [l \in Links |-> {}]
    /\ saved \in SUBSET Members
    /\ matching \in SUBSET saved
    /\ members \in SUBSET Members
    /\ pending = NoJobs
    /\ work = [w \in Workers |-> Idle]
    /\ upToken = [l \in Links |-> 1]
    /\ upUsers = [l \in Links |-> {}]
    /\ upEnabled = [l \in Links |-> TRUE]
    /\ tokens = 1
    /\ changes = 0
    /\ faults = 0

-----------------------------------------------------------------------------
(* Members, admins, the calendar.                                          *)

(* The handler's enqueue follows its write in a statement of its own: when it
   fails, or the process dies in between, the write stays. *)
Enqueue(job) ==
    \/ Put(job) /\ UNCHANGED faults
    \/ Fault("enqueue") /\ UNCHANGED pending

(* /verify/save: a new date may or may not satisfy the rule. *)
SaveBirthday(m) ==
    /\ Change("birthday")
    /\ saved' = saved \union {m}
    /\ matching' \in {matching \union {m}, matching \ {m}}
    /\ Enqueue(PlayerSync(m))
    /\ UNCHANGED <<db, members, work, upstream, tokens>>

(* Mistake: what was computed from the birthday survives it. *)
UnlinkKeepsMatch(m) ==
    /\ m \in saved
    /\ Change("birthday")
    /\ saved' = saved \ {m}
    /\ Enqueue(PlayerSync(m))
    /\ UNCHANGED <<db, matching, members, work, upstream, tokens>>

(* /verify/unlink *)
Unlink(m) ==
    /\ m \in saved
    /\ Change("birthday")
    /\ saved' = saved \ {m}
    /\ matching' = matching \ {m}
    /\ Enqueue(PlayerSync(m))
    /\ UNCHANGED <<db, members, work, upstream, tokens>>

(* A day passes in m's timezone: nothing is enqueued. *)
Calendar(m) ==
    /\ m \in saved
    /\ Change("calendar")
    /\ matching' = IF m \in matching THEN matching \ {m} ELSE matching \union {m}
    /\ UNCHANGED <<db, saved, members, pending, work, upstream, tokens, faults>>

(* m joins or leaves the guild, or opts in or out of the plugin. *)
Membership(m) ==
    /\ Change("membership")
    /\ members' = IF m \in members THEN members \ {m} ELSE members \union {m}
    /\ UNCHANGED <<db, saved, matching, pending, work, upstream, tokens, faults>>

(* role_config_save *)
SaveRule(l, r) ==
    /\ token[l] # 0
    /\ Change("rule")
    /\ rule' = [rule EXCEPT ![l] = r]
    /\ Enqueue(ConfigSync(l))
    /\ UNCHANGED <<token, mirror, people, work, upstream, tokens>>

(* enqueue_resync_all_role_links, for one of the links: not while one is pending. *)
Tick(l) ==
    /\ token[l] # 0 /\ pending[ConfigSync(l)] = 0
    /\ Put(ConfigSync(l))
    /\ UNCHANGED <<db, people, work, upstream, tokens, changes, faults>>

-----------------------------------------------------------------------------
(* RoleLogic: links are disabled, enabled, deleted and created again; it calls
   POST /register and DELETE /config, the latter perhaps in vain.           *)

Toggle(l) ==
    /\ upToken[l] # 0
    /\ Change("state")
    /\ upEnabled' = [upEnabled EXCEPT ![l] = ~upEnabled[l]]
    /\ UNCHANGED <<db, people, pending, work, upToken, upUsers, tokens, faults>>

UpstreamDelete(l) ==
    /\ upToken[l] # 0
    /\ Change("link")
    /\ upToken' = [upToken EXCEPT ![l] = 0]
    /\ upUsers' = [upUsers EXCEPT ![l] = {}]
    /\ UNCHANGED <<db, people, pending, work, upEnabled, tokens, faults>>

UpstreamCreate(l) ==
    /\ upToken[l] = 0
    /\ Change("link")
    /\ tokens < MaxToken /\ tokens' = tokens + 1
    /\ upToken' = [upToken EXCEPT ![l] = tokens + 1]
    /\ upEnabled' = [upEnabled EXCEPT ![l] = TRUE]
    /\ UNCHANGED <<db, people, pending, work, upUsers, faults>>

(* An existing row keeps everything but its token. *)
Register(l) ==
    /\ upToken[l] # 0 /\ token[l] # upToken[l]
    /\ token' = [token EXCEPT ![l] = upToken[l]]
    /\ UNCHANGED <<rule, mirror, people, pending, work, upstream, tokens, changes, faults>>

DeleteRow(l) ==
    /\ token' = [token EXCEPT ![l] = 0]
    /\ rule' = [rule EXCEPT ![l] = "none"]
    /\ mirror' = [mirror EXCEPT ![l] = {}]

(* For the token of the link that was deleted. *)
DeleteConfig(l) ==
    /\ token[l] # 0 /\ token[l] # upToken[l]
    /\ DeleteRow(l)
    /\ UNCHANGED <<people, pending, work, upstream, tokens, changes, faults>>

(* A new database into which only the birthdays are restored; RoleLogic is asked
   to register its links again, and admins to configure them. *)
Restore ==
    /\ Change("restore")
    /\ token' = [l \in Links |-> 0]
    /\ rule' = [l \in Links |-> "none"]
    /\ mirror' = [l \in Links |-> {}]
    /\ pending' = NoJobs
    /\ work' = [w \in Workers |-> Idle]
    /\ UNCHANGED <<people, upstream, tokens, faults>>

-----------------------------------------------------------------------------
(* Steps of a worker.                                                      *)

At(w, step) == work[w].step = step
Become(w, state) == work' = [work EXCEPT ![w] = state]

(* The job ends: nothing more is to be done, or nothing can be. *)
Done(w) == Become(w, Idle) /\ UNCHANGED pending

(* JobError::Retry: the job runs again, or is dead on its last attempt. *)
Retry(w) ==
    /\ Become(w, Idle)
    /\ Put(work[w].job) \/ UNCHANGED pending

(* Mistake: every 403 taken for a paused link. *)
AnswerAny403(l, t) ==
    IF upToken[l] = t /\ upEnabled[l] THEN "ok" ELSE "disabled"

(* Mistake: a link that is toggled off taken for one that is gone. *)
AnswerOffIsGone(l, t) ==
    IF upToken[l] = t /\ upEnabled[l] THEN "ok" ELSE "gone"

(* How RoleLogic answers a call with token t (link_state_error). *)
Answer(l, t) ==
    IF upToken[l] # t THEN "gone" ELSE IF upEnabled[l] THEN "ok" ELSE "disabled"

(* delete_orphan_role_link: by guild and role, whatever the row's token. *)
DeleteOrphan(l) ==
    \/ DeleteRow(l) /\ UNCHANGED faults
    \/ Fault("lost_write") /\ UNCHANGED db

(* A job whose lock expires under w, or whose verdict will be lost, is run again. *)
Claim(w, job) ==
    /\ At(w, "idle") /\ pending[job] > 0
    /\ \/ pending' = [pending EXCEPT ![job] = @ - 1] /\ UNCHANGED faults
       \/ Fault("rerun") /\ UNCHANGED pending
    /\ Become(w, [step |-> IF job.kind = "player_sync" THEN "guilds" ELSE "link",
                  job |-> job])
    /\ UNCHANGED <<db, people, upstream, tokens, changes>>

(* The process dies; the reaper makes its job pending again. *)
Crash(w) ==
    /\ ~At(w, "idle")
    /\ Fault("crash")
    /\ Become(w, Idle)
    /\ Put(work[w].job)
    /\ UNCHANGED <<db, people, upstream, tokens, changes>>

(* w moves to `state` as it inserts mirror rows for the members S.  A transaction
   of another worker that is past its DELETE does not see the new rows: they are
   not among the ones it deletes. *)
InsertRows(w, state, l, S) ==
    work' = [v \in Workers |->
               IF v = w THEN state
               ELSE IF At(v, "insert") /\ work[v].job.link = l
                    THEN [work[v] EXCEPT !.deleted = @ \ S]
                    ELSE work[v]]

(* Reads leave everything but the worker's own state alone. *)
ReadOnly == UNCHANGED <<db, people, upstream, tokens, changes>>

-----------------------------------------------------------------------------
(* sync_for_player                                                         *)

(* Mistake: whoever saved a birthday is taken for a member of the guild. *)
PlayerGuildsUnasked(w) ==
    /\ At(w, "guilds")
    /\ \/ Become(w, [work[w] EXCEPT !.step = "links"]) /\ UNCHANGED <<pending, faults>>
       \/ Fault("gateway") /\ Retry(w)
    /\ ReadOnly

PlayerGuilds(w) ==
    /\ At(w, "guilds")
    /\ \/ /\ work[w].job.who \in members
          /\ Become(w, [work[w] EXCEPT !.step = "links"])
          /\ UNCHANGED <<pending, faults>>
       \/ work[w].job.who \notin members /\ Done(w) /\ UNCHANGED faults
       \/ Fault("gateway") /\ Retry(w)
    /\ ReadOnly

PlayerLinks(w) ==
    LET rows == {l \in Links : token[l] # 0}
    IN  /\ At(w, "links")
        /\ \/ rows = {} /\ Done(w)
           \/ /\ rows # {}
              /\ Become(w, [step |-> "birthday", job |-> work[w].job,
                            tokens |-> [l \in rows |-> token[l]],
                            trees |-> [l \in rows |-> rule[l]]])
              /\ UNCHANGED pending
        /\ ReadOnly /\ UNCHANGED faults

PlayerBirthday(w) ==
    /\ At(w, "birthday")
    /\ Become(w, [step |-> "existing", job |-> work[w].job, tokens |-> work[w].tokens,
                  wants |-> {l \in DOMAIN work[w].trees :
                                Qualifies(work[w].trees[l], work[w].job.who)}])
    /\ ReadOnly /\ UNCHANGED <<pending, faults>>

(* The diff against the mirror: an Action::Add or Action::Remove for a link. *)
PlayerDiff(w) ==
    LET wants == work[w].wants
        existing == {l \in DOMAIN work[w].tokens : work[w].job.who \in mirror[l]}
        Todo(op, S) == {[op |-> op, link |-> l, token |-> work[w].tokens[l],
                         called |-> FALSE] : l \in S}
        todo == Todo("add", wants \ existing) \union Todo("remove", existing \ wants)
    IN  /\ At(w, "existing")
        /\ \/ todo = {} /\ Done(w)
           \/ /\ todo # {}
              /\ Become(w, [step |-> "actions", job |-> work[w].job, todo |-> todo])
              /\ UNCHANGED pending
        /\ ReadOnly /\ UNCHANGED faults

(* One of the concurrent actions ends; the job ends with the last of them. *)
Finished(w, a) ==
    LET rest == work[w].todo \ {a}
    IN  IF rest = {} THEN Idle ELSE [work[w] EXCEPT !.todo = rest]

Finish(w, a) == Become(w, Finished(w, a)) /\ UNCHANGED pending

After(a, m) ==
    IF a.op = "add" THEN upUsers[a.link] \union {m} ELSE upUsers[a.link] \ {m}

Full(a, m) ==
    a.op = "add" /\ m \notin upUsers[a.link] /\ Cardinality(upUsers[a.link]) >= Limit

(* add_user, remove_user: every error ends the action and none fails the job. *)
PlayerCall(w, a) ==
    LET m == work[w].job.who
        l == a.link
        answer == Answer(l, a.token)
        apply == upUsers' = [upUsers EXCEPT ![l] = After(a, m)]
    IN  /\ At(w, "actions") /\ a \in work[w].todo /\ ~a.called
        /\ \/ answer = "gone" /\ DeleteOrphan(l) /\ Finish(w, a) /\ UNCHANGED upUsers
           \/ /\ answer = "disabled" \/ (answer = "ok" /\ Full(a, m))
              /\ Finish(w, a) /\ UNCHANGED <<db, upUsers, faults>>
           \/ /\ answer = "ok" /\ ~Full(a, m) /\ apply
              /\ Become(w, [work[w] EXCEPT !.todo = (work[w].todo \ {a})
                               \union {[a EXCEPT !.called = TRUE]}])
              /\ UNCHANGED <<db, pending, faults>>
           \/ Fault("upstream") /\ Finish(w, a) /\ UNCHANGED <<db, upUsers>>
           \/ /\ answer = "ok" /\ ~Full(a, m)
              /\ Fault("lost_answer") /\ apply /\ Finish(w, a) /\ UNCHANGED db
        /\ UNCHANGED <<people, upToken, upEnabled, tokens, changes>>

(* Mistake: only an addition is written to the mirror. *)
PlayerMirrorAdds(w, a) ==
    LET m == work[w].job.who
        l == a.link
        add == a.op = "add" /\ token[l] # 0
    IN  /\ At(w, "actions") /\ a \in work[w].todo /\ a.called
        /\ mirror' = [mirror EXCEPT ![l] = IF add THEN @ \union {m} ELSE @]
        /\ InsertRows(w, Finished(w, a), l, IF add THEN {m} \ mirror[l] ELSE {})
        /\ UNCHANGED <<token, rule, pending, people, upstream, tokens, changes, faults>>

(* The mirror follows, or its statement fails, unnoticed: the foreign key, say,
   refuses a row for a link that was deleted. *)
PlayerMirror(w, a) ==
    LET m == work[w].job.who
        l == a.link
    IN  /\ At(w, "actions") /\ a \in work[w].todo /\ a.called
        /\ \/ /\ a.op = "add" /\ token[l] # 0
              /\ mirror' = [mirror EXCEPT ![l] = @ \union {m}]
              /\ InsertRows(w, Finished(w, a), l, {m} \ mirror[l]) /\ UNCHANGED faults
           \/ a.op = "add" /\ token[l] = 0 /\ Finish(w, a) /\ UNCHANGED <<mirror, faults>>
           \/ /\ a.op = "remove" /\ Finish(w, a)
              /\ mirror' = [mirror EXCEPT ![l] = @ \ {m}] /\ UNCHANGED faults
           \/ Fault("lost_write") /\ Finish(w, a) /\ UNCHANGED mirror
        /\ UNCHANGED <<token, rule, pending, people, upstream, tokens, changes>>

-----------------------------------------------------------------------------
(* sync_for_role_link                                                      *)

LinkOf(w) == work[w].job.link

ConfigLink(w) ==
    LET l == LinkOf(w)
    IN  /\ At(w, "link")
        /\ \/ token[l] = 0 /\ Done(w)
           \/ /\ token[l] # 0
              /\ Become(w, [step |-> IF rule[l] = "none" THEN "drain" ELSE "members",
                            job |-> work[w].job, token |-> token[l], tree |-> rule[l],
                            list |-> {}])
              /\ UNCHANGED pending
        /\ ReadOnly /\ UNCHANGED faults

(* Mistake: no answer from the gateway taken for no members. *)
ConfigMembersOrNone(w) ==
    /\ At(w, "members")
    /\ \E seen \in {members, {}} :
          /\ (seen = members /\ UNCHANGED faults) \/ Fault("gateway")
          /\ Become(w, [work[w] EXCEPT
                           !.step = IF seen = {} THEN "drain" ELSE "info", !.list = seen])
    /\ ReadOnly /\ UNCHANGED pending

ConfigMembers(w) ==
    /\ At(w, "members")
    /\ \/ /\ Become(w, [work[w] EXCEPT
                           !.step = IF members = {} THEN "drain" ELSE "info",
                           !.list = members])
          /\ UNCHANGED <<pending, faults>>
       \/ Fault("gateway") /\ Retry(w)
    /\ ReadOnly

ConfigUserInfo(w) ==
    LET l == LinkOf(w)
        answer == Answer(l, work[w].token)
    IN  /\ At(w, "info")
        /\ \/ answer = "ok" /\ Become(w, [work[w] EXCEPT !.step = "query"])
              /\ UNCHANGED <<db, pending, faults>>
           \/ answer = "gone" /\ DeleteOrphan(l) /\ Done(w)
           \/ answer = "disabled" /\ Done(w) /\ UNCHANGED <<db, faults>>
           \/ Fault("upstream") /\ Retry(w) /\ UNCHANGED db
        /\ UNCHANGED <<people, upstream, tokens, changes>>

(* Mistake: the query is of all birthdays, not of the guild's. *)
ConfigQueryAll(w) ==
    /\ At(w, "query")
    /\ Become(w, [work[w] EXCEPT !.step = "compare",
          !.list = FirstOf({m \in saved : Qualifies(work[w].tree, m)})])
    /\ ReadOnly /\ UNCHANGED <<pending, faults>>

ConfigQuery(w) ==
    /\ At(w, "query")
    /\ Become(w, [work[w] EXCEPT !.step = "compare",
          !.list = FirstOf({m \in work[w].list : Qualifies(work[w].tree, m)})])
    /\ ReadOnly /\ UNCHANGED <<pending, faults>>

(* The cost guard: nothing is sent when the mirror already has that list. *)
ConfigCompare(w) ==
    /\ At(w, "compare")
    /\ \/ mirror[LinkOf(w)] = work[w].list /\ Done(w)
       \/ /\ mirror[LinkOf(w)] # work[w].list
          /\ Become(w, [work[w] EXCEPT !.step = "put"])
          /\ UNCHANGED pending
    /\ ReadOnly /\ UNCHANGED faults

(* Mistake: nothing is done for a link that grants to nobody. *)
DrainNever(w) == At(w, "drain") /\ Done(w) /\ ReadOnly /\ UNCHANGED faults

(* drain_to_empty has a guard of its own. *)
DrainCheck(w) ==
    /\ At(w, "drain")
    /\ \/ mirror[LinkOf(w)] = {} /\ Done(w)
       \/ /\ mirror[LinkOf(w)] # {}
          /\ Become(w, [work[w] EXCEPT !.step = "put", !.list = {}])
          /\ UNCHANGED pending
    /\ ReadOnly /\ UNCHANGED faults

(* replace_users, or a chunked upload and its commit: the list is swapped in
   atomically, and nothing before the commit shows. *)
Upload(l, users) == upUsers' = [upUsers EXCEPT ![l] = users]

(* upload_applied; a held removal is skipped until the owner has confirmed it. *)
ConfigPut(w) ==
    LET l == LinkOf(w)
        answer == Answer(l, work[w].token)
        apply == Upload(l, work[w].list)
    IN  /\ At(w, "put")
        /\ \/ answer = "ok" /\ apply /\ UNCHANGED <<db, pending, faults>>
              /\ Become(w, [work[w] EXCEPT !.step = "delete"])
           \/ answer = "gone" /\ DeleteOrphan(l) /\ Done(w) /\ UNCHANGED upUsers
           \/ answer = "disabled" /\ Done(w) /\ UNCHANGED <<db, upUsers, faults>>
           \/ /\ answer = "ok" /\ ~(upUsers[l] \subseteq work[w].list)
              /\ Fault("held") /\ Done(w) /\ UNCHANGED <<db, upUsers>>
           \/ Fault("upstream") /\ Retry(w) /\ UNCHANGED <<db, upUsers>>
           \/ answer = "ok" /\ Fault("lost_answer") /\ apply /\ Retry(w) /\ UNCHANGED db
        /\ UNCHANGED <<people, upToken, upEnabled, tokens, changes>>

(* Mistake: a drained link keeps its rows. *)
ConfigDeleteLess(w) ==
    /\ At(w, "delete")
    /\ IF work[w].list = {} THEN Done(w)
       ELSE /\ Become(w, [step |-> "insert", job |-> work[w].job, list |-> work[w].list,
                          deleted |-> mirror[LinkOf(w)]])
            /\ UNCHANGED pending
    /\ UNCHANGED <<db, people, upstream, tokens, changes, faults>>

(* DELETE FROM role_assignments: in the transaction of sync_for_role_link it
   takes the rows it can see and leaves those inserted after its snapshot;
   for an empty list it is the only statement. *)
ConfigDelete(w) ==
    LET l == LinkOf(w)
    IN  /\ At(w, "delete")
        /\ \/ /\ work[w].list # {}
              /\ Become(w, [step |-> "insert", job |-> work[w].job, list |-> work[w].list,
                            deleted |-> mirror[l]])
              /\ UNCHANGED <<mirror, pending, faults>>
           \/ /\ work[w].list = {}
              /\ mirror' = [mirror EXCEPT ![l] = {}] /\ Done(w) /\ UNCHANGED faults
           \/ Fault("lost_write") /\ Retry(w) /\ UNCHANGED mirror
        /\ UNCHANGED <<token, rule, people, upstream, tokens, changes>>

(* INSERT and COMMIT under READ COMMITTED: a row another sync inserted in the
   meantime violates the primary key, a deleted link the foreign key, and the
   transaction rolls back. *)
ConfigInsert(w) ==
    LET l == LinkOf(w)
        kept == mirror[l] \ work[w].deleted
        refused == token[l] = 0 \/ kept \intersect work[w].list # {}
    IN  /\ At(w, "insert")
        /\ \/ /\ ~refused
              /\ mirror' = [mirror EXCEPT ![l] = kept \union work[w].list]
              /\ InsertRows(w, Idle, l, work[w].list) /\ UNCHANGED <<pending, faults>>
           \/ refused /\ Retry(w) /\ UNCHANGED <<mirror, faults>>
           \/ Fault("lost_write") /\ Retry(w) /\ UNCHANGED mirror
        /\ UNCHANGED <<token, rule, people, upstream, tokens, changes>>

-----------------------------------------------------------------------------
World ==
    \/ \E m \in Members : SaveBirthday(m) \/ Unlink(m) \/ Calendar(m) \/ Membership(m)
    \/ \E l \in Links :
          \/ \E r \in Rules : SaveRule(l, r)
          \/ Toggle(l) \/ UpstreamDelete(l) \/ UpstreamCreate(l)
          \/ Register(l) \/ DeleteConfig(l)
    \/ Restore

Step(w) ==
    \/ PlayerGuilds(w) \/ PlayerLinks(w) \/ PlayerBirthday(w) \/ PlayerDiff(w)
    \/ At(w, "actions") /\ \E a \in work[w].todo : PlayerCall(w, a) \/ PlayerMirror(w, a)
    \/ ConfigLink(w) \/ ConfigMembers(w) \/ ConfigUserInfo(w) \/ ConfigQuery(w)
    \/ ConfigCompare(w) \/ DrainCheck(w) \/ ConfigPut(w) \/ ConfigDelete(w) \/ ConfigInsert(w)

Next ==
    \/ World
    \/ \E l \in Links : Tick(l)
    \/ \E w \in Workers, job \in Jobs : Claim(w, job)
    \/ \E w \in Workers : Step(w) \/ Crash(w)

Spec == Init /\ [][Next]_vars

(* Every call of a worker returns or times out; the tick comes again and again;
   ORDER BY id keeps a pending job from being overtaken for ever; RoleLogic
   registers the links it creates. *)
Fairness ==
    /\ \A w \in Workers : WF_vars(Step(w))
    /\ \A l \in Links : WF_vars(Tick(l)) /\ WF_vars(Register(l))
    /\ \A job \in Jobs : SF_vars(\E w \in Workers : Claim(w, job))

FairSpec == Spec /\ Fairness

-----------------------------------------------------------------------------
PlayerJobs == {PlayerSync(m) : m \in Members}
ConfigJobs == {ConfigSync(l) : l \in Links}
Actions == [op : {"add", "remove"}, link : Links, token : 1..MaxToken, called : BOOLEAN]

(* What a worker holds at each step. *)
Looking == [step : {"guilds", "links"}, job : PlayerJobs]
Judging(R) == [step : {"birthday"}, job : PlayerJobs, tokens : [R -> 1..MaxToken],
               trees : [R -> Rules]]
Comparing(R) == [step : {"existing"}, job : PlayerJobs, tokens : [R -> 1..MaxToken],
                 wants : SUBSET R]
Acting == [step : {"actions"}, job : PlayerJobs, todo : SUBSET Actions]
Finding == [step : {"link"}, job : ConfigJobs]
Listing == [step : {"drain", "members", "info", "query", "compare", "put", "delete"},
            job : ConfigJobs, token : 1..MaxToken, tree : Rules, list : SUBSET Members]
Inserting == [step : {"insert"}, job : ConfigJobs, list : SUBSET Members,
              deleted : SUBSET Members]
Work ==
    {Idle} \union Looking \union Acting \union Finding \union Listing \union Inserting
    \union (UNION {Judging(R) \union Comparing(R) : R \in SUBSET Links})

(* Type invariant. *)
TypeOK ==
    /\ token \in [Links -> 0..MaxToken]
    /\ rule \in [Links -> Rules]
    /\ mirror \in [Links -> SUBSET Members]
    /\ saved \subseteq Members /\ matching \subseteq saved /\ members \subseteq Members
    /\ pending \in [Jobs -> Nat]
    /\ work \in [Workers -> Work]
    /\ upToken \in [Links -> 0..MaxToken]
    /\ upUsers \in [Links -> SUBSET Members]
    /\ upEnabled \in [Links -> BOOLEAN]
    /\ tokens \in 1..MaxToken /\ changes \in 0..MaxChanges /\ faults \in 0..MaxFaults

(* Whom the link should grant its role to now. *)
Target(l) == FirstOf({m \in members : Qualifies(rule[l], m)})

(* The role link is registered here with the token RoleLogic accepts. *)
Served(l) == token[l] # 0 /\ token[l] = upToken[l] /\ upEnabled[l]

(* Tick after tick the mirror is brought to the list the rule asks for, with
   concurrent workers and whatever fails on the way. *)
MirrorConverges == \A l \in Links : <>[](Served(l) => mirror[l] = Target(l))

(* OPERATIONS.md: "role_assignments is a rebuildable mirror, [...] restoring
   `birthdays` + a tick is sufficient to reconverge"; what counts is who holds the
   role in the end. *)
RestoreReconverges == \A l \in Links : <>[](Served(l) => upUsers[l] = Target(l))

(* templates/verify.html, before /verify/unlink: "Any birthday roles it gave you
   will be taken away". *)
UnlinkTakesRolesAway ==
    \A m \in Members, l \in Links :
        m \notin saved ~> m \in saved \/ ~Served(l) \/ m \notin upUsers[l]

(* OPERATIONS.md: a link deleted upstream while the plugin was offline needs no
   action; as long as there is anyone to grant it to, its row goes away. *)
OrphanRemoved ==
    \A l \in Links : <>[](upToken[l] = 0 /\ rule[l] # "none" /\ members # {} => token[l] = 0)
=============================================================================
