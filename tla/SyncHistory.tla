---------------------------- MODULE SyncHistory ----------------------------
(***************************************************************************)
(* Sync with a memory of what was true while a worker ran its job: who was *)
(* entitled to a role all along, to say what a job may never take away;    *)
(* what was true at some time, to say what it may never give; and what     *)
(* nobody else has touched, to say what it achieves.                       *)
(***************************************************************************)
EXTENDS Sync

VARIABLES
    steady,    \* steady[w][l]: entitled to l, by one and the same rule, ever
               \* since w claimed its job
    seen,      \* seen[w]: what has been true at some time since
    calm,      \* calm[w]: the links that nothing but w's own steps touched since,
               \* if none of them failed
    exact      \* exact[w]: the links whose mirror was RoleLogic's list then

hvars == <<vars, steady, seen, calm, exact>>

Nothing == [members |-> {}, saved |-> {}, matching |-> {}, rules |-> [l \in Links |-> {}],
            tokens |-> [l \in Links |-> {}]]

HInit ==
    /\ Init
    /\ steady = [w \in Workers |-> [l \in Links |-> {}]]
    /\ seen = [w \in Workers |-> Nothing]
    /\ calm = [w \in Workers |-> Links]
    /\ exact = [w \in Workers |-> {}]

(* A step of w that does not fail.  Nobody else changes what w has read but the
   snapshot of its DELETE. *)
Own(w) == work'[w] # work[w] /\ ~At(w, "insert") /\ faults' = faults

(* What a job for l goes by is as it was. *)
Same(l) ==
    /\ UNCHANGED people
    /\ token'[l] = token[l] /\ rule'[l] = rule[l] /\ mirror'[l] = mirror[l]
    /\ upToken'[l] = upToken[l] /\ upUsers'[l] = upUsers[l] /\ upEnabled'[l] = upEnabled[l]

Remember ==
    /\ steady' = [w \in Workers |-> [l \in Links |->
                     IF At(w, "idle")' \/ rule'[l] # rule[l] THEN {}
                     ELSE IF At(w, "idle") THEN Target(l)'
                     ELSE steady[w][l] \intersect Target(l)']]
    /\ seen' = [w \in Workers |->
                   IF At(w, "idle")' THEN Nothing
                   ELSE [members |-> seen[w].members \union members',
                         saved |-> seen[w].saved \union saved',
                         matching |-> seen[w].matching \union matching',
                         rules |-> [l \in Links |-> seen[w].rules[l] \union {rule'[l]}],
                         tokens |-> [l \in Links |-> seen[w].tokens[l] \union {token'[l]}]]]
    /\ calm' = [w \in Workers |->
                   IF At(w, "idle") \/ At(w, "idle")' THEN Links
                   ELSE {l \in calm[w] : Own(w) \/ (work'[w] = work[w] /\ Same(l))}]
    /\ exact' = [w \in Workers |->
                    IF At(w, "idle")' THEN {}
                    ELSE IF At(w, "idle") THEN {l \in Links : mirror'[l] = upUsers'[l]}
                    ELSE exact[w]]

HNext == Next /\ Remember

HSpec == HInit /\ [][HNext]_hvars

-----------------------------------------------------------------------------
(* Who is steady is entitled now, by the rule that a worker has read as well, and
   is in what it has read of the members and in the list it has made of them; a
   drain is of a link that granted to nobody, and a removal of somebody who was not
   entitled. *)
Holds(w, l) ==
    LET steadily == steady[w][l]
        current == steadily # {} => work[w].tree = rule[l]
    IN  /\ steadily \subseteq Target(l)
        /\ (At(w, "idle") \/ (At(w, "drain") /\ l = LinkOf(w))) => steadily = {}
        /\ At(w, "birthday") /\ l \in DOMAIN work[w].trees /\ work[w].job.who \in steadily
              => work[w].trees[l] = rule[l]
        /\ At(w, "existing") /\ l \in DOMAIN work[w].tokens /\ work[w].job.who \in steadily
              => l \in work[w].wants
        /\ At(w, "actions") /\ work[w].job.who \in steadily
              => \A a \in work[w].todo : a.link = l => a.op = "add"
        /\ At(w, "members") /\ l = LinkOf(w) => current
        /\ work[w].step \in {"info", "query"} /\ l = LinkOf(w)
              => current /\ steadily \subseteq work[w].list
        /\ work[w].step \in {"compare", "put"} /\ l = LinkOf(w)
              => steadily \subseteq work[w].list

SteadyInv == \A w \in Workers, l \in Links : Holds(w, l)

(* sync.rs, Convention 40: "we never clear a role on a transient lookup
   failure".  However lookups, calls and writes fail, and whatever else changes
   between the reads of a job, the job takes no role from a member who was
   entitled to it, by a rule that stayed what it is, from the moment the job was
   claimed; as long as user_limit cuts nobody off. *)
SteadyKeepRole ==
    [][\A w \in Workers, l \in Links :
          work'[w] # work[w] => upUsers[l] \intersect steady[w][l] \subseteq upUsers'[l]]_hvars

-----------------------------------------------------------------------------
(* Since w claimed its job, m was in the guild, and had a birthday that satisfied
   a rule l had: if not all at the same time. *)
Grounded(w, l, m) ==
    /\ m \in seen[w].members
    /\ \/ "any" \in seen[w].rules[l] /\ m \in seen[w].saved
       \/ "rule" \in seen[w].rules[l] /\ m \in seen[w].matching

(* What a worker has read was true since it claimed its job, and whom it is about
   to grant a role is grounded. *)
Read(w) ==
    /\ At(w, "idle") => seen[w] = Nothing
    /\ ~At(w, "idle") =>
          /\ members \subseteq seen[w].members /\ saved \subseteq seen[w].saved
          /\ matching \subseteq seen[w].matching
          /\ \A l \in Links : rule[l] \in seen[w].rules[l]
    /\ work[w].step \in {"links", "birthday", "existing"} => work[w].job.who \in seen[w].members
    /\ At(w, "birthday") =>
          \A l \in DOMAIN work[w].trees : work[w].trees[l] \in seen[w].rules[l]
    /\ At(w, "existing") => \A l \in work[w].wants : Grounded(w, l, work[w].job.who)
    /\ At(w, "actions") =>
          \A a \in work[w].todo : a.op = "add" => Grounded(w, a.link, work[w].job.who)
    /\ work[w].step \in {"members", "info", "query"} => work[w].tree \in seen[w].rules[LinkOf(w)]
    /\ work[w].step \in {"info", "query"} => work[w].list \subseteq seen[w].members
    /\ work[w].step \in {"compare", "put"} =>
          \A m \in work[w].list : Grounded(w, LinkOf(w), m)

(* The token of each of its calls is one that the row has had since. *)
Presented(w) ==
    /\ ~At(w, "idle") => \A l \in Links : token[l] \in seen[w].tokens[l]
    /\ work[w].step \in {"birthday", "existing"} =>
          \A l \in DOMAIN work[w].tokens : work[w].tokens[l] \in seen[w].tokens[l]
    /\ At(w, "actions") => \A a \in work[w].todo : a.token \in seen[w].tokens[a.link]
    /\ work[w].step \in {"drain", "members", "info", "query", "compare", "put"}
          => work[w].token \in seen[w].tokens[LinkOf(w)]

ReadInv == \A w \in Workers : Read(w) /\ Presented(w)

(* A job evaluates the rule it read first against facts it read later (sync.rs:
   sync_for_role_link and sync_for_player hold no lock across their reads), and
   its calls come later still.  Whatever changed in between, and whatever failed
   and was retried: a role is only ever granted by a job during which the member
   was in the guild and satisfied a rule the link had.  No answer of an earlier
   job, and nothing but a job, grants one. *)
NoGroundlessGrant ==
    [][\A l \in Links : \A m \in upUsers'[l] \ upUsers[l] :
          \E w \in Workers : work'[w] # work[w] /\ Grounded(w, l, m)]_hvars

(* rolelogic.rs: a link that was toggled off is "NOT a deletion [...]: leave the link
   + config intact".  A job deletes a row by guild and role, after a call with a
   token it read earlier.  Whatever was registered, toggled and deleted in between:
   a row only goes when RoleLogic accepts its token no more, or not another one that
   the row has had since the job was claimed; or with the whole database. *)
LinksAreNotForgotten ==
    [][\A l \in Links : token[l] # 0 /\ token'[l] = 0 /\ UNCHANGED changes =>
          \/ token[l] # upToken[l]
          \/ \E w \in Workers : /\ work'[w] # work[w]
                               /\ seen[w].tokens[l] \ {0, upToken[l]} # {}]_hvars

-----------------------------------------------------------------------------
(* The users of l are those whom the job is to leave there: all that the rule grants
   to, or the one member as the rule has it, unless user_limit is reached. *)
Brought(job, l, users) ==
    /\ job = ConfigSync(l) => users = Target(l)
    /\ \A m \in members : job = PlayerSync(m) =>
          \/ m \in users <=> Qualifies(rule[l], m)
          \/ /\ Qualifies(rule[l], m) /\ m \notin upUsers[l]
             /\ Cardinality(upUsers[l]) >= Limit

(* What w has read of a link that nobody else touches is as it is now, and what it
   has already done there, or found to be done, is what its job is for. *)
UpToDate(w, l) ==
    LET who == work[w].job.who
        todo == {a \in work[w].todo : a.link = l}
    IN  /\ work[w].step \notin {"actions", "delete", "insert"} /\ l \in exact[w]
              => mirror[l] = upUsers[l]
        /\ work[w].step \in {"links", "birthday", "existing", "actions"} => who \in members
        /\ At(w, "birthday") =>
              /\ l \in DOMAIN work[w].trees
              /\ work[w].trees[l] = rule[l] /\ work[w].tokens[l] = token[l]
        /\ At(w, "existing") =>
              /\ l \in DOMAIN work[w].tokens /\ work[w].tokens[l] = token[l]
              /\ l \in work[w].wants <=> Qualifies(rule[l], who)
        /\ At(w, "actions") =>
              /\ \A a \in todo :
                    /\ todo = {a} /\ a.token = token[l]
                    /\ a.op = "add" <=> Qualifies(rule[l], who)
                    /\ a.called => (a.op = "add" <=> who \in upUsers[l])
              /\ todo = {} =>
                    /\ Brought(work[w].job, l, mirror[l])
                    /\ l \in exact[w] => Brought(work[w].job, l, upUsers[l])
        /\ work[w].step \in {"drain", "members", "info", "query", "compare", "put"} /\ l = LinkOf(w)
              => work[w].token = token[l]
        /\ At(w, "drain") /\ l = LinkOf(w) => Target(l) = {}
        /\ work[w].step \in {"members", "info", "query"} /\ l = LinkOf(w)
              => work[w].tree = rule[l]
        /\ work[w].step \in {"info", "query"} => work[w].list = members
        /\ work[w].step \in {"compare", "put", "delete", "insert"} /\ l = LinkOf(w)
              => work[w].list = Target(l)
        /\ work[w].step \in {"delete", "insert"} /\ l = LinkOf(w) => upUsers[l] = Target(l)
        /\ At(w, "insert") /\ l = LinkOf(w) => work[w].deleted = mirror[l]

CalmInv == \A w \in Workers : \A l \in calm[w] : Served(l) => UpToDate(w, l)

(* OPERATIONS.md: "a tick is sufficient to reconverge".  A job that ends, and that
   neither a failure nor anybody else's writes to what it goes by have disturbed,
   leaves the mirror of the link as the rule asks for; and RoleLogic's list too, if
   the mirror was that list when the job was claimed. *)
UndisturbedJobsSettle ==
    [][\A w \in Workers, job \in Jobs :
          /\ ~At(w, "idle") /\ work[w].job = job
          /\ At(w, "idle")' /\ UNCHANGED <<faults, changes>>
          => \A l \in calm[w] : Served(l)' =>
                /\ Brought(job, l, mirror[l])'
                /\ l \in exact[w] => Brought(job, l, upUsers[l])']_hvars
=============================================================================
