------------------------- MODULE SyncHistoryProofs -------------------------
(***************************************************************************)
(* No job grants a role that nothing speaks for, and a job that nothing    *)
(* disturbs achieves what it is for: for any members, links, workers,      *)
(* limit, changes and failures.                                            *)
(***************************************************************************)
EXTENDS SyncProofs

USE DEF At

(* What the history has of a job that goes on, or begins. *)
LEMMA SeenNext ==
    ASSUME HNext, NEW w \in Workers, ~At(w, "idle")'
    PROVE  /\ seen'[w].members = seen[w].members \union members'
           /\ seen'[w].saved = seen[w].saved \union saved'
           /\ seen'[w].matching = seen[w].matching \union matching'
           /\ \A l \in Links : seen'[w].rules[l] = seen[w].rules[l] \union {rule'[l]}
           /\ \A l \in Links : seen'[w].tokens[l] = seen[w].tokens[l] \union {token'[l]}
BY DEF HNext, Remember

(* Nothing is forgotten while the job goes on. *)
LEMMA StaysGrounded ==
    ASSUME HNext, NEW w \in Workers, ~At(w, "idle")', NEW l \in Links, NEW m, Grounded(w, l, m)
    PROVE  Grounded(w, l, m)'
<1>1. /\ seen[w].members \subseteq seen'[w].members
      /\ seen[w].saved \subseteq seen'[w].saved
      /\ seen[w].matching \subseteq seen'[w].matching
      /\ seen[w].rules[l] \subseteq seen'[w].rules[l]
    BY SeenNext
<1> QED BY <1>1 DEF Grounded

(* Whom a rule grants to that was the link's grounds the grant. *)
LEMMA QualifiesGrounds ==
    ASSUME NEW w \in Workers, Read(w), ~At(w, "idle"), NEW l, NEW r, NEW m,
           r \in seen[w].rules[l], m \in seen[w].members, Qualifies(r, m)
    PROVE  Grounded(w, l, m)
BY DEF Read, Qualifies, Grounded

(* What Read says of every job, whatever it is doing. *)
Current(w) ==
    /\ At(w, "idle") => seen[w] = Nothing
    /\ ~At(w, "idle") =>
          /\ members \subseteq seen[w].members /\ saved \subseteq seen[w].saved
          /\ matching \subseteq seen[w].matching
          /\ \A l \in Links : rule[l] \in seen[w].rules[l]

(* It is true of every job as soon as it is claimed. *)
LEMMA CurrentNext ==
    ASSUME HNext, NEW w \in Workers
    PROVE  Current(w)'
<1>1. CASE At(w, "idle")' BY <1>1 DEF HNext, Remember, Current
<1>2. CASE ~At(w, "idle")' BY <1>2, SeenNext DEF Current
<1> QED BY <1>1, <1>2

(* A worker that did nothing, whose snapshot lost rows, or whose job has ended. *)
LEMMA UndisturbedReads ==
    ASSUME TypeOK, HNext, NEW w \in Workers, Read(w),
           work'[w] = work[w] \/ At(w, "insert")' \/ At(w, "idle")'
    PROVE  Read(w)'
<1>1. Current(w)' BY CurrentNext
<1>2. CASE At(w, "insert")' \/ At(w, "idle")' BY <1>1, <1>2 DEF Read, Current
<1>3. CASE work'[w] = work[w] /\ ~At(w, "idle")
    <2>1. /\ seen[w].members \subseteq seen'[w].members
          /\ \A l \in Links : seen[w].rules[l] \subseteq seen'[w].rules[l]
        BY <1>3, SeenNext
    <2>2. \A l \in Links : \A m : Grounded(w, l, m) => Grounded(w, l, m)'
        BY <1>3, StaysGrounded
    <2>3. work[w].step \in {"links", "birthday", "existing"}
              => work'[w].job.who \in seen'[w].members
        BY <1>3, <2>1 DEF Read
    <2>4. At(w, "birthday") =>
              \A l \in DOMAIN work'[w].trees : work'[w].trees[l] \in seen'[w].rules[l]
        <3> SUFFICES ASSUME At(w, "birthday"), NEW l \in DOMAIN work[w].trees
                     PROVE  work[w].trees[l] \in seen'[w].rules[l]
            BY <1>3
        <3>1. PICK R \in SUBSET Links : work[w] \in Judging(R) BY Shapes
        <3>2. l \in Links BY <3>1 DEF Judging
        <3> QED BY <2>1, <3>2 DEF Read
    <2>5. At(w, "existing") => \A l \in work'[w].wants : Grounded(w, l, work[w].job.who)'
        <3> SUFFICES ASSUME At(w, "existing"), NEW l \in work[w].wants
                     PROVE  Grounded(w, l, work[w].job.who)'
            BY <1>3
        <3>1. PICK R \in SUBSET Links : work[w] \in Comparing(R) BY Shapes
        <3>2. l \in Links BY <3>1 DEF Comparing
        <3> QED BY <1>3, <2>2, <3>2 DEF Read
    <2>6. At(w, "actions") =>
              \A a \in work'[w].todo : a.op = "add" => Grounded(w, a.link, work[w].job.who)'
        <3> SUFFICES ASSUME At(w, "actions"), NEW a \in work[w].todo, a.op = "add"
                     PROVE  Grounded(w, a.link, work[w].job.who)'
            BY <1>3
        <3>1. a.link \in Links BY FinishedType DEF Actions
        <3> QED BY <1>3, <2>2, <3>1 DEF Read
    <2>7. work[w].step \in {"members", "info", "query", "compare", "put"} => LinkOf(w) \in Links
        BY ListingType
    <2>8. work[w].step \in {"members", "info", "query"} => work'[w].tree \in seen'[w].rules[LinkOf(w)']
        BY <1>3, <2>1, <2>7 DEF Read, LinkOf
    <2>9. work[w].step \in {"info", "query"} => work'[w].list \subseteq seen'[w].members
        BY <1>3, <2>1 DEF Read
    <2>10. work[w].step \in {"compare", "put"} =>
              \A m \in work'[w].list : Grounded(w, LinkOf(w), m)'
        <3> SUFFICES ASSUME work[w].step \in {"compare", "put"}, NEW m \in work[w].list
                     PROVE  Grounded(w, LinkOf(w), m)'
            BY <1>3
        <3> DEFINE l == LinkOf(w)
        <3>1. l \in Links /\ l' = l BY <1>3, <2>7 DEF LinkOf
        <3>2. Grounded(w, l, m) BY DEF Read
        <3> HIDE DEF l
        <3>3. \A k \in Links : Grounded(w, k, m) => Grounded(w, k, m)' BY <2>2
        <3> QED BY <3>1, <3>2, <3>3 DEF Grounded, l
    <2> QED
        BY <1>1, <1>3, <2>3, <2>4, <2>5, <2>6, <2>8, <2>9, <2>10 DEF Read, Current
<1> QED BY <1>2, <1>3, <1>1 DEF Read, Current, Idle

(* sync_for_player: it goes on for a member of the guild, with the rules it has
   read, and adds whom they grant to. *)
LEMMA PlayerReadsGround ==
    ASSUME TypeOK, HNext, NEW w \in Workers, Read(w),
           \/ PlayerGuilds(w) \/ PlayerLinks(w) \/ PlayerBirthday(w) \/ PlayerDiff(w)
           \/ At(w, "actions") /\ \E a \in work[w].todo : PlayerCall(w, a) \/ PlayerMirror(w, a)
    PROVE  Read(w)'
<1> DEFINE who == work[w].job.who
<1>1. Current(w)' BY CurrentNext
<1>2. CASE At(w, "idle")' BY <1>2, UndisturbedReads
<1>3. ~At(w, "idle")
    BY DEF PlayerGuilds, PlayerLinks, PlayerBirthday, PlayerDiff
<1>4. /\ ~At(w, "idle")' => seen[w].members \subseteq seen'[w].members
      /\ ~At(w, "idle")' => \A l \in Links : seen[w].rules[l] \subseteq seen'[w].rules[l]
      /\ ~At(w, "idle")' => \A l \in Links : \A m : Grounded(w, l, m) => Grounded(w, l, m)'
    BY SeenNext, StaysGrounded
<1>5. CASE PlayerGuilds(w) /\ ~At(w, "idle")'
    <2>1. work[w] \in Looking BY <1>5, Shapes DEF PlayerGuilds
    <2>2. work'[w] = [work[w] EXCEPT !.step = "links"] /\ who \in members
        BY <1>5 DEF PlayerGuilds, Done, Retry, Become, Idle, TypeOK
    <2>3. At(w, "links")' /\ work'[w].job.who = who BY <2>1, <2>2 DEF Looking
    <2>4. who \in seen'[w].members BY <1>3, <1>4, <1>5, <2>2 DEF Read
    <2> QED BY <1>1, <2>3, <2>4 DEF Read, Current
<1>6. CASE PlayerLinks(w) /\ ~At(w, "idle")'
    <2> DEFINE rows == {k \in Links : token[k] # 0}
    <2>1. work'[w] = [step |-> "birthday", job |-> work[w].job,
                      tokens |-> [k \in rows |-> token[k]], trees |-> [k \in rows |-> rule[k]]]
        BY <1>6 DEF PlayerLinks, Done, Become, Idle, TypeOK
    <2>2. At(w, "birthday")' /\ work'[w].trees = [k \in rows |-> rule[k]] /\ work'[w].job.who = who
        BY <2>1
    <2>3. who \in seen'[w].members BY <1>4, <1>6 DEF Read, PlayerLinks
    <2>4. \A l \in rows : rule[l] \in seen'[w].rules[l] BY <1>3, <1>4, <1>6 DEF Read
    <2> QED BY <1>1, <2>2, <2>3, <2>4 DEF Read, Current
<1>7. CASE PlayerBirthday(w)
    <2> DEFINE wants == {k \in DOMAIN work[w].trees : Qualifies(work[w].trees[k], who)}
    <2>1. PICK R \in SUBSET Links : work[w] \in Judging(R)
        BY <1>7, Shapes DEF PlayerBirthday
    <2>2. DOMAIN work[w].trees \subseteq Links BY <2>1 DEF Judging
    <2>3. work'[w] = [step |-> "existing", job |-> work[w].job, tokens |-> work[w].tokens,
                      wants |-> wants]
        BY <1>7 DEF PlayerBirthday, Become, TypeOK
    <2>4. At(w, "existing")' /\ work'[w].job.who = who /\ work'[w].wants = wants
        BY <2>3
    <2>5. who \in seen[w].members BY <1>7 DEF Read, PlayerBirthday
    <2>6. ASSUME NEW l \in wants PROVE l \in Links /\ Grounded(w, l, who)
        <3>1. work[w].trees[l] \in seen[w].rules[l] BY <1>7 DEF Read, PlayerBirthday
        <3> QED BY <1>3, <2>2, <2>5, <3>1, QualifiesGrounds
    <2>7. \A l \in wants : Grounded(w, l, who)' BY <1>4, <2>4, <2>6
    <2>8. who \in seen'[w].members BY <1>4, <2>4, <2>5
    <2> HIDE DEF wants
    <2> QED BY <1>1, <2>4, <2>7, <2>8 DEF Read, Current, Grounded
<1>8. CASE PlayerDiff(w) /\ ~At(w, "idle")'
    <2> DEFINE wants == work[w].wants
               existing == {k \in DOMAIN work[w].tokens : who \in mirror[k]}
               Todo(op, S) == {[op |-> op, link |-> k, token |-> work[w].tokens[k],
                                called |-> FALSE] : k \in S}
               todo == Todo("add", wants \ existing) \union Todo("remove", existing \ wants)
    <2> DEFINE x == [step |-> "actions", job |-> work[w].job, todo |-> todo]
    <2>0. Done(w) \/ Become(w, x) BY <1>8 DEF PlayerDiff
    <2>1. work'[w] = x
        <3> HIDE DEF x
        <3> QED BY <1>8, <2>0 DEF Done, Become, Idle, TypeOK
    <2>2. At(w, "actions")' /\ work'[w].job.who = who /\ work'[w].todo = todo
        <3> HIDE DEF todo
        <3> QED BY <2>1
    <2>3. ASSUME NEW a \in todo, a.op = "add" PROVE a.link \in wants
        <3>1. CASE a \in Todo("add", wants \ existing) BY <3>1
        <3>2. CASE a \in Todo("remove", existing \ wants) BY <2>3, <3>2
        <3> QED BY <3>1, <3>2
    <2>4. PICK R \in SUBSET Links : work[w] \in Comparing(R)
        BY <1>8, Shapes DEF PlayerDiff
    <2>5. ASSUME NEW a \in todo, a.op = "add" PROVE Grounded(w, a.link, who)'
        <3>1. a.link \in wants BY <2>3, <2>5
        <3>2. a.link \in Links BY <2>4, <3>1 DEF Comparing
        <3>3. Grounded(w, a.link, who) BY <1>8, <3>1 DEF Read, PlayerDiff
        <3> QED BY <1>4, <1>8, <2>2, <3>2, <3>3 DEF Grounded
    <2> HIDE DEF todo
    <2> QED BY <1>1, <2>2, <2>5 DEF Read, Current, Grounded
<1>9. CASE /\ At(w, "actions") /\ ~At(w, "idle")'
           /\ \E a \in work[w].todo : PlayerCall(w, a) \/ PlayerMirror(w, a)
    <2>1. PICK a \in work[w].todo : PlayerCall(w, a) \/ PlayerMirror(w, a) BY <1>9
    <2> DEFINE called == [work[w] EXCEPT !.todo = (work[w].todo \ {a}) \union {[a EXCEPT !.called = TRUE]}]
    <2>2. work[w] \in Acting /\ a \in Actions BY <1>9, Shapes, FinishedType
    <2>3. work'[w] = Finished(w, a) \/ work'[w] = called
        <3> HIDE DEF called
        <3>1. Finish(w, a) => work'[w] = Finished(w, a) BY DEF Finish, Become, TypeOK
        <3>2. Become(w, called) => work'[w] = called BY DEF Become, TypeOK
        <3>3. \A l, S : InsertRows(w, Finished(w, a), l, S) => work'[w] = Finished(w, a)
            BY DEF InsertRows
        <3>4. PlayerCall(w, a) => Finish(w, a) \/ Become(w, called) BY DEF PlayerCall, called
        <3>5. PlayerMirror(w, a) => Finish(w, a) \/ \E l, S : InsertRows(w, Finished(w, a), l, S)
            BY DEF PlayerMirror
        <3> QED BY <2>1, <3>1, <3>2, <3>3, <3>4, <3>5
    <2>4. /\ At(w, "actions")' /\ work'[w].job = work[w].job
          /\ \A b \in work'[w].todo : \E c \in work[w].todo : b.op = c.op /\ b.link = c.link
        <3>1. CASE work'[w] = called
            <4>1. work'[w].todo = (work[w].todo \ {a}) \union {[a EXCEPT !.called = TRUE]}
                BY <2>2, <3>1 DEF Acting
            <4>2. [a EXCEPT !.called = TRUE].op = a.op /\ [a EXCEPT !.called = TRUE].link = a.link
                BY <2>2 DEF Actions
            <4> QED BY <2>2, <3>1, <4>1, <4>2, <1>9 DEF Acting
        <3>2. CASE work'[w] = Finished(w, a)
            BY <1>9, <2>2, <3>2 DEF Finished, Acting, Idle
        <3> QED BY <2>3, <3>1, <3>2
    <2>5. ASSUME NEW b \in work'[w].todo, b.op = "add" PROVE Grounded(w, b.link, who)'
        <3>1. PICK c \in work[w].todo : b.op = c.op /\ b.link = c.link BY <2>4
        <3>2. c.link \in Links BY <1>9, FinishedType DEF Actions
        <3>3. Grounded(w, c.link, who) BY <1>9, <2>5, <3>1 DEF Read
        <3> QED BY <1>4, <1>9, <2>4, <3>1, <3>2, <3>3 DEF Grounded
    <2> QED BY <1>1, <2>4, <2>5 DEF Read, Current, Grounded
<1> QED BY <1>2, <1>5, <1>6, <1>7, <1>8, <1>9

(* sync_for_role_link: its list is of members of the guild, and then of those whom
   the rule it has read grants to. *)
LEMMA ConfigReadsGround ==
    ASSUME TypeOK, HNext, NEW w \in Workers, Read(w),
           \/ ConfigLink(w) \/ ConfigMembers(w) \/ ConfigUserInfo(w) \/ ConfigQuery(w)
           \/ ConfigCompare(w) \/ DrainCheck(w) \/ ConfigPut(w) \/ ConfigDelete(w)
           \/ ConfigInsert(w)
    PROVE  Read(w)'
<1>1. Current(w)' BY CurrentNext
<1>2. CASE At(w, "idle")' BY <1>2, UndisturbedReads
<1>3. ~At(w, "idle")
    BY DEF ConfigLink, ConfigMembers, ConfigUserInfo, ConfigQuery, ConfigCompare, DrainCheck,
           ConfigPut, ConfigDelete, ConfigInsert
<1>4. PICK l \in Links : l = LinkOf(w)
    <2>1. At(w, "link") \/ At(w, "insert") => LinkOf(w) \in Links
        BY Shapes DEF Finding, Inserting, ConfigJobs, ConfigSync, LinkOf
    <2> QED BY <2>1, ListingType
            DEF ConfigLink, ConfigMembers, ConfigUserInfo, ConfigQuery, ConfigCompare, DrainCheck,
                ConfigPut, ConfigDelete, ConfigInsert
<1>5. /\ ~At(w, "idle")' => seen[w].members \subseteq seen'[w].members
      /\ ~At(w, "idle")' => seen[w].rules[l] \subseteq seen'[w].rules[l]
      /\ ~At(w, "idle")' => \A m : Grounded(w, l, m) => Grounded(w, l, m)'
    BY SeenNext, StaysGrounded
<1>6. CASE ConfigLink(w) /\ ~At(w, "idle")'
    <2> DEFINE x == [step |-> IF rule[l] = "none" THEN "drain" ELSE "members",
                     job |-> work[w].job, token |-> token[l], tree |-> rule[l], list |-> {}]
    <2>0. Done(w) \/ Become(w, x) BY <1>4, <1>6 DEF ConfigLink
    <2>1. work'[w] = x
        <3> HIDE DEF x
        <3> QED BY <1>6, <2>0 DEF Done, Become, Idle, TypeOK
    <2>2. /\ LinkOf(w)' = l /\ work'[w].tree = rule[l]
          /\ At(w, "drain")' \/ At(w, "members")'
        BY <1>4, <2>1 DEF LinkOf
    <2>3. rule[l] \in seen'[w].rules[l] BY <1>3, <1>4, <1>5, <1>6 DEF Read
    <2> QED BY <1>1, <2>2, <2>3 DEF Read, Current
<1>7. CASE ConfigMembers(w) /\ ~At(w, "idle")'
    <2>1. work[w] \in Listing BY <1>7, ListingType DEF ConfigMembers
    <2>2. work'[w] = [work[w] EXCEPT !.step = IF members = {} THEN "drain" ELSE "info",
                                     !.list = members]
        BY <1>7 DEF ConfigMembers, Retry, Become, Idle, TypeOK
    <2>3. /\ LinkOf(w)' = l /\ work'[w].tree = work[w].tree /\ work'[w].list = members
          /\ At(w, "drain")' \/ At(w, "info")'
        BY <1>4, <2>1, <2>2 DEF Listing, LinkOf
    <2>4. work[w].tree \in seen'[w].rules[l] BY <1>4, <1>5, <1>7 DEF Read, ConfigMembers
    <2>5. members \subseteq seen'[w].members BY <1>3, <1>5, <1>7 DEF Read
    <2> QED BY <1>1, <2>3, <2>4, <2>5 DEF Read, Current
<1>8. CASE ConfigUserInfo(w) /\ ~At(w, "idle")'
    <2>1. work[w] \in Listing BY <1>8, ListingType DEF ConfigUserInfo
    <2>2. work'[w] = [work[w] EXCEPT !.step = "query"]
        BY <1>8 DEF ConfigUserInfo, Done, Retry, Become, Idle, TypeOK
    <2>3. /\ LinkOf(w)' = l /\ work'[w].tree = work[w].tree
          /\ work'[w].list = work[w].list /\ At(w, "query")'
        BY <1>4, <2>1, <2>2 DEF Listing, LinkOf
    <2>4. work[w].tree \in seen'[w].rules[l] BY <1>4, <1>5, <1>8 DEF Read, ConfigUserInfo
    <2>5. work[w].list \subseteq seen'[w].members BY <1>5, <1>8 DEF Read, ConfigUserInfo
    <2> QED BY <1>1, <2>3, <2>4, <2>5 DEF Read, Current
<1>9. CASE ConfigQuery(w)
    <2> DEFINE S == FirstOf({m \in work[w].list : Qualifies(work[w].tree, m)})
    <2>1. work[w] \in Listing BY <1>9, ListingType DEF ConfigQuery
    <2>2. \A m \in S : m \in work[w].list /\ Qualifies(work[w].tree, m) BY DEF FirstOf
    <2> HIDE DEF S
    <2>3. work'[w] = [work[w] EXCEPT !.step = "compare", !.list = S]
        BY <1>9 DEF ConfigQuery, Become, TypeOK, S
    <2>4. LinkOf(w)' = l /\ work'[w].list = S /\ At(w, "compare")'
        BY <1>4, <2>1, <2>3 DEF Listing, LinkOf
    <2>5. work[w].tree \in seen[w].rules[l] /\ work[w].list \subseteq seen[w].members
        BY <1>4, <1>9 DEF Read, ConfigQuery
    <2>6. \A m \in S : Grounded(w, l, m) BY <1>3, <2>2, <2>5, QualifiesGrounds
    <2>7. \A m \in S : Grounded(w, l, m)' BY <1>5, <2>4, <2>6
    <2> QED BY <1>4, <1>1, <2>4, <2>7 DEF Read, Current, Grounded
<1>10. CASE ConfigCompare(w) /\ ~At(w, "idle")'
    <2>1. work[w] \in Listing BY <1>10, ListingType DEF ConfigCompare
    <2>2. work'[w] = [work[w] EXCEPT !.step = "put"]
        BY <1>10 DEF ConfigCompare, Done, Become, Idle, TypeOK
    <2>3. LinkOf(w)' = l /\ work'[w].list = work[w].list /\ At(w, "put")'
        BY <1>4, <2>1, <2>2 DEF Listing, LinkOf
    <2>4. \A m \in work[w].list : Grounded(w, l, m) BY <1>4, <1>10 DEF Read, ConfigCompare
    <2>5. \A m \in work[w].list : Grounded(w, l, m)' BY <1>5, <1>10, <2>4
    <2> QED BY <1>1, <2>3, <2>5 DEF Read, Current, Grounded
<1>11. CASE DrainCheck(w) /\ ~At(w, "idle")'
    <2>1. work[w] \in Listing BY <1>11, ListingType DEF DrainCheck
    <2>2. work'[w] = [work[w] EXCEPT !.step = "put", !.list = {}]
        BY <1>11 DEF DrainCheck, Done, Become, Idle, TypeOK
    <2>3. work'[w].list = {} /\ At(w, "put")' BY <2>1, <2>2 DEF Listing
    <2> QED BY <1>1, <2>3 DEF Read, Current
<1>12. CASE ConfigPut(w) /\ ~At(w, "idle")'
    <2>1. work[w] \in Listing BY <1>12, ListingType DEF ConfigPut
    <2>2. work'[w] = [work[w] EXCEPT !.step = "delete"]
        BY <1>12 DEF ConfigPut, Done, Retry, Become, Idle, TypeOK
    <2>3. work'[w].step = "delete" BY <2>1, <2>2 DEF Listing
    <2> QED BY <1>1, <2>3 DEF Read, Current
<1>13. CASE ConfigDelete(w) /\ ~At(w, "idle")'
    <2>1. At(w, "insert")'
        BY <1>13 DEF ConfigDelete, Done, Retry, Become, Idle, TypeOK
    <2> QED BY <2>1, UndisturbedReads
<1>14. CASE ConfigInsert(w)
    <2>1. work'[w] = Idle
        BY <1>14 DEF ConfigInsert, Retry, Become, InsertRows, TypeOK
    <2> QED BY <1>2, <2>1 DEF Idle
<1> QED BY <1>2, <1>6, <1>7, <1>8, <1>9, <1>10, <1>11, <1>12, <1>13, <1>14

(* What becomes of a sync_for_role_link that goes on. *)
LEMMA ConfigGoesOn ==
    ASSUME TypeOK, NEW w \in Workers, ~At(w, "idle")'
    PROVE  LET k == LinkOf(w)
               Becomes(s, list) ==
                  /\ work'[w].step = s /\ LinkOf(w)' = k /\ work'[w].list = list
                  /\ work'[w].token = work[w].token /\ work'[w].tree = work[w].tree
           IN  /\ ConfigLink(w) =>
                     /\ work'[w].step = IF rule[k] = "none" THEN "drain" ELSE "members"
                     /\ LinkOf(w)' = k /\ work'[w].token = token[k] /\ work'[w].tree = rule[k]
               /\ ConfigMembers(w) => Becomes(IF members = {} THEN "drain" ELSE "info", members)
               /\ ConfigUserInfo(w) => Becomes("query", work[w].list)
               /\ ConfigQuery(w) => Becomes("compare",
                     FirstOf({m \in work[w].list : Qualifies(work[w].tree, m)}))
               /\ ConfigCompare(w) => Becomes("put", work[w].list)
               /\ DrainCheck(w) => Becomes("put", {})
               /\ ConfigPut(w) => Becomes("delete", work[w].list)
               /\ ConfigDelete(w) =>
                     /\ At(w, "insert")' /\ LinkOf(w)' = k /\ work'[w].list = work[w].list
                     /\ work'[w].deleted = mirror[k]
               /\ ~ConfigInsert(w)
<1> DEFINE k == LinkOf(w)
           Becomes(s, list) ==
              /\ work'[w].step = s /\ LinkOf(w)' = k /\ work'[w].list = list
              /\ work'[w].token = work[w].token /\ work'[w].tree = work[w].tree
<1>0. work'[w] # Idle BY DEF Idle
<1>1. ASSUME work[w] \in Listing, NEW s, NEW list,
             \/ work'[w] = [work[w] EXCEPT !.step = s, !.list = list]
             \/ work'[w] = [work[w] EXCEPT !.step = s] /\ list = work[w].list
      PROVE  Becomes(s, list)
    BY <1>1 DEF Listing, LinkOf
<1>2. ASSUME ConfigLink(w)
      PROVE  /\ work'[w].step = IF rule[k] = "none" THEN "drain" ELSE "members"
             /\ LinkOf(w)' = k /\ work'[w].token = token[k] /\ work'[w].tree = rule[k]
    <2> DEFINE x == [step |-> IF rule[k] = "none" THEN "drain" ELSE "members", job |-> work[w].job,
                     token |-> token[k], tree |-> rule[k], list |-> {}]
    <2>1. Done(w) \/ Become(w, x) BY <1>2 DEF ConfigLink
    <2>2. work'[w] = x
        <3> HIDE DEF x
        <3> QED BY <1>0, <2>1, EndsIdle
    <2> QED BY <2>2 DEF LinkOf
<1>3. ASSUME ConfigDelete(w)
      PROVE  /\ At(w, "insert")' /\ LinkOf(w)' = k /\ work'[w].list = work[w].list
             /\ work'[w].deleted = mirror[k]
    <2> DEFINE x == [step |-> "insert", job |-> work[w].job, list |-> work[w].list,
                     deleted |-> mirror[k]]
    <2>1. Done(w) \/ Retry(w) \/ Become(w, x) BY <1>3 DEF ConfigDelete
    <2>2. work'[w] = x
        <3> HIDE DEF x
        <3> QED BY <1>0, <2>1, EndsIdle
    <2> QED BY <2>2 DEF LinkOf
<1>4. ~ConfigInsert(w) BY <1>0, EndsIdle DEF ConfigInsert
<1>5. ASSUME \/ ConfigMembers(w) \/ ConfigUserInfo(w) \/ ConfigQuery(w) \/ ConfigCompare(w)
             \/ DrainCheck(w) \/ ConfigPut(w)
      PROVE  work[w] \in Listing
    BY <1>5, ListingType DEF ConfigMembers, ConfigUserInfo, ConfigQuery, ConfigCompare, DrainCheck,
       ConfigPut
<1>6. ConfigMembers(w) => Becomes(IF members = {} THEN "drain" ELSE "info", members)
    <2>1. ConfigMembers(w) =>
            work'[w] = [work[w] EXCEPT !.step = IF members = {} THEN "drain" ELSE "info",
                                       !.list = members]
        BY <1>0, EndsIdle DEF ConfigMembers
    <2> QED BY <1>1, <1>5, <2>1
<1>7. ConfigUserInfo(w) => Becomes("query", work[w].list)
    <2>1. ConfigUserInfo(w) => work'[w] = [work[w] EXCEPT !.step = "query"]
        BY <1>0, EndsIdle DEF ConfigUserInfo
    <2> QED BY <1>1, <1>5, <2>1
<1>8. ConfigQuery(w) => Becomes("compare",
          FirstOf({m \in work[w].list : Qualifies(work[w].tree, m)}))
    <2> DEFINE S == FirstOf({m \in work[w].list : Qualifies(work[w].tree, m)})
    <2>1. ConfigQuery(w) => work'[w] = [work[w] EXCEPT !.step = "compare", !.list = S]
        BY EndsIdle DEF ConfigQuery
    <2> HIDE DEF S
    <2>2. ConfigQuery(w) => Becomes("compare", S) BY <1>1, <1>5, <2>1
    <2> QED BY <2>2 DEF S
<1>9. ConfigCompare(w) => Becomes("put", work[w].list)
    <2>1. ConfigCompare(w) => work'[w] = [work[w] EXCEPT !.step = "put"]
        BY <1>0, EndsIdle DEF ConfigCompare
    <2> QED BY <1>1, <1>5, <2>1
<1>10. DrainCheck(w) => Becomes("put", {})
    <2>1. DrainCheck(w) => work'[w] = [work[w] EXCEPT !.step = "put", !.list = {}]
        BY <1>0, EndsIdle DEF DrainCheck
    <2> QED BY <1>1, <1>5, <2>1
<1>11. ConfigPut(w) => Becomes("delete", work[w].list)
    <2>1. ConfigPut(w) => work'[w] = [work[w] EXCEPT !.step = "delete"]
        BY <1>0, EndsIdle DEF ConfigPut
    <2> QED BY <1>1, <1>5, <2>1
<1> QED BY <1>2, <1>3, <1>4, <1>6, <1>7, <1>8, <1>9, <1>10, <1>11

(* What can become of a worker in a step of the system: nothing, the loss of rows of
   its snapshot, the end of its job, a claim, or a step of its own. *)
LEMMA WorkerGoesOn ==
    ASSUME TypeOK, HNext, NEW w \in Workers
    PROVE  \/ work'[w] = work[w]
           \/ At(w, "insert") /\ At(w, "insert")'
           \/ At(w, "idle")'
           \/ \E job \in Jobs : Claim(w, job)
           \/ Step(w)
<1>1. CASE World
    <2>1. Restore => At(w, "idle")' BY DEF Restore, Idle
    <2>2. ASSUME NEW m \in Members, SaveBirthday(m) \/ Unlink(m) \/ Calendar(m) \/ Membership(m)
          PROVE  work' = work
        BY <2>2 DEF SaveBirthday, Unlink, Calendar, Membership
    <2>3. ASSUME NEW k \in Links, \/ \E r \in Rules : SaveRule(k, r)
                                 \/ Toggle(k) \/ UpstreamDelete(k) \/ UpstreamCreate(k)
                                 \/ Register(k) \/ DeleteConfig(k)
          PROVE  work' = work
        BY <2>3 DEF SaveRule, Toggle, UpstreamDelete, UpstreamCreate, Register, DeleteConfig
    <2> QED BY <1>1, <2>1, <2>2, <2>3 DEF World
<1>2. ASSUME NEW k \in Links, Tick(k) PROVE work' = work BY <1>2 DEF Tick
<1>3. ASSUME NEW v \in Workers, NEW job \in Jobs, Claim(v, job)
      PROVE  work'[w] = work[w] \/ Claim(w, job)
    BY <1>3 DEF Claim, Become, TypeOK
<1>4. ASSUME NEW v \in Workers, Crash(v) PROVE work'[w] = work[w] \/ At(w, "idle")'
    BY <1>4 DEF Crash, Become, Idle, TypeOK
<1>5. ASSUME NEW v \in Workers, Step(v)
      PROVE  work'[w] = work[w] \/ (At(w, "insert") /\ At(w, "insert")') \/ Step(w)
    BY <1>5, OthersGoOn
<1> QED BY <1>1, <1>2, <1>3, <1>4, <1>5 DEF HNext, Next

(* A worker that has no job claims one before it does anything else. *)
LEMMA ClaimFirst ==
    ASSUME TypeOK, HNext, NEW w \in Workers, At(w, "idle"), ~At(w, "idle")'
    PROVE  At(w, "guilds")' \/ At(w, "link")'
<1>1. ASSUME NEW job \in Jobs, Claim(w, job) PROVE At(w, "guilds")' \/ At(w, "link")'
    BY <1>1 DEF Claim, Become, TypeOK
<1>2. ~Step(w)
    BY DEF Step, PlayerGuilds, PlayerLinks, PlayerBirthday, PlayerDiff, ConfigLink,
       ConfigMembers, ConfigUserInfo, ConfigQuery, ConfigCompare, DrainCheck, ConfigPut,
       ConfigDelete, ConfigInsert
<1> QED BY <1>1, <1>2, WorkerGoesOn

(* The token that a job presents to RoleLogic is one it has read of the row. *)
LEMMA PresentedStep ==
    ASSUME TypeOK, HNext, NEW w \in Workers, Presented(w)
    PROVE  Presented(w)'
<1>1. CASE At(w, "idle")' BY <1>1 DEF Presented
<1>2. ASSUME ~At(w, "idle")'
      PROVE  /\ \A l \in Links : seen'[w].tokens[l] = seen[w].tokens[l] \union {token'[l]}
             /\ \A l \in Links : token'[l] \in seen'[w].tokens[l]
             /\ \A l \in Links : seen[w].tokens[l] \subseteq seen'[w].tokens[l]
    BY <1>2, SeenNext
<1>3. CASE At(w, "idle") /\ ~At(w, "idle")'
    BY <1>2, <1>3, ClaimFirst DEF Presented
<1>4. CASE At(w, "insert")' BY <1>2, <1>4 DEF Presented
<1>5. CASE work'[w] = work[w] /\ ~At(w, "idle")'
    <2>1. At(w, "birthday") \/ At(w, "existing") => DOMAIN work[w].tokens \subseteq Links
        BY Shapes DEF Judging, Comparing
    <2>2. At(w, "actions") => \A a \in work[w].todo : a.link \in Links
        BY FinishedType DEF Actions
    <2>3. work[w].step \in {"drain", "members", "info", "query", "compare", "put"}
              => LinkOf(w) \in Links /\ LinkOf(w)' = LinkOf(w)
        BY <1>5, ListingType DEF LinkOf
    <2> QED BY <1>2, <1>5, <2>1, <2>2, <2>3 DEF Presented
<1>6. CASE Step(w) /\ ~At(w, "idle") /\ ~At(w, "idle")'
    <2> USE <1>6
    <2>0. work'[w] # Idle BY DEF Idle
    <2>1. CASE PlayerGuilds(w)
        <3>1. work[w] \in Looking BY <2>1, Shapes DEF PlayerGuilds
        <3>2. work'[w] = [work[w] EXCEPT !.step = "links"]
            BY <2>0, <2>1, EndsIdle DEF PlayerGuilds
        <3>3. At(w, "links")' BY <3>1, <3>2 DEF Looking
        <3> QED BY <1>2, <3>3 DEF Presented
    <2>2. CASE PlayerLinks(w)
        <3> DEFINE rows == {k \in Links : token[k] # 0}
                   x == [step |-> "birthday", job |-> work[w].job,
                         tokens |-> [k \in rows |-> token[k]], trees |-> [k \in rows |-> rule[k]]]
        <3>1. Done(w) \/ Become(w, x) BY <2>2 DEF PlayerLinks
        <3>2. work'[w] = x
            <4> HIDE DEF x
            <4> QED BY <2>0, <3>1, EndsIdle
        <3>3. At(w, "birthday")' /\ work'[w].tokens = [k \in rows |-> token[k]] BY <3>2
        <3>4. \A l \in rows : token[l] \in seen'[w].tokens[l]
            BY <1>2, <2>2 DEF Presented, PlayerLinks
        <3> QED BY <1>2, <3>3, <3>4 DEF Presented
    <2>3. CASE PlayerBirthday(w)
        <3> DEFINE wants == {k \in DOMAIN work[w].trees : Qualifies(work[w].trees[k], work[w].job.who)}
                   x == [step |-> "existing", job |-> work[w].job, tokens |-> work[w].tokens,
                         wants |-> wants]
        <3>1. work'[w] = x BY <2>3, EndsIdle DEF PlayerBirthday
        <3>2. At(w, "existing")' /\ work'[w].tokens = work[w].tokens BY <3>1
        <3>3. DOMAIN work[w].tokens \subseteq Links BY <2>3, Shapes DEF PlayerBirthday, Judging
        <3> QED BY <1>2, <2>3, <3>2, <3>3 DEF Presented, PlayerBirthday
    <2>4. CASE PlayerDiff(w)
        <3> DEFINE wants == work[w].wants
                   existing == {k \in DOMAIN work[w].tokens : work[w].job.who \in mirror[k]}
                   Todo(op, S) == {[op |-> op, link |-> k, token |-> work[w].tokens[k],
                                    called |-> FALSE] : k \in S}
                   todo == Todo("add", wants \ existing) \union Todo("remove", existing \ wants)
                   x == [step |-> "actions", job |-> work[w].job, todo |-> todo]
        <3>1. work'[w] = x
            <4>1. Done(w) \/ Become(w, x) BY <2>4 DEF PlayerDiff
            <4> HIDE DEF x
            <4> QED BY <2>0, <4>1, EndsIdle
        <3>2. At(w, "actions")' /\ work'[w].todo = todo
            <4> HIDE DEF todo
            <4> QED BY <3>1
        <3>3. PICK R \in SUBSET Links : work[w] \in Comparing(R)
            BY <2>4, Shapes DEF PlayerDiff
        <3>4. wants \subseteq R /\ DOMAIN work[w].tokens = R BY <3>3 DEF Comparing
        <3>5. ASSUME NEW a \in todo
              PROVE  a.link \in R /\ a.token = work[w].tokens[a.link]
            <4>1. CASE a \in Todo("add", wants \ existing) BY <3>4, <4>1
            <4>2. CASE a \in Todo("remove", existing \ wants) BY <3>4, <4>2
            <4> QED BY <4>1, <4>2
        <3>6. \A a \in todo : a.token \in seen'[w].tokens[a.link]
            <4> HIDE DEF todo
            <4> QED BY <1>2, <2>4, <3>4, <3>5 DEF Presented, PlayerDiff
        <3> HIDE DEF todo
        <3> QED BY <1>2, <3>2, <3>6 DEF Presented
    <2>5. ASSUME At(w, "actions"), NEW a \in work[w].todo, PlayerCall(w, a) \/ PlayerMirror(w, a)
          PROVE  Presented(w)'
        <3> DEFINE b == [a EXCEPT !.called = TRUE]
                   called == [work[w] EXCEPT !.todo = (work[w].todo \ {a}) \union {b}]
        <3>1. work[w] \in Acting /\ a \in Actions BY <2>5, Shapes, FinishedType
        <3>2. work'[w] = Finished(w, a) \/ work'[w] = called
            <4> HIDE DEF called
            <4>1. PlayerCall(w, a) => Finish(w, a) \/ Become(w, called) BY DEF PlayerCall, called
            <4>2. PlayerMirror(w, a) => Finish(w, a) \/ \E l, S : InsertRows(w, Finished(w, a), l, S)
                BY DEF PlayerMirror
            <4> QED BY <2>5, <4>1, <4>2, EndsIdle DEF Finish
        <3>3. /\ At(w, "actions")'
              /\ \A c \in work'[w].todo : \E d \in work[w].todo : c.token = d.token /\ c.link = d.link
            <4>1. b.token = a.token /\ b.link = a.link BY <3>1 DEF Actions
            <4>2. CASE work'[w] = called
                <5>1. At(w, "actions")' /\ work'[w].todo = (work[w].todo \ {a}) \union {b}
                    BY <3>1, <4>2 DEF Acting
                <5> QED BY <2>5, <4>1, <5>1
            <4>3. CASE work'[w] = Finished(w, a) BY <2>0, <3>1, <4>3 DEF Finished, Acting
            <4> QED BY <3>2, <4>2, <4>3
        <3>4. ASSUME NEW c \in work'[w].todo PROVE c.token \in seen'[w].tokens[c.link]
            <4>1. PICK d \in work[w].todo : c.token = d.token /\ c.link = d.link BY <3>3
            <4>2. d.link \in Links BY <2>5, FinishedType DEF Actions
            <4> QED BY <1>2, <2>5, <4>1, <4>2 DEF Presented
        <3> QED BY <1>2, <3>3, <3>4 DEF Presented
    <2>6. CASE ConfigLink(w)
        <3>1. LinkOf(w) \in Links
            BY <2>6, Shapes DEF ConfigLink, Finding, ConfigJobs, ConfigSync, LinkOf
        <3>2. /\ At(w, "drain")' \/ At(w, "members")'
              /\ LinkOf(w)' = LinkOf(w) /\ work'[w].token = token[LinkOf(w)]
            BY <2>6, ConfigGoesOn
        <3> QED BY <1>2, <2>6, <3>1, <3>2 DEF Presented, ConfigLink
    <2>7. CASE \/ ConfigMembers(w) \/ ConfigUserInfo(w) \/ ConfigQuery(w) \/ ConfigCompare(w)
               \/ DrainCheck(w)
        <3>1. LinkOf(w) \in Links
            BY <2>7, ListingType DEF ConfigMembers, ConfigUserInfo, ConfigQuery, ConfigCompare,
               DrainCheck
        <3>2. work[w].token \in seen[w].tokens[LinkOf(w)]
            BY <2>7 DEF Presented, ConfigMembers, ConfigUserInfo, ConfigQuery, ConfigCompare,
               DrainCheck
        <3>3. /\ work'[w].step \in {"drain", "info", "query", "compare", "put"}
              /\ LinkOf(w)' = LinkOf(w) /\ work'[w].token = work[w].token
            BY <2>7, ConfigGoesOn
        <3> QED BY <1>2, <3>1, <3>2, <3>3 DEF Presented
    <2>8. CASE ConfigPut(w) \/ ConfigDelete(w)
        <3>1. At(w, "delete")' \/ At(w, "insert")' BY <2>8, ConfigGoesOn
        <3> QED BY <1>2, <3>1 DEF Presented
    <2>9. ~ConfigInsert(w) BY ConfigGoesOn
    <2> QED BY <2>1, <2>2, <2>3, <2>4, <2>5, <2>6, <2>7, <2>8, <2>9 DEF Step
<1>7. \A job \in Jobs : Claim(w, job) => At(w, "idle") BY DEF Claim
<1> QED BY <1>1, <1>3, <1>4, <1>5, <1>6, <1>7, WorkerGoesOn

(* A claim, after which there is nothing yet that has been read. *)
LEMMA ClaimReads ==
    ASSUME TypeOK, HNext, NEW w \in Workers, NEW job \in Jobs, Claim(w, job)
    PROVE  Read(w)'
<1>1. Current(w)' BY CurrentNext
<1>2. At(w, "guilds")' \/ At(w, "link")' BY DEF Claim, Become, TypeOK
<1> QED BY <1>1, <1>2 DEF Read, Current

(* Every step of the system keeps what jobs have read within what was true. *)
LEMMA ReadStep ==
    ASSUME TypeOK, ReadInv, HNext
    PROVE  ReadInv'
<1> SUFFICES ASSUME NEW w \in Workers PROVE Read(w)' BY PresentedStep DEF ReadInv
<1>1. Read(w) BY DEF ReadInv
<1>2. Step(w) => Read(w)' BY <1>1, PlayerReadsGround, ConfigReadsGround DEF Step
<1> QED BY <1>1, <1>2, WorkerGoesOn, UndisturbedReads, ClaimReads

(* So does a step that changes nothing. *)
LEMMA StutterReads == TypeOK /\ ReadInv /\ UNCHANGED hvars => TypeOK' /\ ReadInv'
<1> SUFFICES ASSUME TypeOK, ReadInv, UNCHANGED hvars PROVE TypeOK' /\ ReadInv' OBVIOUS
<1>1. TypeOK' BY TypeStep DEF hvars
<1>2. ReadInv' BY DEF ReadInv, Read, Presented, Grounded, LinkOf, hvars, vars
<1> QED BY <1>1, <1>2

(* Roles are granted by the calls of jobs, and to nobody else than to whom the job
   has found it to be granted. *)
LEMMA GrantStep ==
    ASSUME TypeOK, ReadInv, HNext, NEW l \in Links, NEW m \in upUsers'[l] \ upUsers[l]
    PROVE  \E w \in Workers : work'[w] # work[w] /\ Grounded(w, l, m)
<1> USE DEF upstream
<1>0. upUsers' # upUsers OBVIOUS
<1>1. ASSUME World PROVE FALSE
    <2>1. ASSUME NEW k \in Members, SaveBirthday(k) \/ Unlink(k) \/ Calendar(k) \/ Membership(k)
          PROVE  upUsers' = upUsers
        BY <2>1 DEF SaveBirthday, Unlink, Calendar, Membership
    <2>2. ASSUME NEW k \in Links, \/ \E r \in Rules : SaveRule(k, r)
                                 \/ Toggle(k) \/ UpstreamCreate(k)
                                 \/ Register(k) \/ DeleteConfig(k)
          PROVE  upUsers' = upUsers
        BY <2>2 DEF SaveRule, Toggle, UpstreamCreate, Register, DeleteConfig
    <2>3. ASSUME NEW k \in Links, UpstreamDelete(k) PROVE upUsers'[l] \subseteq upUsers[l]
        BY <2>3 DEF UpstreamDelete, TypeOK
    <2>4. Restore => upUsers' = upUsers BY DEF Restore
    <2> QED BY <1>0, <1>1, <2>1, <2>2, <2>3, <2>4 DEF World
<1>2. ASSUME \/ \E k \in Links : Tick(k)
             \/ \E v \in Workers, job \in Jobs : Claim(v, job)
             \/ \E v \in Workers : Crash(v)
      PROVE  FALSE
    BY <1>0, <1>2 DEF Tick, Claim, Crash
<1>3. PICK w \in Workers : Step(w) BY <1>1, <1>2 DEF HNext, Next
<1>4. Read(w) BY DEF ReadInv
<1>5. ~(\/ PlayerGuilds(w) \/ PlayerLinks(w) \/ PlayerBirthday(w) \/ PlayerDiff(w)
        \/ ConfigLink(w) \/ ConfigMembers(w) \/ ConfigQuery(w) \/ ConfigCompare(w)
        \/ DrainCheck(w) \/ ConfigUserInfo(w) \/ ConfigDelete(w) \/ ConfigInsert(w))
    BY <1>0 DEF PlayerGuilds, PlayerLinks, PlayerBirthday, PlayerDiff,
       ConfigLink, ConfigMembers, ConfigQuery, ConfigCompare, DrainCheck, ConfigUserInfo,
       ConfigDelete, ConfigInsert, ReadOnly
<1>6. ASSUME At(w, "actions"), NEW a \in work[w].todo, PlayerMirror(w, a) PROVE FALSE
    BY <1>0, <1>6 DEF PlayerMirror
<1>7. ASSUME At(w, "actions"), NEW a \in work[w].todo, PlayerCall(w, a)
      PROVE  work'[w] # work[w] /\ Grounded(w, l, m)
    <2> DEFINE who == work[w].job.who
               called == [work[w] EXCEPT !.todo = (work[w].todo \ {a}) \union {[a EXCEPT !.called = TRUE]}]
    <2>1. upUsers' = [upUsers EXCEPT ![a.link] = After(a, who)] BY <1>0, <1>7 DEF PlayerCall
    <2>2. a.link = l /\ m \in After(a, who) BY <2>1 DEF TypeOK
    <2>3. a.op = "add" /\ m = who BY <2>2 DEF After
    <2>4. Grounded(w, l, m) BY <1>4, <1>7, <2>2, <2>3 DEF Read
    <2>5. work[w] \in Acting /\ a \in Actions /\ ~a.called
        BY <1>7, Shapes, FinishedType DEF PlayerCall
    <2>6. Finished(w, a) # work[w]
        BY <1>7, <2>5 DEF Finished, Acting, Idle
    <2>7. called # work[w]
        <3>1. called.todo = (work[w].todo \ {a}) \union {[a EXCEPT !.called = TRUE]}
            BY <2>5 DEF Acting
        <3>2. [a EXCEPT !.called = TRUE] # a BY <2>5 DEF Actions
        <3> QED BY <1>7, <3>1, <3>2
    <2>8. work'[w] = Finished(w, a) \/ work'[w] = called
        <3> HIDE DEF called
        <3>1. Finish(w, a) \/ Become(w, called) BY <1>7 DEF PlayerCall, called
        <3> QED BY <3>1 DEF Finish, Become, TypeOK
    <2> QED BY <2>4, <2>6, <2>7, <2>8
<1>8. ASSUME ConfigPut(w) PROVE work'[w] # work[w] /\ Grounded(w, l, m)
    <2>1. upUsers' = [upUsers EXCEPT ![LinkOf(w)] = work[w].list]
        BY <1>0, <1>8 DEF ConfigPut, Upload
    <2>2. LinkOf(w) = l /\ m \in work[w].list BY <2>1 DEF TypeOK
    <2>3. Grounded(w, l, m) BY <1>4, <1>8, <2>2 DEF Read, ConfigPut
    <2>4. work[w] \in Listing BY <1>8, ListingType DEF ConfigPut
    <2>5. work'[w] = Idle \/ work'[w] = [work[w] EXCEPT !.step = "delete"]
        BY <1>8 DEF ConfigPut, Done, Retry, Become, TypeOK
    <2>6. work'[w].step \in {"idle", "delete"} BY <2>4, <2>5 DEF Listing, Idle
    <2> QED BY <1>8, <2>3, <2>6 DEF ConfigPut
<1> QED BY <1>3, <1>5, <1>6, <1>7, <1>8 DEF Step

(* Rows are deleted by RoleLogic's own request, or by a job that was told so. *)
LEMMA ForgetStep ==
    ASSUME TypeOK, ReadInv, HNext, NEW l \in Links, token[l] # 0, token'[l] = 0,
           UNCHANGED changes
    PROVE  \/ token[l] # upToken[l]
           \/ \E w \in Workers : /\ work'[w] # work[w]
                                 /\ seen[w].tokens[l] \ {0, upToken[l]} # {}
<1> USE DEF db
<1>0. token' # token /\ changes \in Nat BY SyncAssumption DEF TypeOK
<1>1. ASSUME World PROVE token[l] # upToken[l]
    <2>1. ASSUME NEW k \in Members, SaveBirthday(k) \/ Unlink(k) \/ Calendar(k) \/ Membership(k)
          PROVE  token' = token
        BY <2>1 DEF SaveBirthday, Unlink, Calendar, Membership
    <2>2. ASSUME NEW k \in Links, \/ \E r \in Rules : SaveRule(k, r)
                                 \/ Toggle(k) \/ UpstreamDelete(k) \/ UpstreamCreate(k)
          PROVE  token' = token
        BY <2>2 DEF SaveRule, Toggle, UpstreamDelete, UpstreamCreate
    <2>3. ASSUME NEW k \in Links, Register(k) PROVE FALSE BY <1>0, <2>3 DEF Register, TypeOK
    <2>4. ASSUME NEW k \in Links, DeleteConfig(k) PROVE token[l] # upToken[l]
        BY <2>4 DEF DeleteConfig, DeleteRow, TypeOK
    <2>5. ~Restore BY <1>0 DEF Restore, Change
    <2> QED BY <1>0, <1>1, <2>1, <2>2, <2>3, <2>4, <2>5 DEF World
<1>2. ASSUME \/ \E k \in Links : Tick(k)
             \/ \E v \in Workers, job \in Jobs : Claim(v, job)
             \/ \E v \in Workers : Crash(v)
      PROVE  FALSE
    BY <1>0, <1>2 DEF Tick, Claim, Crash
<1>3. ASSUME NEW w \in Workers, Step(w)
      PROVE  work'[w] # work[w] /\ seen[w].tokens[l] \ {0, upToken[l]} # {}
    <2>1. Presented(w) BY DEF ReadInv
    <2>2. ASSUME NEW k, DeleteOrphan(k) PROVE k = l
        BY <1>0, <2>2 DEF DeleteOrphan, DeleteRow, TypeOK
    <2>3. ASSUME NEW t, t \in seen[w].tokens[l], t \in 1..MaxToken, Answer(l, t) = "gone"
          PROVE  seen[w].tokens[l] \ {0, upToken[l]} # {}
        BY <2>3, SyncAssumption DEF Answer
    <2>4. CASE \/ PlayerGuilds(w) \/ PlayerLinks(w) \/ PlayerBirthday(w) \/ PlayerDiff(w)
               \/ ConfigLink(w) \/ ConfigMembers(w) \/ ConfigQuery(w) \/ ConfigCompare(w)
               \/ DrainCheck(w) \/ ConfigDelete(w) \/ ConfigInsert(w)
        BY <1>0, <2>4 DEF PlayerGuilds, PlayerLinks, PlayerBirthday, PlayerDiff, ConfigLink,
           ConfigMembers, ConfigQuery, ConfigCompare, DrainCheck, ConfigDelete, ConfigInsert,
           ReadOnly
    <2>5. ASSUME At(w, "actions"), NEW a \in work[w].todo, PlayerCall(w, a) \/ PlayerMirror(w, a)
          PROVE  work'[w] # work[w] /\ seen[w].tokens[l] \ {0, upToken[l]} # {}
        <3>1. Answer(a.link, a.token) = "gone" /\ DeleteOrphan(a.link) /\ Finish(w, a)
            BY <1>0, <2>5 DEF PlayerCall, PlayerMirror
        <3>2. a.link = l BY <2>2, <3>1
        <3>3. a.token \in 1..MaxToken /\ work[w] \in Acting
            BY <2>5, FinishedType, Shapes DEF Actions
        <3>4. a.token \in seen[w].tokens[l] BY <2>1, <2>5, <3>2 DEF Presented
        <3>5. work'[w] = Finished(w, a) BY <3>1, EndsIdle DEF Finish
        <3>6. Finished(w, a) # work[w] BY <2>5, <3>3 DEF Finished, Acting, Idle
        <3> QED BY <2>3, <3>1, <3>2, <3>3, <3>4, <3>5, <3>6
    <2>6. CASE ConfigUserInfo(w) \/ ConfigPut(w)
        <3>1. /\ Answer(LinkOf(w), work[w].token) = "gone" /\ DeleteOrphan(LinkOf(w)) /\ Done(w)
              /\ At(w, "info") \/ At(w, "put")
            BY <1>0, <2>6 DEF ConfigUserInfo, ConfigPut
        <3>2. LinkOf(w) = l BY <2>2, <3>1
        <3>3. work[w].token \in 1..MaxToken BY <3>1, ListingType DEF Listing
        <3>4. work[w].token \in seen[w].tokens[l] BY <2>1, <3>1, <3>2 DEF Presented
        <3>5. work'[w] # work[w] BY <3>1, EndsIdle DEF Idle
        <3> QED BY <2>3, <3>1, <3>2, <3>3, <3>4, <3>5
    <2> QED BY <1>3, <2>4, <2>5, <2>6 DEF Step
<1> QED BY <1>1, <1>2, <1>3 DEF HNext, Next

(* The inductive invariant of what jobs have read: no assumption on the rules, the
   limit or the failures. *)
THEOREM ReadsAreGrounded == HSpec => [](TypeOK /\ ReadInv)
<1>1. HInit => TypeOK /\ ReadInv
    BY InitType DEF HInit, Init, Idle, ReadInv, Read, Presented
<1>2. TypeOK /\ ReadInv /\ [HNext]_hvars => TypeOK' /\ ReadInv'
    <2>1. TypeOK /\ ReadInv /\ HNext => TypeOK' /\ ReadInv'
        BY TypeStep, ReadStep DEF HNext
    <2> QED BY <2>1, StutterReads
<1> QED BY <1>1, <1>2, PTL DEF HSpec

(* However rules, birthdays and memberships change between the reads of a job and
   its calls, and whatever fails: nobody is granted a role without a job during
   which that member was in the guild and satisfied a rule the link had. *)
THEOREM GrantsAreGrounded == HSpec => NoGroundlessGrant
<1>1. TypeOK /\ ReadInv /\ [HNext]_hvars =>
        [\A l \in Links : \A m \in upUsers'[l] \ upUsers[l] :
            \E w \in Workers : work'[w] # work[w] /\ Grounded(w, l, m)]_hvars
    BY GrantStep
<1> QED BY <1>1, ReadsAreGrounded, PTL DEF HSpec, NoGroundlessGrant

(* delete_orphan_role_link, "removing orphaned local row": however late the answer,
   and whatever was toggled, deleted and registered before it came, a row is only
   deleted when RoleLogic does not accept its token, or one it had while the job ran. *)
THEOREM RowsStay == HSpec => LinksAreNotForgotten
<1>1. TypeOK /\ ReadInv /\ [HNext]_hvars =>
        [\A l \in Links : token[l] # 0 /\ token'[l] = 0 /\ UNCHANGED changes =>
          \/ token[l] # upToken[l]
          \/ \E w \in Workers : /\ work'[w] # work[w]
                               /\ seen[w].tokens[l] \ {0, upToken[l]} # {}]_hvars
    BY ForgetStep
<1> QED BY <1>1, ReadsAreGrounded, PTL DEF HSpec, LinksAreNotForgotten

-----------------------------------------------------------------------------
(* Undisturbed jobs                                                        *)

LEMMA NoFaultHere ==
    ASSUME TypeOK, faults' = faults
    PROVE  \A k : ~Fault(k)
<1>1. faults \in Nat BY SyncAssumption DEF TypeOK
<1> QED BY <1>1 DEF Fault

(* What becomes of a link that has been calm. *)
LEMMA CalmNext ==
    ASSUME HNext, NEW w \in Workers, ~At(w, "idle"), ~At(w, "idle")', NEW l \in calm'[w]
    PROVE  /\ l \in calm[w] /\ exact'[w] = exact[w]
           /\ Own(w) \/ (work'[w] = work[w] /\ Same(l))
<1>1. calm'[w] = {k \in calm[w] : Own(w) \/ (work'[w] = work[w] /\ Same(k))}
    BY DEF HNext, Remember
<1>2. exact'[w] = exact[w] BY DEF HNext, Remember
<1> QED BY <1>1, <1>2

(* What a link should grant, when nothing it depends on has changed. *)
LEMMA TargetSame ==
    ASSUME NEW l, UNCHANGED people, rule'[l] = rule[l]
    PROVE  /\ Target(l)' = Target(l)
           /\ \A m : Qualifies(rule[l], m)' <=> Qualifies(rule[l], m)
<1>1. \A m : Qualifies(rule[l], m)' <=> Qualifies(rule[l], m) BY DEF Qualifies, people
<1>2. {m \in members : Qualifies(rule[l], m)}' = {m \in members : Qualifies(rule[l], m)}
    BY <1>1 DEF people
<1> QED BY <1>1, <1>2 DEF Target, FirstOf

(* Brought is about the users it is told of. *)
LEMMA BroughtSame ==
    ASSUME NEW l, UNCHANGED people, rule'[l] = rule[l], upUsers'[l] = upUsers[l],
           NEW job, NEW users, Brought(job, l, users)
    PROVE  Brought(job, l, users)'
BY TargetSame DEF Brought, people

(* A worker's step leaves a link that is served what it was: an orphan that is
   deleted is served no more. *)
LEMMA StepServes ==
    ASSUME TypeOK, NEW w \in Workers, Step(w), NEW l \in Links, Served(l)'
    PROVE  /\ Served(l) /\ token'[l] = token[l] /\ rule'[l] = rule[l]
           /\ UNCHANGED <<people, upToken, upEnabled>>
           /\ Target(l)' = Target(l)
           /\ \A m : Qualifies(rule[l], m)' <=> Qualifies(rule[l], m)
<1> USE DEF db, upstream
<1>1. ASSUME NEW k, DeleteOrphan(k) PROVE token'[l] = token[l] /\ rule'[l] = rule[l]
    <2>1. CASE k = l /\ DeleteRow(k) BY <2>1 DEF DeleteRow, Served, TypeOK
    <2>2. CASE k # l /\ DeleteRow(k) BY <2>2 DEF DeleteRow, TypeOK
    <2> QED BY <1>1, <2>1, <2>2 DEF DeleteOrphan
<1>2. /\ UNCHANGED <<people, upToken, upEnabled>>
      /\ UNCHANGED <<token, rule>> \/ \E k : DeleteOrphan(k)
    <2>1. CASE \/ PlayerGuilds(w) \/ PlayerLinks(w) \/ PlayerBirthday(w) \/ PlayerDiff(w)
               \/ ConfigLink(w) \/ ConfigMembers(w) \/ ConfigQuery(w) \/ ConfigCompare(w)
               \/ DrainCheck(w)
        BY <2>1 DEF PlayerGuilds, PlayerLinks, PlayerBirthday, PlayerDiff, ConfigLink,
           ConfigMembers, ConfigQuery, ConfigCompare, DrainCheck, ReadOnly
    <2>2. CASE ConfigUserInfo(w) \/ ConfigPut(w) BY <2>2 DEF ConfigUserInfo, ConfigPut
    <2>3. CASE ConfigDelete(w) \/ ConfigInsert(w) BY <2>3 DEF ConfigDelete, ConfigInsert
    <2>4. ASSUME NEW a, PlayerCall(w, a) \/ PlayerMirror(w, a)
          PROVE  /\ UNCHANGED <<people, upToken, upEnabled>>
                 /\ UNCHANGED <<token, rule>> \/ \E k : DeleteOrphan(k)
        BY <2>4 DEF PlayerCall, PlayerMirror
    <2> QED BY <2>1, <2>2, <2>3, <2>4 DEF Step
<1>3. token'[l] = token[l] /\ rule'[l] = rule[l] BY <1>1, <1>2
<1>4. Served(l) BY <1>2, <1>3 DEF Served
<1> QED BY <1>2, <1>3, <1>4, TargetSame

(* Without a failure, a worker's own step is one of its job. *)
LEMMA OwnStep ==
    ASSUME TypeOK, HNext, NEW w \in Workers, ~At(w, "idle"), work'[w] # work[w],
           faults' = faults, ~At(w, "insert") \/ At(w, "idle")',
           changes' = changes \/ ~At(w, "idle")'
    PROVE  Step(w)
<1>1. ASSUME World PROVE FALSE
    <2>0. changes \in Nat BY SyncAssumption DEF TypeOK
    <2>1. ASSUME NEW m \in Members, SaveBirthday(m) \/ Unlink(m) \/ Calendar(m) \/ Membership(m)
          PROVE  work' = work
        BY <2>1 DEF SaveBirthday, Unlink, Calendar, Membership
    <2>2. ASSUME NEW k \in Links, \/ \E r \in Rules : SaveRule(k, r)
                                 \/ Toggle(k) \/ UpstreamDelete(k) \/ UpstreamCreate(k)
                                 \/ Register(k) \/ DeleteConfig(k)
          PROVE  work' = work
        BY <2>2 DEF SaveRule, Toggle, UpstreamDelete, UpstreamCreate, Register, DeleteConfig
    <2>3. ~Restore BY <2>0 DEF Restore, Change, Idle
    <2> QED BY <1>1, <2>1, <2>2, <2>3 DEF World
<1>2. \A k \in Links : ~Tick(k) BY DEF Tick
<1>3. \A v \in Workers, job \in Jobs : ~Claim(v, job)
    BY DEF Claim, Become, TypeOK
<1>4. \A v \in Workers : ~Crash(v) BY NoFaultHere DEF Crash
<1>5. ASSUME NEW v \in Workers, Step(v), v # w PROVE FALSE
    BY <1>5, OthersGoOn
<1> QED BY <1>1, <1>2, <1>3, <1>4, <1>5 DEF HNext, Next

(* What a job has achieved when it ends. *)
Settled(w, job, l) ==
    /\ Brought(job, l, mirror[l])'
    /\ l \in exact[w] => Brought(job, l, upUsers[l])'

(* A job of a member, and that member. *)
LEMMA PlayerBrought ==
    ASSUME NEW job \in PlayerJobs, NEW l, NEW users
    PROVE  /\ job.who \notin members => Brought(job, l, users)
           /\ (job.who \in users <=> Qualifies(rule[l], job.who)) => Brought(job, l, users)
           /\ /\ Qualifies(rule[l], job.who) /\ job.who \notin upUsers[l]
              /\ Cardinality(upUsers[l]) >= Limit
              => Brought(job, l, users)
<1>1. PICK m \in Members : job = PlayerSync(m) BY DEF PlayerJobs
<1>2. job.who = m /\ job # ConfigSync(l) /\ \A n : job = PlayerSync(n) => n = m
    BY <1>1 DEF PlayerSync, ConfigSync
<1> QED BY <1>2 DEF Brought

(* sync_for_player until its diff: what it has read is as it is. *)
LEMMA PlayerReadsSettle ==
    ASSUME TypeOK, NEW w \in Workers, NEW l \in Links, NEW job, job = work[w].job,
           faults' = faults, Served(l)', UpToDate(w, l),
           ~At(w, "idle")' => exact'[w] = exact[w],
           PlayerGuilds(w) \/ PlayerLinks(w) \/ PlayerBirthday(w) \/ PlayerDiff(w)
    PROVE  /\ At(w, "idle")' => Settled(w, job, l)
           /\ ~At(w, "idle")' => UpToDate(w, l)'
<1> DEFINE who == job.who
<1>1. /\ Served(l) /\ token'[l] = token[l] /\ rule'[l] = rule[l] /\ UNCHANGED people
      /\ \A m : Qualifies(rule[l], m)' <=> Qualifies(rule[l], m)
    BY StepServes DEF Step
<1>2. UNCHANGED <<mirror, upUsers>>
    BY DEF PlayerGuilds, PlayerLinks, PlayerBirthday, PlayerDiff, ReadOnly, db, upstream
<1>3. work[w].step \notin {"actions", "delete", "insert"} /\ ~At(w, "idle") /\ job \in PlayerJobs
    <2>1. CASE PlayerGuilds(w) \/ PlayerLinks(w)
        BY <2>1, Shapes DEF PlayerGuilds, PlayerLinks, Looking
    <2>2. CASE PlayerBirthday(w) BY <2>2, Shapes DEF PlayerBirthday, Judging
    <2>3. CASE PlayerDiff(w) BY <2>3, Shapes DEF PlayerDiff, Comparing
    <2> QED BY <2>1, <2>2, <2>3
<1>4. l \in exact[w] => mirror[l] = upUsers[l] BY <1>3 DEF UpToDate
<1>5. Served(l) => token[l] # 0 BY DEF Served
<1>6. members' = members BY <1>1 DEF people
<1>7. CASE PlayerGuilds(w)
    <2>1. work[w] \in Looking BY <1>7, Shapes DEF PlayerGuilds
    <2>2. CASE work'[w] = [work[w] EXCEPT !.step = "links"] /\ who \in members
        <3>1. At(w, "links")' /\ work'[w].job = job BY <2>1, <2>2 DEF Looking
        <3> QED BY <1>2, <1>4, <1>6, <2>2, <3>1 DEF UpToDate
    <2>3. CASE who \notin members /\ work'[w] = Idle
        <3>1. \A users : Brought(job, l, users) BY <1>3, <2>3, PlayerBrought
        <3>2. Brought(job, l, mirror[l])' /\ Brought(job, l, upUsers[l])'
            BY <1>1, <1>2, <3>1, BroughtSame
        <3> QED BY <2>3, <3>2 DEF Settled, Idle
    <2> QED BY <1>7, <2>2, <2>3, NoFaultHere, EndsIdle DEF PlayerGuilds
<1>8. CASE PlayerLinks(w)
    <2> DEFINE rows == {k \in Links : token[k] # 0}
    <2>1. l \in rows BY <1>1, <1>5
    <2> DEFINE x == [step |-> "birthday", job |-> work[w].job,
                     tokens |-> [k \in rows |-> token[k]], trees |-> [k \in rows |-> rule[k]]]
    <2>2. Become(w, x) BY <1>8, <2>1 DEF PlayerLinks
    <2>3. work'[w] = x
        <3> HIDE DEF x
        <3> QED BY <2>2, EndsIdle
    <2>4. /\ At(w, "birthday")' /\ work'[w].job = job
          /\ work'[w].tokens = [k \in rows |-> token[k]] /\ work'[w].trees = [k \in rows |-> rule[k]]
        BY <2>3
    <2>5. who \in members BY <1>8 DEF UpToDate, PlayerLinks
    <2>6. /\ l \in DOMAIN work'[w].trees
          /\ work'[w].trees[l] = rule'[l] /\ work'[w].tokens[l] = token'[l]
        BY <1>1, <2>1, <2>4
    <2> HIDE DEF rows
    <2> QED BY <1>2, <1>4, <1>6, <2>4, <2>5, <2>6 DEF UpToDate
<1>9. CASE PlayerBirthday(w)
    <2> DEFINE wants == {k \in DOMAIN work[w].trees : Qualifies(work[w].trees[k], work[w].job.who)}
               x == [step |-> "existing", job |-> work[w].job, tokens |-> work[w].tokens,
                     wants |-> wants]
    <2>1. PICK R \in SUBSET Links : work[w] \in Judging(R)
        BY <1>9, Shapes DEF PlayerBirthday
    <2>2. DOMAIN work[w].trees = DOMAIN work[w].tokens BY <2>1 DEF Judging
    <2>3. work'[w] = x BY <1>9, EndsIdle DEF PlayerBirthday
    <2>4. /\ At(w, "existing")' /\ work'[w].job = job
          /\ work'[w].tokens = work[w].tokens /\ work'[w].wants = wants
        BY <2>3
    <2>5. /\ l \in DOMAIN work[w].trees /\ who \in members
          /\ work[w].trees[l] = rule[l] /\ work[w].tokens[l] = token[l]
        BY <1>9 DEF UpToDate, PlayerBirthday
    <2>6. l \in wants <=> Qualifies(rule[l], who) BY <2>5
    <2> HIDE DEF wants
    <2> QED BY <1>1, <1>2, <1>4, <1>6, <2>2, <2>4, <2>5, <2>6 DEF UpToDate
<1>10. CASE PlayerDiff(w)
    <2> DEFINE wants == work[w].wants
               existing == {k \in DOMAIN work[w].tokens : work[w].job.who \in mirror[k]}
               Todo(op, S) == {[op |-> op, link |-> k, token |-> work[w].tokens[k],
                                called |-> FALSE] : k \in S}
               todo == Todo("add", wants \ existing) \union Todo("remove", existing \ wants)
               here == {a \in todo : a.link = l}
    <2>1. /\ l \in DOMAIN work[w].tokens /\ work[w].tokens[l] = token[l]
          /\ l \in wants <=> Qualifies(rule[l], who)
          /\ who \in members
        BY <1>10 DEF UpToDate, PlayerDiff
    <2>2. l \in existing <=> who \in mirror[l] BY <2>1
    <2>3. ASSUME NEW a \in here
          PROVE  /\ a = [op |-> IF l \in wants THEN "add" ELSE "remove", link |-> l,
                         token |-> token[l], called |-> FALSE]
                 /\ ~(l \in wants <=> l \in existing)
        <3>1. CASE a \in Todo("add", wants \ existing) BY <2>1, <2>3, <3>1
        <3>2. CASE a \in Todo("remove", existing \ wants) BY <2>1, <2>3, <3>2
        <3> QED BY <2>3, <3>1, <3>2
    <2>4. ASSUME here = {} PROVE Settled(w, job, l)
        <3>1. l \in wants <=> l \in existing
            <4>1. ASSUME l \in wants \ existing PROVE FALSE
                <5>1. [op |-> "add", link |-> l, token |-> work[w].tokens[l], called |-> FALSE] \in here
                    BY <4>1
                <5> QED BY <2>4, <5>1
            <4>2. ASSUME l \in existing \ wants PROVE FALSE
                <5>1. [op |-> "remove", link |-> l, token |-> work[w].tokens[l], called |-> FALSE] \in here
                    BY <4>2
                <5> QED BY <2>4, <5>1
            <4> QED BY <4>1, <4>2
        <3>2. who \in mirror[l] <=> Qualifies(rule[l], who) BY <2>1, <2>2, <3>1
        <3>3. Brought(job, l, mirror[l]) BY <1>3, <3>2, PlayerBrought
        <3>4. Brought(job, l, mirror[l])' BY <1>1, <1>2, <3>3, BroughtSame
        <3>5. l \in exact[w] => Brought(job, l, upUsers[l])' BY <1>2, <1>4, <3>4
        <3> QED BY <3>4, <3>5 DEF Settled
    <2>5. CASE todo = {} /\ Done(w)
        <3>1. here = {} BY <2>5
        <3>2. work'[w] = Idle BY <2>5, EndsIdle
        <3> QED BY <2>4, <3>1, <3>2 DEF Idle
    <2>6. CASE Become(w, [step |-> "actions", job |-> work[w].job, todo |-> todo])
        <3> DEFINE x == [step |-> "actions", job |-> work[w].job, todo |-> todo]
        <3>1. work'[w] = x
            <4> HIDE DEF x
            <4> QED BY <2>6, EndsIdle DEF x
        <3>2. At(w, "actions")' /\ work'[w].job = job /\ work'[w].todo = todo
            <4> HIDE DEF todo
            <4> QED BY <3>1
        <3>3. {a \in work'[w].todo : a.link = l} = here BY <3>2
        <3>4. \A a \in here : /\ here = {a} /\ a.token = token[l] /\ ~a.called
                              /\ a.op = "add" <=> Qualifies(rule[l], who)
            <4> HIDE DEF here
            <4> SUFFICES ASSUME NEW a \in here
                         PROVE  /\ here = {a} /\ a.token = token[l] /\ ~a.called
                                /\ a.op = "add" <=> Qualifies(rule[l], who)
                OBVIOUS
            <4> DEFINE r == [op |-> IF l \in wants THEN "add" ELSE "remove", link |-> l,
                             token |-> token[l], called |-> FALSE]
            <4>1. a = r /\ \A b \in here : b = r BY <2>3
            <4>2. r.token = token[l] /\ ~r.called /\ (r.op = "add" <=> l \in wants) OBVIOUS
            <4> HIDE DEF r, wants
            <4>3. here = {a} BY <4>1
            <4> QED BY <2>1, <4>1, <4>2, <4>3
        <3> HIDE DEF here, todo
        <3> QED BY <1>1, <1>6, <2>1, <2>4, <3>2, <3>3, <3>4 DEF UpToDate, Settled
    <2> QED
        <3> HIDE DEF todo
        <3>1. \/ todo = {} /\ Done(w)
              \/ Become(w, [step |-> "actions", job |-> work[w].job, todo |-> todo])
            BY <1>10 DEF PlayerDiff, todo
        <3> QED BY <2>5, <2>6, <3>1
<1> QED BY <1>7, <1>8, <1>9, <1>10

(* sync_for_player's calls, and what it writes of them: the one action that a link
   may have is the right one, and is recorded before it is forgotten. *)
LEMMA PlayerActionsSettle ==
    ASSUME TypeOK, NEW w \in Workers, NEW l \in Links, NEW job, job = work[w].job,
           faults' = faults, Served(l)', UpToDate(w, l),
           ~At(w, "idle")' => exact'[w] = exact[w],
           At(w, "actions"), NEW a \in work[w].todo, PlayerCall(w, a) \/ PlayerMirror(w, a)
    PROVE  /\ At(w, "idle")' => Settled(w, job, l)
           /\ ~At(w, "idle")' => UpToDate(w, l)'
<1> DEFINE who == job.who
           k == a.link
           b == [a EXCEPT !.called = TRUE]
           rest == work[w].todo \ {a}
           In(T) == {c \in T : c.link = l}
<1>1. /\ Served(l) /\ token'[l] = token[l] /\ rule'[l] = rule[l] /\ UNCHANGED people
      /\ \A m : Qualifies(rule[l], m)' <=> Qualifies(rule[l], m)
    BY StepServes DEF Step
<1>2. members' = members /\ who \in members /\ job \in PlayerJobs
    BY <1>1, FinishedType DEF people, UpToDate
<1>3. work[w] \in Acting /\ a \in Actions /\ k \in Links BY Shapes, FinishedType DEF Actions
<1>4. /\ b.op = a.op /\ b.link = k /\ b.token = a.token /\ b.called
      /\ a.op = "add" \/ a.op = "remove"
    BY <1>3 DEF Actions
<1>5. /\ \A c \in In(work[w].todo) :
            /\ In(work[w].todo) = {c} /\ c.token = token[l]
            /\ c.op = "add" <=> Qualifies(rule[l], who)
            /\ c.called => (c.op = "add" <=> who \in upUsers[l])
      /\ In(work[w].todo) = {} =>
            /\ Brought(job, l, mirror[l])
            /\ l \in exact[w] => Brought(job, l, upUsers[l])
    BY DEF UpToDate
<1>6. \A k1 : ~Fault(k1) BY NoFaultHere
(* The actions of l that are left, and what the worker becomes with them. *)
<1>7. ASSUME NEW T,
             (T = {} /\ work'[w] = Idle) \/ work'[w] = [work[w] EXCEPT !.todo = T],
             \A c \in In(T) : /\ In(T) = {c} /\ c.token = token[l]
                              /\ c.op = "add" <=> Qualifies(rule[l], who)
                              /\ c.called => (c.op = "add" <=> who \in upUsers'[l]),
             In(T) = {} => Settled(w, job, l)
      PROVE  /\ At(w, "idle")' => Settled(w, job, l)
             /\ ~At(w, "idle")' => UpToDate(w, l)'
    <2>1. CASE T = {} /\ work'[w] = Idle
        <3>1. In(T) = {} BY <2>1
        <3> QED BY <1>7, <2>1, <3>1 DEF Idle
    <2>2. CASE work'[w] = [work[w] EXCEPT !.todo = T]
        <3>1. At(w, "actions")' /\ work'[w].todo = T /\ work'[w].job = job
            BY <1>3, <2>2 DEF Acting
        <3>2. {c \in work'[w].todo : c.link = l} = In(T) BY <3>1
        <3> HIDE DEF In
        <3> QED BY <1>1, <1>2, <1>7, <3>1, <3>2 DEF UpToDate, Settled
    <2> QED BY <1>7, <2>1, <2>2
<1>8. work'[w] = Finished(w, a) =>
         (rest = {} /\ work'[w] = Idle) \/ work'[w] = [work[w] EXCEPT !.todo = rest]
    BY DEF Finished
(* An action for another link. *)
<1>9. CASE k # l
    <2>1. mirror'[l] = mirror[l] /\ upUsers'[l] = upUsers[l]
        <3>1. DeleteOrphan(k) => mirror'[l] = mirror[l]
            BY <1>9 DEF DeleteOrphan, DeleteRow, TypeOK, db
        <3>2. CASE PlayerCall(w, a) BY <1>9, <3>1, <3>2 DEF PlayerCall, TypeOK, db, upstream
        <3>3. CASE PlayerMirror(w, a) BY <1>9, <3>3 DEF PlayerMirror, TypeOK, upstream
        <3> QED BY <3>2, <3>3
    <2>2. In(rest) = In(work[w].todo) /\ In(rest \union {b}) = In(work[w].todo)
        BY <1>4, <1>9
    <2>3. In(work[w].todo) = {} => Settled(w, job, l)
        <3>1. Brought(job, l, mirror[l]) => Brought(job, l, mirror[l])'
            BY <1>1, <2>1, TargetSame DEF Brought, people
        <3>2. Brought(job, l, upUsers[l]) => Brought(job, l, upUsers[l])'
            BY <1>1, <2>1, TargetSame DEF Brought, people
        <3> QED BY <1>5, <3>1, <3>2 DEF Settled
    <2>4. work'[w] = Finished(w, a) \/ work'[w] = [work[w] EXCEPT !.todo = rest \union {b}]
        BY EndsIdle DEF PlayerCall, PlayerMirror, Finish
    <2>5. PICK T \in {rest, rest \union {b}} :
              (T = {} /\ work'[w] = Idle) \/ work'[w] = [work[w] EXCEPT !.todo = T]
        BY <1>8, <2>4
    <2>6. In(T) = In(work[w].todo) BY <2>2, <2>5
    <2> HIDE DEF In, rest, b
    <2> QED BY <1>5, <1>7, <2>1, <2>3, <2>5, <2>6
(* The action for l. *)
<1>10. CASE k = l
    <2>1. /\ a \in In(work[w].todo) /\ In(work[w].todo) = {a} /\ a.token = token[l]
          /\ a.op = "add" <=> Qualifies(rule[l], who)
          /\ a.called => (a.op = "add" <=> who \in upUsers[l])
        BY <1>5, <1>10
    <2>2. In(rest) = {} BY <2>1
    <2>3. In(rest \union {b}) = {b} BY <1>4, <1>10, <2>2
    <2>4. Answer(l, a.token) = "ok" BY <1>1, <2>1 DEF Answer, Served
    <2>5. CASE PlayerCall(w, a) /\ ~Full(a, who)
        <3>1. /\ upUsers' = [upUsers EXCEPT ![l] = After(a, who)]
              /\ Become(w, [work[w] EXCEPT !.todo = rest \union {b}])
            BY <1>6, <1>10, <2>4, <2>5 DEF PlayerCall
        <3>2. who \in upUsers'[l] <=> a.op = "add" BY <1>4, <1>10, <3>1 DEF After, TypeOK
        <3> DEFINE T == rest \union {b}
        <3>3. work'[w] = [work[w] EXCEPT !.todo = T] BY <3>1, EndsIdle
        <3>4. In(T) = {b} BY <2>3
        <3> HIDE DEF In, T, b, rest
        <3> QED BY <1>4, <1>7, <2>1, <3>2, <3>3, <3>4
    <2>6. CASE PlayerCall(w, a) /\ Full(a, who)
        <3>1. Finish(w, a) /\ UNCHANGED <<mirror, upUsers>>
            BY <1>6, <1>10, <2>4, <2>6 DEF PlayerCall, db
        <3>2. \A users : Brought(job, l, users)
            BY <1>2, <1>10, <2>1, <2>6, PlayerBrought DEF Full
        <3>3. Settled(w, job, l) BY <1>1, <3>1, <3>2, BroughtSame DEF Settled
        <3>4. work'[w] = Finished(w, a) BY <3>1, EndsIdle DEF Finish
        <3> HIDE DEF In, rest, b
        <3> QED BY <1>7, <1>8, <2>2, <3>3, <3>4
    <2>7. CASE PlayerMirror(w, a)
        <3>1. a.called /\ UNCHANGED upUsers BY <2>7 DEF PlayerMirror, upstream
        <3>2. token[l] # 0 BY <1>1 DEF Served
        <3>3. /\ mirror' = [mirror EXCEPT ![l] = IF a.op = "add" THEN @ \union {who} ELSE @ \ {who}]
              /\ work'[w] = Finished(w, a)
            BY <1>4, <1>6, <1>10, <2>7, <3>2, EndsIdle DEF PlayerMirror, Finish
        <3>4. who \in mirror'[l] <=> Qualifies(rule[l], who)
            BY <2>1, <3>3 DEF TypeOK
        <3>5. who \in upUsers'[l] <=> Qualifies(rule[l], who) BY <2>1, <3>1
        <3>6. Brought(job, l, mirror[l])' /\ Brought(job, l, upUsers[l])'
            <4>1. Brought(job, l, mirror'[l]) /\ Brought(job, l, upUsers'[l])
                BY <1>2, <3>4, <3>5, PlayerBrought
            <4> QED BY <1>1, <3>1, <4>1, TargetSame DEF Brought, people
        <3> HIDE DEF In, rest, b
        <3> QED BY <1>7, <1>8, <2>2, <3>3, <3>6 DEF Settled
    <2> QED BY <2>5, <2>6, <2>7
<1> QED BY <1>9, <1>10

(* A job of a link is no other link's, and no member's. *)
LEMMA ConfigJobOf ==
    ASSUME NEW job \in ConfigJobs, NEW l
    PROVE  (\A m : job # PlayerSync(m)) /\ (job = ConfigSync(l) => job.link = l)
<1>1. PICK k \in Links : job = ConfigSync(k) BY DEF ConfigJobs
<1> QED BY <1>1 DEF PlayerSync, ConfigSync

(* sync_for_role_link: its list is the one the rule asks for, and it ends when the
   mirror has that list. *)
LEMMA ConfigSettles ==
    ASSUME TypeOK, NEW w \in Workers, NEW l \in Links, NEW job, job = work[w].job,
           faults' = faults, Served(l)', UpToDate(w, l),
           ~At(w, "idle")' => exact'[w] = exact[w],
           \/ ConfigLink(w) \/ ConfigMembers(w) \/ ConfigUserInfo(w) \/ ConfigQuery(w)
           \/ ConfigCompare(w) \/ DrainCheck(w) \/ ConfigPut(w) \/ ConfigDelete(w)
           \/ ConfigInsert(w)
    PROVE  /\ At(w, "idle")' => Settled(w, job, l)
           /\ ~At(w, "idle")' => UpToDate(w, l)'
<1> DEFINE k == LinkOf(w)
<1>1. /\ Served(l) /\ token'[l] = token[l] /\ rule'[l] = rule[l] /\ UNCHANGED people
      /\ UNCHANGED <<upToken, upEnabled>> /\ Target(l)' = Target(l)
    BY StepServes DEF Step
<1>2. members' = members BY <1>1 DEF people
<1>3. job \in ConfigJobs /\ job.link = k /\ k \in Links
    <2>1. CASE ConfigLink(w)
        <3>1. job \in ConfigJobs BY <2>1, Shapes DEF ConfigLink, Finding
        <3> QED BY <3>1 DEF ConfigJobs, ConfigSync, LinkOf
    <2>2. CASE ConfigInsert(w)
        <3>1. job \in ConfigJobs BY <2>2, Shapes DEF ConfigInsert, Inserting
        <3> QED BY <3>1 DEF ConfigJobs, ConfigSync, LinkOf
    <2>3. CASE \/ ConfigMembers(w) \/ ConfigUserInfo(w) \/ ConfigQuery(w) \/ ConfigCompare(w)
               \/ DrainCheck(w) \/ ConfigPut(w) \/ ConfigDelete(w)
        <3>1. work[w] \in Listing
            BY <2>3, ListingType DEF ConfigMembers, ConfigUserInfo, ConfigQuery, ConfigCompare,
               DrainCheck, ConfigPut, ConfigDelete
        <3> QED BY <3>1 DEF Listing, ConfigJobs, ConfigSync, LinkOf
    <2> QED BY <2>1, <2>2, <2>3
<1>4. \A n : ~Fault(n) BY NoFaultHere
<1>5. /\ token[l] # 0 /\ \A t : t = token[l] => Answer(l, t) = "ok"
    BY <1>1 DEF Served, Answer
<1>6. /\ k # l => Brought(job, l, mirror[l])' /\ Brought(job, l, upUsers[l])'
      /\ mirror'[l] = Target(l) => Brought(job, l, mirror[l])'
      /\ upUsers'[l] = Target(l) => Brought(job, l, upUsers[l])'
    BY <1>1, <1>3, ConfigJobOf DEF Brought
(* Another link than l. *)
<1>7. CASE k # l
    <2>1. mirror'[l] = mirror[l] /\ upUsers'[l] = upUsers[l]
        <3>1. DeleteOrphan(k) => mirror'[l] = mirror[l]
            BY <1>7 DEF DeleteOrphan, DeleteRow, TypeOK, db
        <3>2. CASE \/ ConfigLink(w) \/ ConfigMembers(w) \/ ConfigQuery(w) \/ ConfigCompare(w)
                   \/ DrainCheck(w)
            BY <3>2 DEF ConfigLink, ConfigMembers, ConfigQuery, ConfigCompare, DrainCheck,
               ReadOnly, db, upstream
        <3>3. CASE ConfigUserInfo(w) \/ ConfigPut(w)
            BY <1>7, <3>1, <3>3 DEF ConfigUserInfo, ConfigPut, Upload, TypeOK, db, upstream
        <3>4. CASE ConfigDelete(w) \/ ConfigInsert(w)
            BY <1>7, <3>4 DEF ConfigDelete, ConfigInsert, TypeOK, upstream
        <3> QED BY <3>2, <3>3, <3>4
    <2>2. At(w, "idle")' => Settled(w, job, l) BY <1>6, <1>7 DEF Settled
    <2>3. ASSUME ~At(w, "idle")' PROVE UpToDate(w, l)'
        <3>1. /\ LinkOf(w)' = k
              /\ \/ work'[w].step \in {"delete", "insert"}
                 \/ /\ work'[w].step \in {"drain", "members", "info", "query", "compare", "put"}
                    /\ work[w].step \notin {"actions", "delete", "insert"}
              /\ work'[w].step \in {"info", "query"} => work'[w].list = members
            BY <2>3, ConfigGoesOn DEF UpToDate, ConfigLink, ConfigMembers, ConfigUserInfo,
               ConfigQuery, ConfigCompare, DrainCheck, ConfigPut, ConfigDelete
        <3> QED BY <1>2, <1>7, <2>1, <2>3, <3>1 DEF UpToDate
    <2> QED BY <2>2, <2>3
(* The link that is synced. *)
<1>8. CASE k = l
    <2>1. /\ work[w].step \notin {"actions", "delete", "insert"} /\ l \in exact[w]
                => mirror[l] = upUsers[l]
          /\ work[w].step \in {"drain", "members", "info", "query", "compare", "put"}
                => work[w].token = token[l]
          /\ At(w, "drain") => Target(l) = {}
          /\ work[w].step \in {"members", "info", "query"} => work[w].tree = rule[l]
          /\ work[w].step \in {"info", "query"} => work[w].list = members
          /\ work[w].step \in {"compare", "put", "delete", "insert"} => work[w].list = Target(l)
          /\ work[w].step \in {"delete", "insert"} => upUsers[l] = Target(l)
          /\ At(w, "insert") => work[w].deleted = mirror[l]
        BY <1>8 DEF UpToDate
    <2>2. {m \in members : Qualifies(rule[l], m)} = {} => Target(l) = {}
        BY DEF Target, FirstOf
    <2>3. CASE ConfigLink(w)
        <3>1. ~At(w, "idle")'
            BY <1>5, <1>8, <2>3, EndsIdle DEF ConfigLink
        <3>2. rule[l] = "none" => Target(l) = {} BY <2>2 DEF Qualifies
        <3>3. UNCHANGED <<mirror, upUsers>> BY <2>3 DEF ConfigLink, ReadOnly, db, upstream
        <3> QED BY <1>1, <1>2, <1>8, <2>1, <2>3, <3>1, <3>2, <3>3, ConfigGoesOn
                DEF UpToDate, ConfigLink
    <2>4. CASE ConfigMembers(w)
        <3>1. ~At(w, "idle")'
            <4>1. work[w] \in Listing BY <2>4, ListingType DEF ConfigMembers
            <4>2. work'[w] = [work[w] EXCEPT !.step = IF members = {} THEN "drain" ELSE "info",
                                             !.list = members]
                BY <1>4, <2>4, EndsIdle DEF ConfigMembers
            <4> QED BY <4>1, <4>2 DEF Listing
        <3>2. members = {} => Target(l) = {} BY <2>2
        <3>3. UNCHANGED <<mirror, upUsers>> BY <2>4 DEF ConfigMembers, ReadOnly, db, upstream
        <3> QED BY <1>1, <1>2, <1>8, <2>1, <2>4, <3>1, <3>2, <3>3, ConfigGoesOn
                DEF UpToDate, ConfigMembers
    <2>5. CASE ConfigUserInfo(w)
        <3>1. Become(w, [work[w] EXCEPT !.step = "query"]) /\ UNCHANGED db
            BY <1>4, <1>5, <1>8, <2>1, <2>5 DEF ConfigUserInfo
        <3>2. ~At(w, "idle")'
            <4>1. work[w] \in Listing BY <2>5, ListingType DEF ConfigUserInfo
            <4> QED BY <3>1, <4>1, EndsIdle DEF Listing
        <3>3. UNCHANGED <<mirror, upUsers>> BY <2>5, <3>1 DEF ConfigUserInfo, db, upstream
        <3> QED BY <1>1, <1>2, <1>8, <2>1, <2>5, <3>2, <3>3, ConfigGoesOn
                DEF UpToDate, ConfigUserInfo
    <2>6. CASE ConfigQuery(w)
        <3>1. ~At(w, "idle")'
            <4> DEFINE S == FirstOf({m \in work[w].list : Qualifies(work[w].tree, m)})
            <4>1. work[w] \in Listing BY <2>6, ListingType DEF ConfigQuery
            <4>2. work'[w] = [work[w] EXCEPT !.step = "compare", !.list = S]
                BY <2>6, EndsIdle DEF ConfigQuery
            <4> HIDE DEF S
            <4> QED BY <4>1, <4>2 DEF Listing
        <3>2. FirstOf({m \in work[w].list : Qualifies(work[w].tree, m)}) = Target(l)
            BY <2>1, <2>6 DEF ConfigQuery, Target
        <3>3. UNCHANGED <<mirror, upUsers>> BY <2>6 DEF ConfigQuery, ReadOnly, db, upstream
        <3> QED BY <1>1, <1>2, <1>8, <2>1, <2>6, <3>1, <3>2, <3>3, ConfigGoesOn
                DEF UpToDate, ConfigQuery
    <2>7. CASE ConfigCompare(w) \/ DrainCheck(w)
        <3>1. UNCHANGED <<mirror, upUsers>>
            BY <2>7 DEF ConfigCompare, DrainCheck, ReadOnly, db, upstream
        <3>2. CASE At(w, "idle")'
            <4>1. work[w] \in Listing
                BY <2>7, ListingType DEF ConfigCompare, DrainCheck
            <4>2. mirror[l] = Target(l)
                <5>1. ~Become(w, [work[w] EXCEPT !.step = "put"])
                    BY <3>2, <4>1, EndsIdle DEF Listing
                <5>2. ~Become(w, [work[w] EXCEPT !.step = "put", !.list = {}])
                    BY <3>2, <4>1, EndsIdle DEF Listing
                <5> QED BY <1>8, <2>1, <2>7, <5>1, <5>2 DEF ConfigCompare, DrainCheck
            <4> QED BY <1>6, <2>1, <2>7, <3>1, <3>2, <4>2 DEF Settled, ConfigCompare, DrainCheck
        <3>3. CASE ~At(w, "idle")'
            BY <1>1, <1>2, <1>8, <2>1, <2>7, <3>1, <3>3, ConfigGoesOn
            DEF UpToDate, ConfigCompare, DrainCheck
        <3> QED BY <3>2, <3>3
    <2>8. CASE ConfigPut(w)
        <3>1. /\ Upload(l, work[w].list) /\ UNCHANGED db
              /\ Become(w, [work[w] EXCEPT !.step = "delete"])
            BY <1>4, <1>5, <1>8, <2>1, <2>8 DEF ConfigPut
        <3>2. ~At(w, "idle")'
            <4>1. work[w] \in Listing BY <2>8, ListingType DEF ConfigPut
            <4> QED BY <3>1, <4>1, EndsIdle DEF Listing
        <3>3. upUsers'[l] = Target(l) BY <2>1, <2>8, <3>1 DEF Upload, ConfigPut, TypeOK
        <3> QED BY <1>1, <1>2, <1>8, <2>1, <2>8, <3>2, <3>3, ConfigGoesOn
                DEF UpToDate, ConfigPut
    <2>9. CASE ConfigDelete(w)
        <3>1. UNCHANGED upUsers /\ upUsers[l] = Target(l) /\ work[w].list = Target(l)
            BY <2>1, <2>9 DEF ConfigDelete, upstream
        <3>2. CASE work[w].list # {}
            <4>1. UNCHANGED mirror BY <1>4, <2>9, <3>2 DEF ConfigDelete
            <4>2. ~At(w, "idle")'
                <5> DEFINE x == [step |-> "insert", job |-> work[w].job, list |-> work[w].list,
                                 deleted |-> mirror[k]]
                <5>1. Become(w, x) BY <1>4, <2>9, <3>2 DEF ConfigDelete
                <5>2. x.step = "insert" OBVIOUS
                <5> HIDE DEF x
                <5> QED BY <5>1, <5>2, EndsIdle
            <4> QED BY <1>1, <1>2, <1>8, <2>1, <2>9, <3>1, <4>1, <4>2, ConfigGoesOn
                    DEF UpToDate, ConfigDelete
        <3>3. CASE work[w].list = {}
            <4>1. mirror' = [mirror EXCEPT ![l] = {}] /\ Done(w)
                BY <1>4, <1>8, <2>9, <3>3 DEF ConfigDelete
            <4>2. mirror'[l] = Target(l) BY <3>1, <3>3, <4>1 DEF TypeOK
            <4>3. work'[w] = Idle BY <4>1, EndsIdle
            <4> QED BY <1>6, <3>1, <4>2, <4>3 DEF Settled, Idle
        <3> QED BY <3>2, <3>3
    <2>10. CASE ConfigInsert(w)
        <3>1. UNCHANGED upUsers /\ upUsers[l] = Target(l) /\ work[w].list = Target(l)
            BY <2>1, <2>10 DEF ConfigInsert, upstream
        <3>2. mirror[l] \ work[w].deleted = {} /\ token[l] # 0
            BY <1>5, <2>1, <2>10 DEF ConfigInsert
        <3>3. /\ mirror' = [mirror EXCEPT ![l] = (mirror[l] \ work[w].deleted) \union work[w].list]
              /\ InsertRows(w, Idle, l, work[w].list)
            BY <1>4, <1>8, <2>10, <3>2 DEF ConfigInsert
        <3>4. mirror'[l] = Target(l) BY <3>1, <3>2, <3>3 DEF TypeOK
        <3>5. work'[w] = Idle BY <3>3, EndsIdle
        <3> QED BY <1>6, <3>1, <3>4, <3>5 DEF Settled, Idle
    <2> QED BY <2>3, <2>4, <2>5, <2>6, <2>7, <2>8, <2>9, <2>10
<1> QED BY <1>7, <1>8

(* A step of the job, whichever it is. *)
LEMMA StepSettles ==
    ASSUME TypeOK, NEW w \in Workers, NEW l \in Links, NEW job, job = work[w].job,
           faults' = faults, Served(l)', Served(l) => UpToDate(w, l),
           ~At(w, "idle")' => exact'[w] = exact[w], Step(w)
    PROVE  /\ At(w, "idle")' => Settled(w, job, l)
           /\ ~At(w, "idle")' => UpToDate(w, l)'
<1>1. UpToDate(w, l) BY StepServes
<1> QED BY <1>1, PlayerReadsSettle, PlayerActionsSettle, ConfigSettles DEF Step

(* A worker that did nothing, about a link that stayed what it was. *)
LEMMA StaysUpToDate ==
    ASSUME NEW w \in Workers, NEW l, work'[w] = work[w], exact'[w] = exact[w], Same(l),
           Served(l)', Served(l) => UpToDate(w, l)
    PROVE  UpToDate(w, l)'
<1>1. Served(l) BY DEF Served, Same
<1>2. UpToDate(w, l) BY <1>1
<1>3. /\ Target(l)' = Target(l)
      /\ \A m : Qualifies(rule[l], m)' <=> Qualifies(rule[l], m)
    BY TargetSame DEF Same
<1>4. \A j, users : Brought(j, l, users) => Brought(j, l, users)' BY BroughtSame DEF Same
<1>5. Brought(work[w].job, l, mirror[l]) => Brought(work[w].job, l, mirror[l])'
    <2>1. PICK j : j = work[w].job OBVIOUS
    <2>2. PICK users : users = mirror[l] OBVIOUS
    <2> QED BY <1>4, <2>1, <2>2 DEF Same
<1>6. Brought(work[w].job, l, upUsers[l]) => Brought(work[w].job, l, upUsers[l])'
    <2>1. PICK j : j = work[w].job OBVIOUS
    <2>2. PICK users : users = upUsers[l] OBVIOUS
    <2> QED BY <1>4, <2>1, <2>2 DEF Same
<1>7. /\ members' = members /\ LinkOf(w)' = LinkOf(w)
      /\ mirror'[l] = mirror[l] /\ upUsers'[l] = upUsers[l]
      /\ rule'[l] = rule[l] /\ token'[l] = token[l]
    BY DEF Same, people, LinkOf
<1> QED BY <1>2, <1>3, <1>5, <1>6, <1>7 DEF UpToDate

(* What is calm is a link. *)
CalmLinks == \A w \in Workers : calm[w] \subseteq Links

(* Every step of the system leaves the calm links of every job up to date. *)
LEMMA CalmStep ==
    ASSUME TypeOK, CalmLinks, CalmInv, HNext
    PROVE  CalmLinks' /\ CalmInv'
<1>1. CalmLinks' BY DEF HNext, Remember, CalmLinks
<1>2. ASSUME NEW w \in Workers, NEW l \in calm'[w], Served(l)' PROVE UpToDate(w, l)'
    <2>1. CASE At(w, "idle")'
        <3>1. exact'[w] = {} BY <2>1 DEF HNext, Remember
        <3> QED BY <2>1, <3>1 DEF UpToDate
    <2>2. CASE At(w, "idle") /\ ~At(w, "idle")'
        <3>1. exact'[w] = {k \in Links : mirror'[k] = upUsers'[k]}
            BY <2>2 DEF HNext, Remember
        <3>2. At(w, "guilds")' \/ At(w, "link")' BY <2>2, ClaimFirst
        <3> QED BY <3>1, <3>2 DEF UpToDate
    <2>3. CASE ~At(w, "idle") /\ ~At(w, "idle")'
        <3>1. /\ l \in calm[w] /\ exact'[w] = exact[w]
              /\ Own(w) \/ (work'[w] = work[w] /\ Same(l))
            BY <2>3, CalmNext
        <3>2. l \in Links BY <3>1 DEF CalmLinks
        <3>3. Served(l) => UpToDate(w, l) BY <3>1 DEF CalmInv
        <3>4. CASE Own(w)
            <4>1. Step(w) BY <2>3, <3>4, OwnStep DEF Own
            <4>2. PICK job : job = work[w].job OBVIOUS
            <4>3. faults' = faults BY <3>4 DEF Own
            <4> QED BY <1>2, <2>3, <3>1, <3>2, <3>3, <4>1, <4>2, <4>3, StepSettles
        <3>5. CASE work'[w] = work[w] /\ Same(l)
            BY <1>2, <3>1, <3>3, <3>5, StaysUpToDate
        <3> QED BY <3>1, <3>4, <3>5
    <2> QED BY <2>1, <2>2, <2>3
<1> QED BY <1>1, <1>2 DEF CalmInv

(* So does a step that changes nothing. *)
LEMMA StutterCalm ==
    TypeOK /\ CalmLinks /\ CalmInv /\ UNCHANGED hvars => TypeOK' /\ CalmLinks' /\ CalmInv'
<1> SUFFICES ASSUME TypeOK, CalmLinks, CalmInv, UNCHANGED hvars
             PROVE  TypeOK' /\ CalmLinks' /\ CalmInv'
    OBVIOUS
<1>1. TypeOK' BY TypeStep DEF hvars
<1>2. CalmLinks' BY DEF CalmLinks, hvars
<1>3. ASSUME NEW w \in Workers, NEW l \in calm'[w], Served(l)' PROVE UpToDate(w, l)'
    <2>1. work'[w] = work[w] /\ exact'[w] = exact[w] /\ l \in calm[w] /\ Same(l)
        BY DEF Same, people, hvars, vars
    <2>2. Served(l) => UpToDate(w, l) BY <2>1 DEF CalmInv
    <2> QED BY <1>3, <2>1, <2>2, StaysUpToDate
<1> QED BY <1>1, <1>2, <1>3 DEF CalmInv

(* The inductive invariant of a job that is left alone: no assumption on the rules,
   the limit, the failures or the changes around it. *)
THEOREM CalmJobsAreUpToDate == HSpec => [](TypeOK /\ CalmLinks /\ CalmInv)
<1>1. HInit => TypeOK /\ CalmLinks /\ CalmInv
    <2> SUFFICES ASSUME HInit PROVE TypeOK /\ CalmLinks /\ CalmInv OBVIOUS
    <2>1. TypeOK BY InitType DEF HInit
    <2>2. CalmLinks BY DEF HInit, CalmLinks
    <2>3. \A w \in Workers : At(w, "idle") /\ exact[w] = {} BY DEF HInit, Init, Idle
    <2>4. CalmInv BY <2>3 DEF CalmInv, UpToDate
    <2> QED BY <2>1, <2>2, <2>4
<1>2. TypeOK /\ CalmLinks /\ CalmInv /\ [HNext]_hvars => TypeOK' /\ CalmLinks' /\ CalmInv'
    <2>1. TypeOK /\ CalmLinks /\ CalmInv /\ HNext => TypeOK' /\ CalmLinks' /\ CalmInv'
        BY TypeStep, CalmStep DEF HNext
    <2> QED BY <2>1, StutterCalm
<1> QED BY <1>1, <1>2, PTL DEF HSpec

(* OPERATIONS.md: "a tick is sufficient to reconverge".  A job that ends without a
   failure, and whose rule, link and facts nobody else has touched meanwhile, has
   brought the mirror to what the rule asks for, and RoleLogic's list with it if
   the two agreed when the job was claimed. *)
THEOREM UndisturbedSettle == HSpec => UndisturbedJobsSettle
<1>1. ASSUME TypeOK, CalmLinks, CalmInv, HNext, NEW w \in Workers, NEW job \in Jobs,
             ~At(w, "idle"), work[w].job = job, At(w, "idle")', UNCHANGED <<faults, changes>>,
             NEW l \in calm[w], Served(l)'
      PROVE  /\ Brought(job, l, mirror[l])'
             /\ l \in exact[w] => Brought(job, l, upUsers[l])'
    <2>1. work'[w] # work[w] BY <1>1
    <2>2. Step(w) BY <1>1, <2>1, OwnStep
    <2>3. l \in Links BY <1>1 DEF CalmLinks
    <2>4. Served(l) => UpToDate(w, l) BY <1>1 DEF CalmInv
    <2>5. Settled(w, job, l) BY <1>1, <2>2, <2>3, <2>4, StepSettles
    <2> QED BY <2>5 DEF Settled
<1>2. TypeOK /\ CalmLinks /\ CalmInv /\ [HNext]_hvars =>
        [\A w \in Workers, job \in Jobs :
          /\ ~At(w, "idle") /\ work[w].job = job
          /\ At(w, "idle")' /\ UNCHANGED <<faults, changes>>
          => \A l \in calm[w] : Served(l)' =>
                /\ Brought(job, l, mirror[l])'
                /\ l \in exact[w] => Brought(job, l, upUsers[l])']_hvars
    BY <1>1
<1> QED BY <1>2, CalmJobsAreUpToDate, PTL DEF HSpec, UndisturbedJobsSettle
=============================================================================
