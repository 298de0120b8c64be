----------------------------- MODULE SyncProofs -----------------------------
(***************************************************************************)
(* The sync engine keeps its types, no job takes a role from a member who  *)
(* is entitled to it throughout, and the mirror of a link that is not in   *)
(* doubt is exact: for any members, links, workers, changes and failures.  *)
(***************************************************************************)
EXTENDS SyncHistory, SyncMirror, FiniteSetTheorems, TLAPS

(* Nobody is cut off by user_limit: only then is "entitled" a matter of the member
   alone. *)
LEMMA FirstOfAll ==
    ASSUME Cardinality(Members) <= Limit, NEW S \in SUBSET Members
    PROVE  FirstOf(S) = S
<1> SUFFICES ASSUME NEW m \in S PROVE Cardinality({n \in S : n < m}) < Limit
    BY DEF FirstOf
<1> DEFINE B == {n \in S : n < m}
<1>1. IsFiniteSet(Members) /\ Members \subseteq Nat /\ Limit \in Nat BY SyncAssumption
<1>2. m \in Members /\ m \in Nat /\ ~(m < m)  BY <1>1
<1>2a. B \subseteq Members \ {m}  BY <1>2
<1>3. /\ IsFiniteSet(Members \ {m})
      /\ Cardinality(Members \ {m}) = Cardinality(Members) - 1
    BY <1>1, <1>2, FS_RemoveElement
<1>4. IsFiniteSet(B) /\ Cardinality(B) <= Cardinality(Members \ {m})
    BY <1>2a, <1>3, FS_Subset
<1>5. Cardinality(B) \in Nat /\ Cardinality(Members) \in Nat
    BY <1>1, <1>4, FS_CardinalityType
<1> QED BY <1>1, <1>3, <1>4, <1>5

-----------------------------------------------------------------------------
(* Types                                                                   *)

USE DEF At

LEMMA InWork ==
    ASSUME NEW x
    PROVE  x \in Work <=>
              \/ x = Idle \/ x \in Looking \/ x \in Acting \/ x \in Finding
              \/ x \in Listing \/ x \in Inserting
              \/ \E R \in SUBSET Links : x \in Judging(R)
              \/ \E R \in SUBSET Links : x \in Comparing(R)
BY DEF Work

(* What a worker holds, by the step it is at. *)
LEMMA Shapes ==
    ASSUME TypeOK, NEW w \in Workers
    PROVE  /\ At(w, "idle") => work[w] = Idle
           /\ At(w, "guilds") \/ At(w, "links") => work[w] \in Looking
           /\ At(w, "birthday") => \E R \in SUBSET Links : work[w] \in Judging(R)
           /\ At(w, "existing") => \E R \in SUBSET Links : work[w] \in Comparing(R)
           /\ At(w, "actions") => work[w] \in Acting
           /\ At(w, "link") => work[w] \in Finding
           /\ At(w, "insert") => work[w] \in Inserting
           /\ work[w].step \in {"drain", "members", "info", "query", "compare", "put", "delete"}
                 => work[w] \in Listing
           /\ ~At(w, "idle") => work[w].job \in Jobs
<1>1. \/ work[w] = Idle \/ work[w] \in Looking \/ work[w] \in Acting
      \/ work[w] \in Finding \/ work[w] \in Listing \/ work[w] \in Inserting
      \/ \E R \in SUBSET Links : work[w] \in Judging(R)
      \/ \E R \in SUBSET Links : work[w] \in Comparing(R)
    BY InWork DEF TypeOK
<1>2. CASE work[w] = Idle BY <1>2 DEF Idle
<1>3. CASE work[w] \in Looking BY <1>3 DEF Looking, Jobs, PlayerJobs
<1>4. ASSUME NEW R \in SUBSET Links, work[w] \in Judging(R) PROVE
        /\ At(w, "birthday") /\ work[w].job \in Jobs
    BY <1>4 DEF Judging, Jobs, PlayerJobs
<1>5. ASSUME NEW R \in SUBSET Links, work[w] \in Comparing(R) PROVE
        /\ At(w, "existing") /\ work[w].job \in Jobs
    BY <1>5 DEF Comparing, Jobs, PlayerJobs
<1>6. CASE work[w] \in Acting BY <1>6 DEF Acting, Jobs, PlayerJobs
<1>7. CASE work[w] \in Finding BY <1>7 DEF Finding, Jobs, ConfigJobs
<1>8. CASE work[w] \in Listing
    <2>1. /\ work[w].step \in {"drain", "members", "info", "query", "compare", "put", "delete"}
          /\ work[w].job \in Jobs
        BY <1>8 DEF Listing, Jobs, ConfigJobs
    <2> QED BY <1>8, <2>1
<1>9. CASE work[w] \in Inserting BY <1>9 DEF Inserting, Jobs, ConfigJobs
<1>10. CASE \E R \in SUBSET Links : work[w] \in Judging(R) BY <1>4, <1>10
<1>11. CASE \E R \in SUBSET Links : work[w] \in Comparing(R) BY <1>5, <1>11
<1> QED BY <1>1, <1>2, <1>3, <1>6, <1>7, <1>8, <1>9, <1>10, <1>11

-----------------------------------------------------------------------------
(* What the parts of actions do to the types.                              *)

LEMMA CountersType ==
    ASSUME TypeOK, NEW k
    PROVE  /\ Fault(k) => faults' \in 0..MaxFaults
           /\ Change(k) => changes' \in 0..MaxChanges
BY SyncAssumption DEF TypeOK, Fault, Change

LEMMA BecomeType ==
    ASSUME TypeOK, NEW w \in Workers, NEW x \in Work, Become(w, x)
    PROVE  work' \in [Workers -> Work]
BY DEF TypeOK, Become

LEMMA IdleWork == Idle \in Work
BY InWork

LEMMA DoneType ==
    ASSUME TypeOK, NEW w \in Workers, Done(w)
    PROVE  work' \in [Workers -> Work] /\ pending' = pending
BY IdleWork, BecomeType DEF Done

LEMMA PutType ==
    ASSUME TypeOK, NEW job \in Jobs, Put(job)
    PROVE  pending' \in [Jobs -> Nat]
BY DEF TypeOK, Put

LEMMA RetryType ==
    ASSUME TypeOK, NEW w \in Workers, ~At(w, "idle"), Retry(w)
    PROVE  work' \in [Workers -> Work] /\ pending' \in [Jobs -> Nat]
<1>1. work[w].job \in Jobs BY Shapes
<1>2. work' \in [Workers -> Work] BY IdleWork, BecomeType DEF Retry
<1> QED BY <1>1, <1>2, PutType DEF Retry, TypeOK

LEMMA DeleteRowType ==
    ASSUME TypeOK, NEW l \in Links, DeleteRow(l)
    PROVE  /\ token' \in [Links -> 0..MaxToken]
           /\ rule' \in [Links -> Rules]
           /\ mirror' \in [Links -> SUBSET Members]
<1>1. token' \in [Links -> 0..MaxToken]
    BY SyncAssumption DEF TypeOK, DeleteRow
<1>2. rule' \in [Links -> Rules] BY DEF TypeOK, DeleteRow, Rules
<1>3. mirror' \in [Links -> SUBSET Members] BY DEF TypeOK, DeleteRow
<1> QED BY <1>1, <1>2, <1>3

LEMMA DeleteOrphanType ==
    ASSUME TypeOK, NEW l \in Links, DeleteOrphan(l)
    PROVE  /\ token' \in [Links -> 0..MaxToken]
           /\ rule' \in [Links -> Rules]
           /\ mirror' \in [Links -> SUBSET Members]
           /\ faults' \in 0..MaxFaults
<1>1. CASE DeleteRow(l) /\ UNCHANGED faults BY <1>1, DeleteRowType DEF TypeOK
<1>2. CASE Fault("lost_write") /\ UNCHANGED db BY <1>2, CountersType DEF TypeOK, db
<1> QED BY <1>1, <1>2 DEF DeleteOrphan

LEMMA EnqueueType ==
    ASSUME TypeOK, NEW job \in Jobs, Enqueue(job)
    PROVE  pending' \in [Jobs -> Nat] /\ faults' \in 0..MaxFaults
BY CountersType, PutType DEF Enqueue, TypeOK

(* The rows that are inserted leave the states of the others what they are. *)
LEMMA InsertRowsType ==
    ASSUME TypeOK, NEW w \in Workers, NEW x \in Work, NEW l, NEW S, InsertRows(w, x, l, S)
    PROVE  work' \in [Workers -> Work]
<1>1. SUFFICES ASSUME NEW v \in Workers, v # w, At(v, "insert")
               PROVE  [work[v] EXCEPT !.deleted = @ \ S] \in Work
    BY DEF InsertRows, TypeOK
<1>2. work[v] \in Inserting BY <1>1, Shapes
<1>3. [work[v] EXCEPT !.deleted = @ \ S] \in Inserting BY <1>2 DEF Inserting
<1> QED BY <1>3, InWork

-----------------------------------------------------------------------------
LEMMA InitType == Init => TypeOK
<1> SUFFICES ASSUME Init PROVE TypeOK OBVIOUS
<1>1. \A w \in Workers : work[w] \in Work BY IdleWork DEF Init
<1>2. work \in [Workers -> Work] BY <1>1 DEF Init
<1> QED BY <1>2, SyncAssumption DEF Init, TypeOK, Rules, NoJobs

LEMMA WorldType ==
    ASSUME TypeOK, World
    PROVE  TypeOK'
<1> USE SyncAssumption DEF db, people, upstream, Rules
<1>1. ASSUME NEW m \in Members, SaveBirthday(m) \/ Unlink(m) PROVE TypeOK'
    <2>1. PlayerSync(m) \in Jobs BY DEF Jobs
    <2>2. pending' \in [Jobs -> Nat] /\ faults' \in 0..MaxFaults
        BY <1>1, <2>1, EnqueueType DEF SaveBirthday, Unlink
    <2>3. changes' \in 0..MaxChanges BY <1>1, CountersType DEF SaveBirthday, Unlink
    <2> QED BY <1>1, <2>2, <2>3 DEF TypeOK, SaveBirthday, Unlink
<1>2. ASSUME NEW m \in Members, Calendar(m) \/ Membership(m) PROVE TypeOK'
    <2>1. changes' \in 0..MaxChanges BY <1>2, CountersType DEF Calendar, Membership
    <2> QED BY <1>2, <2>1 DEF TypeOK, Calendar, Membership
<1>3. ASSUME NEW l \in Links, NEW r \in Rules, SaveRule(l, r) PROVE TypeOK'
    <2>1. ConfigSync(l) \in Jobs BY DEF Jobs
    <2>2. pending' \in [Jobs -> Nat] /\ faults' \in 0..MaxFaults
        BY <1>3, <2>1, EnqueueType DEF SaveRule
    <2>3. changes' \in 0..MaxChanges BY <1>3, CountersType DEF SaveRule
    <2> QED BY <1>3, <2>2, <2>3 DEF TypeOK, SaveRule
<1>4. ASSUME NEW l \in Links, Toggle(l) \/ UpstreamDelete(l) PROVE TypeOK'
    <2>1. changes' \in 0..MaxChanges BY <1>4, CountersType DEF Toggle, UpstreamDelete
    <2>2. CASE Toggle(l) BY <2>1, <2>2 DEF TypeOK, Toggle
    <2>3. CASE UpstreamDelete(l)
        <3>1. upToken' \in [Links -> 0..MaxToken] BY <2>3 DEF TypeOK, UpstreamDelete
        <3>2. upUsers' \in [Links -> SUBSET Members] BY <2>3 DEF TypeOK, UpstreamDelete
        <3> QED BY <2>1, <2>3, <3>1, <3>2 DEF TypeOK, UpstreamDelete
    <2> QED BY <1>4, <2>2, <2>3
<1>5. ASSUME NEW l \in Links, UpstreamCreate(l) \/ Register(l) PROVE TypeOK'
    <2>1. CASE UpstreamCreate(l)
        <3>1. tokens' \in 1..MaxToken BY <2>1 DEF TypeOK, UpstreamCreate
        <3>2. upToken' \in [Links -> 0..MaxToken] BY <2>1, <3>1 DEF TypeOK, UpstreamCreate
        <3>3. upEnabled' \in [Links -> BOOLEAN] BY <2>1 DEF TypeOK, UpstreamCreate
        <3>4. changes' \in 0..MaxChanges BY <2>1, CountersType DEF UpstreamCreate
        <3> QED BY <2>1, <3>1, <3>2, <3>3, <3>4 DEF TypeOK, UpstreamCreate
    <2>2. CASE Register(l) BY <2>2 DEF TypeOK, Register
    <2> QED BY <1>5, <2>1, <2>2
<1>6. ASSUME NEW l \in Links, DeleteConfig(l) PROVE TypeOK'
    BY <1>6, DeleteRowType DEF TypeOK, DeleteConfig
<1>7. CASE Restore
    <2>1. changes' \in 0..MaxChanges BY <1>7, CountersType DEF Restore
    <2>2. work' \in [Workers -> Work] BY <1>7, IdleWork DEF Restore
    <2> QED BY <1>7, <2>1, <2>2 DEF TypeOK, Restore, NoJobs
<1> QED BY <1>1, <1>2, <1>3, <1>4, <1>5, <1>6, <1>7 DEF World

LEMMA SystemType ==
    ASSUME TypeOK,
           \/ \E l \in Links : Tick(l)
           \/ \E w \in Workers, job \in Jobs : Claim(w, job)
           \/ \E w \in Workers : Crash(w)
    PROVE  TypeOK'
<1> USE DEF db, people, upstream
<1>1. ASSUME NEW l \in Links, Tick(l) PROVE TypeOK'
    <2>1. ConfigSync(l) \in Jobs BY DEF Jobs
    <2>2. pending' \in [Jobs -> Nat] BY <1>1, <2>1, PutType DEF Tick
    <2> QED BY <1>1, <2>2 DEF Tick, TypeOK
<1>2. ASSUME NEW w \in Workers, NEW job \in Jobs, Claim(w, job) PROVE TypeOK'
    <2> DEFINE x == [step |-> IF job.kind = "player_sync" THEN "guilds" ELSE "link", job |-> job]
    <2>1. x \in Looking \/ x \in Finding
        <3>1. CASE job \in PlayerJobs
            <4>1. job.kind = "player_sync" BY <3>1 DEF PlayerJobs, PlayerSync
            <4> QED BY <3>1, <4>1 DEF Looking
        <3>2. CASE job \in ConfigJobs
            <4>1. job.kind # "player_sync" BY <3>2 DEF ConfigJobs, ConfigSync
            <4> QED BY <3>2, <4>1 DEF Finding
        <3> QED BY <3>1, <3>2 DEF Jobs, PlayerJobs, ConfigJobs
    <2>2. x \in Work BY <2>1, InWork
    <2>3. work' \in [Workers -> Work]
        <3>1. Become(w, x) BY <1>2 DEF Claim
        <3> QED BY <2>2, <3>1, BecomeType
    <2>4. pending' \in [Jobs -> Nat] /\ faults' \in 0..MaxFaults
        BY <1>2, CountersType DEF Claim, TypeOK
    <2> QED BY <1>2, <2>3, <2>4 DEF Claim, TypeOK
<1>3. ASSUME NEW w \in Workers, Crash(w) PROVE TypeOK'
    <2>1. work[w].job \in Jobs BY <1>3, Shapes DEF Crash
    <2>2. faults' \in 0..MaxFaults BY <1>3, CountersType DEF Crash
    <2>3. work' \in [Workers -> Work] BY <1>3, IdleWork, BecomeType DEF Crash
    <2>4. pending' \in [Jobs -> Nat] BY <1>3, <2>1, PutType DEF Crash
    <2> QED BY <1>3, <2>2, <2>3, <2>4 DEF Crash, TypeOK
<1> QED BY <1>1, <1>2, <1>3

(* A step that changes nothing but the worker, the jobs and the count of faults. *)
LEMMA ReadOnlyType ==
    ASSUME TypeOK, ReadOnly, work' \in [Workers -> Work], pending' \in [Jobs -> Nat],
           faults' \in 0..MaxFaults
    PROVE  TypeOK'
BY DEF TypeOK, ReadOnly, db, people, upstream

LEMMA PlayerReadsType ==
    ASSUME TypeOK, NEW w \in Workers,
           PlayerGuilds(w) \/ PlayerLinks(w) \/ PlayerBirthday(w) \/ PlayerDiff(w)
    PROVE  TypeOK'
<1>0. pending \in [Jobs -> Nat] /\ faults \in 0..MaxFaults BY DEF TypeOK
<1>1. CASE PlayerGuilds(w)
    <2>1. work[w] \in Looking /\ ~At(w, "idle") BY <1>1, Shapes DEF PlayerGuilds
    <2>2. [work[w] EXCEPT !.step = "links"] \in Work
        <3>1. [work[w] EXCEPT !.step = "links"] \in Looking BY <2>1 DEF Looking
        <3> QED BY <3>1, InWork
    <2>3. Become(w, [work[w] EXCEPT !.step = "links"]) => work' \in [Workers -> Work]
        BY <2>2, BecomeType
    <2>4. /\ work' \in [Workers -> Work]
          /\ pending' \in [Jobs -> Nat] /\ faults' \in 0..MaxFaults
        BY <1>0, <1>1, <2>1, <2>3, DoneType, RetryType, CountersType DEF PlayerGuilds
    <2> QED BY <1>1, <2>4, ReadOnlyType DEF PlayerGuilds
<1>2. CASE PlayerLinks(w)
    <2> DEFINE rows == {l \in Links : token[l] # 0}
               x == [step |-> "birthday", job |-> work[w].job,
                     tokens |-> [l \in rows |-> token[l]], trees |-> [l \in rows |-> rule[l]]]
    <2>1. work[w] \in Looking BY <1>2, Shapes DEF PlayerLinks
    <2>2. x \in Judging(rows)
        <3>1. [l \in rows |-> token[l]] \in [rows -> 1..MaxToken]
            BY SyncAssumption DEF TypeOK
        <3>2. [l \in rows |-> rule[l]] \in [rows -> Rules] BY DEF TypeOK
        <3>3. work[w].job \in PlayerJobs BY <2>1 DEF Looking
        <3> HIDE DEF rows
        <3> QED BY <3>1, <3>2, <3>3 DEF Judging
    <2>3. x \in Work
        <3>1. rows \in SUBSET Links OBVIOUS
        <3> HIDE DEF rows, x
        <3> QED BY <2>2, <3>1, InWork
    <2>4. Become(w, x) => work' \in [Workers -> Work]
        <3> HIDE DEF x
        <3> QED BY <2>3, BecomeType
    <2>5. work' \in [Workers -> Work] /\ pending' \in [Jobs -> Nat] /\ faults' \in 0..MaxFaults
        BY <1>0, <1>2, <2>4, DoneType DEF PlayerLinks
    <2> QED BY <1>2, <2>5, ReadOnlyType DEF PlayerLinks
<1>3. CASE PlayerBirthday(w)
    <2>1. PICK R \in SUBSET Links : work[w] \in Judging(R)
        BY <1>3, Shapes DEF PlayerBirthday
    <2> DEFINE wants == {l \in DOMAIN work[w].trees : Qualifies(work[w].trees[l], work[w].job.who)}
               x == [step |-> "existing", job |-> work[w].job, tokens |-> work[w].tokens,
                     wants |-> wants]
    <2>2. x \in Comparing(R)
        <3>1. DOMAIN work[w].trees = R BY <2>1 DEF Judging
        <3>2. wants \subseteq R BY <3>1
        <3>3. work[w].job \in PlayerJobs /\ work[w].tokens \in [R -> 1..MaxToken]
            BY <2>1 DEF Judging
        <3> HIDE DEF wants
        <3> QED BY <3>2, <3>3 DEF Comparing
    <2>3. x \in Work
        <3> HIDE DEF x
        <3> QED BY <2>2, InWork
    <2>4. work' \in [Workers -> Work] BY <1>3, <2>3, BecomeType DEF PlayerBirthday
    <2> QED BY <1>0, <1>3, <2>4, ReadOnlyType DEF PlayerBirthday
<1>4. CASE PlayerDiff(w)
    <2>1. PICK R \in SUBSET Links : work[w] \in Comparing(R)
        BY <1>4, Shapes DEF PlayerDiff
    <2> DEFINE wants == work[w].wants
               existing == {l \in DOMAIN work[w].tokens : work[w].job.who \in mirror[l]}
               Todo(op, S) == {[op |-> op, link |-> l, token |-> work[w].tokens[l],
                                called |-> FALSE] : l \in S}
               todo == Todo("add", wants \ existing) \union Todo("remove", existing \ wants)
               x == [step |-> "actions", job |-> work[w].job, todo |-> todo]
    <2>2. x \in Acting
        <3>1. DOMAIN work[w].tokens = R /\ wants \subseteq R BY <2>1 DEF Comparing
        <3>2. work[w].job \in PlayerJobs /\ \A l \in R : work[w].tokens[l] \in 1..MaxToken
            BY <2>1 DEF Comparing
        <3>3. existing \subseteq R BY <3>1
        <3>4. ASSUME NEW op \in {"add", "remove"}, NEW S \in SUBSET R
              PROVE  Todo(op, S) \subseteq Actions
            <4>1. ASSUME NEW l \in S
                  PROVE  [op |-> op, link |-> l, token |-> work[w].tokens[l], called |-> FALSE] \in Actions
                <5>1. l \in Links /\ work[w].tokens[l] \in 1..MaxToken BY <3>2
                <5> QED BY <5>1 DEF Actions
            <4> QED BY <4>1
        <3>5. wants \ existing \in SUBSET R /\ existing \ wants \in SUBSET R
            BY <3>1, <3>3
        <3> HIDE DEF wants, existing, Todo
        <3>6. todo \subseteq Actions BY <3>4, <3>5
        <3> HIDE DEF todo
        <3> QED BY <3>2, <3>6 DEF Acting
    <2>3. x \in Work
        <3> HIDE DEF x
        <3> QED BY <2>2, InWork
    <2>4. Done(w) \/ (Become(w, x) /\ UNCHANGED pending)
        BY <1>4 DEF PlayerDiff
    <2>5. work' \in [Workers -> Work] /\ pending' = pending
        <3> HIDE DEF x
        <3> QED BY <2>3, <2>4, DoneType, BecomeType
    <2> QED BY <1>0, <1>4, <2>5, ReadOnlyType DEF PlayerDiff
<1> QED BY <1>1, <1>2, <1>3, <1>4

LEMMA FinishedType ==
    ASSUME TypeOK, NEW w \in Workers, At(w, "actions"), NEW a \in work[w].todo
    PROVE  /\ a \in Actions /\ work[w].job \in PlayerJobs
           /\ Finished(w, a) \in Work
           /\ Finish(w, a) => work' \in [Workers -> Work] /\ pending' = pending
           /\ [work[w] EXCEPT !.todo = (work[w].todo \ {a}) \union {[a EXCEPT !.called = TRUE]}] \in Work
<1>1. work[w] \in Acting BY Shapes
<1>2. a \in Actions /\ work[w].job \in PlayerJobs BY <1>1 DEF Acting
<1>3. Finished(w, a) \in Work
    <2>1. [work[w] EXCEPT !.todo = work[w].todo \ {a}] \in Acting BY <1>1 DEF Acting
    <2> QED BY <2>1, InWork DEF Finished
<1>4. [work[w] EXCEPT !.todo = (work[w].todo \ {a}) \union {[a EXCEPT !.called = TRUE]}] \in Work
    <2>1. [a EXCEPT !.called = TRUE] \in Actions BY <1>2 DEF Actions
    <2>2. (work[w].todo \ {a}) \union {[a EXCEPT !.called = TRUE]} \subseteq Actions
        BY <1>1, <2>1 DEF Acting
    <2>3. [work[w] EXCEPT !.todo = (work[w].todo \ {a}) \union {[a EXCEPT !.called = TRUE]}] \in Acting
        BY <1>1, <2>2 DEF Acting
    <2> QED BY <2>3, InWork
<1> QED BY <1>2, <1>3, <1>4, BecomeType DEF Finish

LEMMA PlayerActionsType ==
    ASSUME TypeOK, NEW w \in Workers, At(w, "actions"), NEW a \in work[w].todo,
           PlayerCall(w, a) \/ PlayerMirror(w, a)
    PROVE  TypeOK'
<1> DEFINE m == work[w].job.who
           l == a.link
           called == [work[w] EXCEPT !.todo = (work[w].todo \ {a}) \union {[a EXCEPT !.called = TRUE]}]
<1>1. l \in Links BY FinishedType DEF Actions
<1>2. m \in Members
    <2>1. work[w].job \in PlayerJobs BY FinishedType
    <2> QED BY <2>1 DEF PlayerJobs, PlayerSync
<1>3. Finish(w, a) => work' \in [Workers -> Work] /\ pending' = pending BY FinishedType
<1>4. Become(w, called) => work' \in [Workers -> Work]
    <2>1. called \in Work BY FinishedType
    <2> HIDE DEF called
    <2> QED BY <2>1, BecomeType
<1>5. CASE PlayerCall(w, a)
    <2>1. [upUsers EXCEPT ![l] = After(a, m)] \in [Links -> SUBSET Members]
        BY <1>1, <1>2 DEF After, TypeOK
    <2>2. upUsers' = upUsers \/ upUsers' = [upUsers EXCEPT ![l] = After(a, m)]
        BY <1>5 DEF PlayerCall
    <2>3. Finish(w, a) \/ (Become(w, called) /\ UNCHANGED pending)
        BY <1>5 DEF PlayerCall
    <2>4. \/ DeleteOrphan(l)
          \/ UNCHANGED db /\ (UNCHANGED faults \/ Fault("upstream") \/ Fault("lost_answer"))
        BY <1>5 DEF PlayerCall
    <2>5. /\ token' \in [Links -> 0..MaxToken] /\ rule' \in [Links -> Rules]
          /\ mirror' \in [Links -> SUBSET Members] /\ faults' \in 0..MaxFaults
        BY <1>1, <2>4, DeleteOrphanType, CountersType DEF TypeOK, db
    <2>6. work' \in [Workers -> Work] /\ pending' = pending BY <1>3, <1>4, <2>3
    <2>7. upUsers' \in [Links -> SUBSET Members] BY <2>1, <2>2 DEF TypeOK
    <2> QED BY <1>5, <2>5, <2>6, <2>7 DEF PlayerCall, TypeOK, people
<1>6. CASE PlayerMirror(w, a)
    <2>1. \A S : InsertRows(w, Finished(w, a), l, S) => work' \in [Workers -> Work]
        BY FinishedType, InsertRowsType
    <2>2. work' \in [Workers -> Work] BY <1>3, <1>6, <2>1 DEF PlayerMirror
    <2>3. mirror' \in [Links -> SUBSET Members]
        BY <1>1, <1>2, <1>6 DEF PlayerMirror, TypeOK
    <2>4. faults' \in 0..MaxFaults BY <1>6, CountersType DEF PlayerMirror, TypeOK
    <2> QED BY <1>6, <2>2, <2>3, <2>4 DEF PlayerMirror, TypeOK, people, upstream
<1> QED BY <1>5, <1>6

(* sync_for_role_link, up to the upload. *)
LEMMA ListingType ==
    ASSUME TypeOK, NEW w \in Workers,
           work[w].step \in {"drain", "members", "info", "query", "compare", "put", "delete"}
    PROVE  /\ work[w] \in Listing /\ ~At(w, "idle")
           /\ LinkOf(w) \in Links
           /\ \A s \in {"drain", "members", "info", "query", "compare", "put", "delete"},
                 S \in SUBSET Members :
                 /\ [work[w] EXCEPT !.step = s] \in Work
                 /\ [work[w] EXCEPT !.step = s, !.list = S] \in Work
<1>1. work[w] \in Listing BY Shapes
<1>2. LinkOf(w) \in Links BY <1>1 DEF Listing, ConfigJobs, ConfigSync, LinkOf
<1>3. ASSUME NEW s \in {"drain", "members", "info", "query", "compare", "put", "delete"},
             NEW S \in SUBSET Members
      PROVE  /\ [work[w] EXCEPT !.step = s] \in Work
             /\ [work[w] EXCEPT !.step = s, !.list = S] \in Work
    <2>1. /\ [work[w] EXCEPT !.step = s] \in Listing
          /\ [work[w] EXCEPT !.step = s, !.list = S] \in Listing
        BY <1>1 DEF Listing
    <2> QED BY <2>1, InWork
<1> QED BY <1>1, <1>2, <1>3

LEMMA ConfigReadsType ==
    ASSUME TypeOK, NEW w \in Workers,
           \/ ConfigLink(w) \/ ConfigMembers(w) \/ ConfigQuery(w) \/ ConfigCompare(w)
           \/ DrainCheck(w)
    PROVE  TypeOK'
<1>0. pending \in [Jobs -> Nat] /\ faults \in 0..MaxFaults BY DEF TypeOK
<1>1. CASE ConfigLink(w)
    <2> DEFINE l == LinkOf(w)
               x == [step |-> IF rule[l] = "none" THEN "drain" ELSE "members",
                     job |-> work[w].job, token |-> token[l], tree |-> rule[l], list |-> {}]
    <2>1. work[w] \in Finding BY <1>1, Shapes DEF ConfigLink
    <2>2. l \in Links /\ work[w].job \in ConfigJobs
        BY <2>1 DEF Finding, ConfigJobs, ConfigSync, LinkOf
    <2>3. token[l] # 0 => x \in Listing BY <2>2, SyncAssumption DEF Listing, TypeOK
    <2>4. token[l] # 0 => x \in Work
        <3> HIDE DEF x
        <3> QED BY <2>3, InWork
    <2>5. Done(w) \/ (token[l] # 0 /\ Become(w, x) /\ UNCHANGED pending)
        BY <1>1 DEF ConfigLink
    <2>6. work' \in [Workers -> Work] /\ pending' = pending
        <3> HIDE DEF x
        <3> QED BY <2>4, <2>5, DoneType, BecomeType
    <2> QED BY <1>0, <1>1, <2>6, ReadOnlyType DEF ConfigLink
<1>2. CASE ConfigMembers(w)
    <2> DEFINE x == [work[w] EXCEPT !.step = IF members = {} THEN "drain" ELSE "info",
                                    !.list = members]
    <2>1. x \in Work /\ ~At(w, "idle") BY <1>2, ListingType DEF ConfigMembers, TypeOK
    <2>2. \/ Become(w, x) /\ UNCHANGED <<pending, faults>>
          \/ Fault("gateway") /\ Retry(w)
        BY <1>2 DEF ConfigMembers
    <2>3. work' \in [Workers -> Work] /\ pending' \in [Jobs -> Nat] /\ faults' \in 0..MaxFaults
        <3> HIDE DEF x
        <3> QED BY <1>0, <2>1, <2>2, BecomeType, RetryType, CountersType
    <2> QED BY <1>2, <2>3, ReadOnlyType DEF ConfigMembers
<1>3. CASE ConfigQuery(w)
    <2> DEFINE S == FirstOf({m \in work[w].list : Qualifies(work[w].tree, m)})
               x == [work[w] EXCEPT !.step = "compare", !.list = S]
    <2>1. work[w].list \subseteq Members BY <1>3, ListingType DEF ConfigQuery, Listing
    <2>2. S \subseteq Members BY <2>1 DEF FirstOf
    <2>3. x \in Work
        <3> HIDE DEF S
        <3> QED BY <1>3, <2>2, ListingType DEF ConfigQuery
    <2>4. work' \in [Workers -> Work] BY <1>3, <2>3, BecomeType DEF ConfigQuery
    <2> QED BY <1>0, <1>3, <2>4, ReadOnlyType DEF ConfigQuery
<1>4. CASE ConfigCompare(w)
    <2>1. [work[w] EXCEPT !.step = "put"] \in Work BY <1>4, ListingType DEF ConfigCompare
    <2>2. work' \in [Workers -> Work] /\ pending' = pending
        BY <1>4, <2>1, DoneType, BecomeType DEF ConfigCompare
    <2> QED BY <1>0, <1>4, <2>2, ReadOnlyType DEF ConfigCompare
<1>5. CASE DrainCheck(w)
    <2>1. [work[w] EXCEPT !.step = "put", !.list = {}] \in Work
        BY <1>5, ListingType DEF DrainCheck
    <2>2. work' \in [Workers -> Work] /\ pending' = pending
        BY <1>5, <2>1, DoneType, BecomeType DEF DrainCheck
    <2> QED BY <1>0, <1>5, <2>2, ReadOnlyType DEF DrainCheck
<1> QED BY <1>1, <1>2, <1>3, <1>4, <1>5

LEMMA ConfigCallsType ==
    ASSUME TypeOK, NEW w \in Workers, ConfigUserInfo(w) \/ ConfigPut(w)
    PROVE  TypeOK'
<1> DEFINE l == LinkOf(w)
<1>1. work[w] \in Listing /\ ~At(w, "idle") /\ l \in Links
    BY ListingType DEF ConfigUserInfo, ConfigPut
<1>2. work[w].list \subseteq Members BY <1>1 DEF Listing
<1>3. pending \in [Jobs -> Nat] BY DEF TypeOK
<1>4. CASE ConfigUserInfo(w)
    <2>1. [work[w] EXCEPT !.step = "query"] \in Work BY <1>4, ListingType DEF ConfigUserInfo
    <2>2. \/ Done(w) \/ Retry(w)
          \/ Become(w, [work[w] EXCEPT !.step = "query"]) /\ UNCHANGED pending
        BY <1>4 DEF ConfigUserInfo
    <2>3. work' \in [Workers -> Work] /\ pending' \in [Jobs -> Nat]
        BY <1>1, <1>3, <2>1, <2>2, DoneType, RetryType, BecomeType
    <2>4. DeleteOrphan(l) \/ (UNCHANGED db /\ (UNCHANGED faults \/ Fault("upstream")))
        BY <1>4 DEF ConfigUserInfo
    <2>5. /\ token' \in [Links -> 0..MaxToken] /\ rule' \in [Links -> Rules]
          /\ mirror' \in [Links -> SUBSET Members] /\ faults' \in 0..MaxFaults
        BY <1>1, <2>4, DeleteOrphanType, CountersType DEF TypeOK, db
    <2> QED BY <1>4, <2>3, <2>5 DEF ConfigUserInfo, TypeOK, people, upstream
<1>5. CASE ConfigPut(w)
    <2>1. [work[w] EXCEPT !.step = "delete"] \in Work BY <1>5, ListingType DEF ConfigPut
    <2>2. \/ Done(w) \/ Retry(w)
          \/ Become(w, [work[w] EXCEPT !.step = "delete"]) /\ UNCHANGED pending
        BY <1>5 DEF ConfigPut
    <2>3. work' \in [Workers -> Work] /\ pending' \in [Jobs -> Nat]
        BY <1>1, <1>3, <2>1, <2>2, DoneType, RetryType, BecomeType
    <2>4. \/ DeleteOrphan(l)
          \/ UNCHANGED db /\ (UNCHANGED faults \/ \E k \in FaultKinds : Fault(k))
        BY <1>5 DEF ConfigPut, FaultKinds
    <2>5. /\ token' \in [Links -> 0..MaxToken] /\ rule' \in [Links -> Rules]
          /\ mirror' \in [Links -> SUBSET Members] /\ faults' \in 0..MaxFaults
        BY <1>1, <2>4, DeleteOrphanType, CountersType DEF TypeOK, db
    <2>6. UNCHANGED upUsers \/ Upload(l, work[w].list) BY <1>5 DEF ConfigPut
    <2>7. upUsers' \in [Links -> SUBSET Members] BY <1>2, <2>6 DEF Upload, TypeOK
    <2> QED BY <1>5, <2>3, <2>5, <2>7 DEF ConfigPut, TypeOK, people
<1> QED BY <1>4, <1>5

LEMMA ConfigMirrorType ==
    ASSUME TypeOK, NEW w \in Workers, ConfigDelete(w) \/ ConfigInsert(w)
    PROVE  TypeOK'
<1> DEFINE l == LinkOf(w)
<1>0. pending \in [Jobs -> Nat] BY DEF TypeOK
<1>1. CASE ConfigDelete(w)
    <2> DEFINE x == [step |-> "insert", job |-> work[w].job, list |-> work[w].list,
                     deleted |-> mirror[l]]
    <2>1. work[w] \in Listing /\ ~At(w, "idle") /\ l \in Links
        BY <1>1, ListingType DEF ConfigDelete
    <2>2. x \in Work
        <3>1. x \in Inserting BY <2>1 DEF Listing, Inserting, TypeOK
        <3> HIDE DEF x
        <3> QED BY <3>1, InWork
    <2>3. Done(w) \/ Retry(w) \/ (Become(w, x) /\ UNCHANGED pending)
        BY <1>1 DEF ConfigDelete
    <2>4. work' \in [Workers -> Work] /\ pending' \in [Jobs -> Nat]
        <3> HIDE DEF x
        <3> QED BY <1>0, <2>1, <2>2, <2>3, DoneType, RetryType, BecomeType
    <2>5. mirror' \in [Links -> SUBSET Members] BY <1>1 DEF ConfigDelete, TypeOK
    <2>6. faults' \in 0..MaxFaults BY <1>1, CountersType DEF ConfigDelete, TypeOK
    <2> QED BY <1>1, <2>4, <2>5, <2>6 DEF ConfigDelete, TypeOK, people, upstream
<1>2. CASE ConfigInsert(w)
    <2>1. work[w] \in Inserting /\ ~At(w, "idle") BY <1>2, Shapes DEF ConfigInsert
    <2>2. l \in Links /\ work[w].list \subseteq Members
        BY <2>1 DEF Inserting, ConfigJobs, ConfigSync, LinkOf
    <2>3. Retry(w) \/ (InsertRows(w, Idle, l, work[w].list) /\ UNCHANGED pending)
        BY <1>2 DEF ConfigInsert
    <2>4. work' \in [Workers -> Work] /\ pending' \in [Jobs -> Nat]
        BY <1>0, <2>1, <2>3, RetryType, InsertRowsType, IdleWork
    <2>5. mirror' \in [Links -> SUBSET Members] BY <1>2, <2>2 DEF ConfigInsert, TypeOK
    <2>6. faults' \in 0..MaxFaults BY <1>2, CountersType DEF ConfigInsert, TypeOK
    <2> QED BY <1>2, <2>4, <2>5, <2>6 DEF ConfigInsert, TypeOK, people, upstream
<1> QED BY <1>1, <1>2

LEMMA TypeStep == TypeOK /\ [Next]_vars => TypeOK'
<1> SUFFICES ASSUME TypeOK, [Next]_vars PROVE TypeOK' OBVIOUS
<1>1. CASE World BY <1>1, WorldType
<1>2. CASE \/ \E l \in Links : Tick(l)
           \/ \E w \in Workers, job \in Jobs : Claim(w, job)
           \/ \E w \in Workers : Crash(w)
    BY <1>2, SystemType
<1>3. ASSUME NEW w \in Workers, Step(w) PROVE TypeOK'
    BY <1>3, PlayerReadsType, PlayerActionsType, ConfigReadsType, ConfigCallsType,
       ConfigMirrorType DEF Step
<1>4. CASE UNCHANGED vars BY <1>4 DEF vars, TypeOK
<1> QED BY <1>1, <1>2, <1>3, <1>4 DEF Next

(* The tables, what each worker holds and RoleLogic's lists keep their types,
   whatever the world changes and whatever fails. *)
THEOREM TypeCorrect == Spec => []TypeOK
<1> QED BY InitType, TypeStep, PTL DEF Spec

-----------------------------------------------------------------------------
(* Steady members keep their role                                          *)

LEMMA TargetIs ==
    ASSUME NEW l \in Links, NEW m \in Target(l)
    PROVE  m \in members /\ Qualifies(rule[l], m)
BY DEF Target, FirstOf

(* What is remembered of a job that goes on. *)
LEMMA Remembered ==
    ASSUME HNext, NEW v \in Workers, NEW l \in Links
    PROVE  /\ steady'[v][l] \subseteq Target(l)'
           /\ At(v, "idle")' => steady'[v][l] = {}
           /\ ~At(v, "idle") => steady'[v][l] \subseteq steady[v][l]
           /\ steady'[v][l] # {} => rule'[l] = rule[l]
<1>1. steady'[v][l] = IF At(v, "idle")' \/ rule'[l] # rule[l] THEN {}
                      ELSE IF At(v, "idle") THEN Target(l)'
                      ELSE steady[v][l] \intersect Target(l)'
    BY DEF HNext, Remember
<1> QED BY <1>1

(* A worker that did nothing, whose snapshot lost rows, or whose job has ended. *)
LEMMA UndisturbedHolds ==
    ASSUME TypeOK, HNext, NEW v \in Workers, NEW l \in Links, Holds(v, l),
           work'[v] = work[v] \/ At(v, "insert")' \/ At(v, "idle")'
    PROVE  Holds(v, l)'
<1>1. /\ steady'[v][l] \subseteq Target(l)'
      /\ At(v, "idle")' => steady'[v][l] = {}
      /\ ~At(v, "idle") => steady'[v][l] \subseteq steady[v][l]
      /\ steady'[v][l] # {} => rule'[l] = rule[l]
    BY Remembered
<1>2. CASE At(v, "insert")' \/ At(v, "idle")' BY <1>1, <1>2 DEF Holds
<1>3. CASE work'[v] = work[v] /\ ~At(v, "idle") BY <1>1, <1>3 DEF Holds, LinkOf
<1> QED BY <1>2, <1>3

(* w touches no other worker, except the snapshot of an insert for a link whose
   mirror it owes something. *)
SparesOthers(w) ==
    \A v \in Workers \ {w} :
        \/ work'[v] = work[v]
        \/ /\ At(v, "insert") /\ At(v, "insert")' /\ LinkOf(v)' = LinkOf(v)
           /\ Owes(w, LinkOf(v))

LEMMA BecomeSpares ==
    ASSUME TypeOK, NEW w \in Workers, NEW x, Become(w, x)
    PROVE  SparesOthers(w)
BY DEF Become, TypeOK, SparesOthers

LEMMA InsertSpares ==
    ASSUME TypeOK, NEW w \in Workers, NEW x, NEW l, NEW S, InsertRows(w, x, l, S), Owes(w, l)
    PROVE  SparesOthers(w)
<1> SUFFICES ASSUME NEW v \in Workers \ {w}
             PROVE  \/ work'[v] = work[v]
                    \/ /\ At(v, "insert") /\ At(v, "insert")' /\ LinkOf(v)' = LinkOf(v)
                       /\ Owes(w, LinkOf(v))
    BY DEF SparesOthers
<1>1. CASE At(v, "insert") /\ work[v].job.link = l
    <2>1. work[v] \in Inserting BY <1>1, Shapes
    <2>2. work'[v] = [work[v] EXCEPT !.deleted = @ \ S] BY <1>1 DEF InsertRows
    <2>3. At(v, "insert")' /\ work'[v].job = work[v].job BY <2>1, <2>2 DEF Inserting
    <2> QED BY <1>1, <2>3 DEF LinkOf
<1>2. CASE ~(At(v, "insert") /\ work[v].job.link = l) BY <1>2 DEF InsertRows
<1> QED BY <1>1, <1>2

LEMMA OthersSpared ==
    ASSUME TypeOK, NEW w \in Workers, Step(w)
    PROVE  SparesOthers(w)
<1>1. Done(w) \/ Retry(w) => SparesOthers(w) BY BecomeSpares DEF Done, Retry
<1>2. \A a : Finish(w, a) => SparesOthers(w) BY BecomeSpares DEF Finish
<1>3. CASE PlayerGuilds(w) \/ PlayerLinks(w) \/ PlayerBirthday(w) \/ PlayerDiff(w)
    BY <1>1, <1>3, BecomeSpares DEF PlayerGuilds, PlayerLinks, PlayerBirthday, PlayerDiff
<1>4. ASSUME NEW a, PlayerCall(w, a) PROVE SparesOthers(w)
    BY <1>2, <1>4, BecomeSpares DEF PlayerCall
<1>5. ASSUME NEW a, PlayerMirror(w, a) PROVE SparesOthers(w)
    <2>1. Owes(w, a.link) BY <1>5 DEF PlayerMirror, Owes
    <2> QED BY <1>2, <1>5, <2>1, InsertSpares DEF PlayerMirror
<1>6. CASE ConfigLink(w) \/ ConfigMembers(w) \/ ConfigQuery(w) \/ ConfigCompare(w) \/ DrainCheck(w)
    BY <1>1, <1>6, BecomeSpares DEF ConfigLink, ConfigMembers, ConfigQuery, ConfigCompare, DrainCheck
<1>7. CASE ConfigUserInfo(w) \/ ConfigPut(w)
    BY <1>1, <1>7, BecomeSpares DEF ConfigUserInfo, ConfigPut
<1>8. CASE ConfigDelete(w)
    BY <1>1, <1>8, BecomeSpares DEF ConfigDelete
<1>9. CASE ConfigInsert(w)
    <2>1. Owes(w, LinkOf(w)) BY <1>9 DEF ConfigInsert, Owes
    <2> QED BY <1>1, <1>9, <2>1, InsertSpares DEF ConfigInsert
<1> QED BY <1>3, <1>4, <1>5, <1>6, <1>7, <1>8, <1>9 DEF Step

LEMMA OthersGoOn ==
    ASSUME TypeOK, NEW w \in Workers, Step(w), NEW v \in Workers \ {w}
    PROVE  work'[v] = work[v] \/ (At(v, "insert") /\ At(v, "insert")')
BY OthersSpared DEF SparesOthers

LEMMA EndsIdle ==
    ASSUME TypeOK, NEW w \in Workers
    PROVE  /\ Done(w) => work'[w] = Idle
           /\ Retry(w) => work'[w] = Idle
           /\ \A x : Become(w, x) => work'[w] = x
           /\ \A x, l, S : InsertRows(w, x, l, S) => work'[w] = x
BY DEF TypeOK, Done, Retry, Become, InsertRows

(* sync_for_player: whom it judges it judges by the rule as it is. *)
LEMMA PlayerHolds ==
    ASSUME TypeOK, HNext, NEW w \in Workers, NEW l \in Links, Holds(w, l),
           ~At(w, "idle"),
           \/ PlayerGuilds(w) \/ PlayerLinks(w) \/ PlayerBirthday(w) \/ PlayerDiff(w)
           \/ At(w, "actions") /\ \E a \in work[w].todo : PlayerCall(w, a) \/ PlayerMirror(w, a)
    PROVE  Holds(w, l)'
<1>1. /\ steady'[w][l] \subseteq Target(l)'
      /\ At(w, "idle")' => steady'[w][l] = {}
      /\ steady'[w][l] \subseteq steady[w][l]
      /\ steady'[w][l] # {} => rule'[l] = rule[l]
    BY Remembered
<1>2. steady[w][l] \subseteq Target(l) BY DEF Holds
<1>3. CASE At(w, "idle")' BY <1>1, <1>3 DEF Holds
<1>4. CASE PlayerGuilds(w) /\ ~At(w, "idle")'
    <2>1. work[w] \in Looking BY <1>4, Shapes DEF PlayerGuilds
    <2>2. work'[w] = [work[w] EXCEPT !.step = "links"]
        BY <1>4 DEF PlayerGuilds, Done, Retry, Become, Idle, TypeOK
    <2>3. At(w, "links")' BY <2>1, <2>2 DEF Looking
    <2> QED BY <1>1, <2>3 DEF Holds
<1>5. CASE PlayerLinks(w) /\ ~At(w, "idle")'
    <2> DEFINE rows == {k \in Links : token[k] # 0}
    <2>1. work'[w] = [step |-> "birthday", job |-> work[w].job,
                      tokens |-> [k \in rows |-> token[k]], trees |-> [k \in rows |-> rule[k]]]
        BY <1>5 DEF PlayerLinks, Done, Become, Idle, TypeOK
    <2>2. At(w, "birthday")' /\ work'[w].trees = [k \in rows |-> rule[k]] BY <2>1
    <2>3. ASSUME l \in DOMAIN work'[w].trees, work'[w].job.who \in steady'[w][l]
          PROVE  work'[w].trees[l] = rule'[l]
        BY <1>1, <2>2, <2>3
    <2> QED BY <1>1, <2>2, <2>3 DEF Holds
<1>6. CASE PlayerBirthday(w)
    <2> DEFINE who == work[w].job.who
               wants == {k \in DOMAIN work[w].trees : Qualifies(work[w].trees[k], who)}
    <2>1. PICK R \in SUBSET Links : work[w] \in Judging(R)
        BY <1>6, Shapes DEF PlayerBirthday
    <2>2. DOMAIN work[w].trees = DOMAIN work[w].tokens BY <2>1 DEF Judging
    <2>3. work'[w] = [step |-> "existing", job |-> work[w].job, tokens |-> work[w].tokens,
                      wants |-> wants]
        BY <1>6 DEF PlayerBirthday, Become, TypeOK
    <2>4. /\ At(w, "existing")' /\ work'[w].job.who = who
          /\ work'[w].tokens = work[w].tokens /\ work'[w].wants = wants
        BY <2>3
    <2>5. ASSUME l \in DOMAIN work[w].tokens, who \in steady'[w][l] PROVE l \in wants
        <3>1. who \in steady[w][l] /\ l \in DOMAIN work[w].trees BY <1>1, <2>2, <2>5
        <3>2. work[w].trees[l] = rule[l] BY <1>6, <3>1 DEF Holds, PlayerBirthday
        <3>3. Qualifies(rule[l], who) BY <1>2, <3>1, TargetIs
        <3> QED BY <3>1, <3>2, <3>3
    <2> QED BY <1>1, <2>4, <2>5 DEF Holds
<1>7. CASE PlayerDiff(w) /\ ~At(w, "idle")'
    <2> DEFINE who == work[w].job.who
               wants == work[w].wants
               existing == {k \in DOMAIN work[w].tokens : who \in mirror[k]}
               Todo(op, S) == {[op |-> op, link |-> k, token |-> work[w].tokens[k],
                                called |-> FALSE] : k \in S}
               todo == Todo("add", wants \ existing) \union Todo("remove", existing \ wants)
    <2> DEFINE x == [step |-> "actions", job |-> work[w].job, todo |-> todo]
    <2>0. Done(w) \/ Become(w, x) BY <1>7 DEF PlayerDiff
    <2>1. work'[w] = x
        <3> HIDE DEF x
        <3> QED BY <1>7, <2>0 DEF Done, Become, Idle, TypeOK
    <2>2. At(w, "actions")' /\ work'[w].job.who = who /\ work'[w].todo = todo
        <3> HIDE DEF todo
        <3> QED BY <2>1
    <2>3. ASSUME who \in steady'[w][l], NEW a \in todo, a.link = l PROVE a.op = "add"
        <3>1. l \in DOMAIN work[w].tokens => l \in wants
            BY <1>1, <1>7, <2>3 DEF Holds, PlayerDiff
        <3>2. CASE a \in Todo("add", wants \ existing) BY <3>2
        <3>3. CASE a \in Todo("remove", existing \ wants)
            <4>1. l \in existing \ wants BY <2>3, <3>3
            <4> QED BY <3>1, <4>1
        <3> QED BY <3>2, <3>3
    <2> HIDE DEF todo
    <2> QED BY <1>1, <2>2, <2>3 DEF Holds
<1>8. ASSUME At(w, "actions"), NEW a \in work[w].todo, PlayerCall(w, a) \/ PlayerMirror(w, a),
             ~At(w, "idle")'
      PROVE  Holds(w, l)'
    <2> DEFINE who == work[w].job.who
               called == [work[w] EXCEPT !.todo = (work[w].todo \ {a}) \union {[a EXCEPT !.called = TRUE]}]
    <2>1. work[w] \in Acting BY <1>8, Shapes
    <2>2. a \in Actions BY <2>1 DEF Acting
    <2>3. [a EXCEPT !.called = TRUE].op = a.op /\ [a EXCEPT !.called = TRUE].link = a.link
        BY <2>2 DEF Actions
    <2>4. work'[w] = called \/ work'[w] = Finished(w, a)
        BY <1>8 DEF PlayerCall, PlayerMirror, Finish, Become, InsertRows, TypeOK
    <2>5. /\ At(w, "actions")' /\ work'[w].job.who = who
          /\ work'[w].todo \subseteq work[w].todo \union {[a EXCEPT !.called = TRUE]}
        <3>1. CASE work'[w] = called BY <2>1, <3>1 DEF Acting
        <3>2. CASE work'[w] = Finished(w, a)
            <4>1. work'[w] = [work[w] EXCEPT !.todo = work[w].todo \ {a}]
                BY <1>8, <3>2 DEF Finished, Idle
            <4> QED BY <2>1, <4>1 DEF Acting
        <3> QED BY <2>4, <3>1, <3>2
    <2>6. ASSUME who \in steady'[w][l], NEW b \in work'[w].todo, b.link = l PROVE b.op = "add"
        <3>1. \A c \in work[w].todo : c.link = l => c.op = "add"
            BY <1>1, <1>8, <2>6 DEF Holds
        <3> QED BY <1>8, <2>3, <2>5, <2>6, <3>1
    <2> QED BY <1>1, <2>5, <2>6 DEF Holds
<1> QED BY <1>3, <1>4, <1>5, <1>6, <1>7, <1>8

(* sync_for_role_link: the list it makes has its steady members. *)
LEMMA ConfigHolds ==
    ASSUME Cardinality(Members) <= Limit, TypeOK, HNext,
           NEW w \in Workers, NEW l \in Links, Holds(w, l), ~At(w, "idle"),
           \/ ConfigLink(w) \/ ConfigMembers(w) \/ ConfigUserInfo(w) \/ ConfigQuery(w)
           \/ ConfigCompare(w) \/ DrainCheck(w) \/ ConfigPut(w) \/ ConfigDelete(w)
           \/ ConfigInsert(w)
    PROVE  Holds(w, l)'
<1>1. /\ steady'[w][l] \subseteq Target(l)'
      /\ At(w, "idle")' => steady'[w][l] = {}
      /\ steady'[w][l] \subseteq steady[w][l]
      /\ steady'[w][l] # {} => rule'[l] = rule[l]
    BY Remembered
<1>2. steady[w][l] \subseteq Target(l) BY DEF Holds
<1>3. \A m \in steady[w][l] : m \in members /\ Qualifies(rule[l], m) BY <1>2, TargetIs
<1>4. CASE At(w, "idle")' BY <1>1, <1>4 DEF Holds
<1>5. CASE ConfigLink(w) /\ ~At(w, "idle")'
    <2> DEFINE k == LinkOf(w)
    <2> DEFINE x == [step |-> IF rule[k] = "none" THEN "drain" ELSE "members",
                     job |-> work[w].job, token |-> token[k], tree |-> rule[k], list |-> {}]
    <2>0. Done(w) \/ Become(w, x) BY <1>5 DEF ConfigLink
    <2>1. work'[w] = x
        <3> HIDE DEF x
        <3> QED BY <1>5, <2>0 DEF Done, Become, Idle, TypeOK
    <2>2. /\ LinkOf(w)' = k /\ work'[w].tree = rule[k]
          /\ work'[w].step = IF rule[k] = "none" THEN "drain" ELSE "members"
        BY <2>1 DEF LinkOf
    <2>3. rule[l] = "none" => steady'[w][l] = {} BY <1>1, <1>3 DEF Qualifies
    <2> QED BY <1>1, <2>2, <2>3 DEF Holds
<1>6. CASE ConfigMembers(w) /\ ~At(w, "idle")'
    <2>1. work[w] \in Listing BY <1>6, ListingType DEF ConfigMembers
    <2>2. work'[w] = [work[w] EXCEPT !.step = IF members = {} THEN "drain" ELSE "info",
                                     !.list = members]
        BY <1>6 DEF ConfigMembers, Retry, Become, Idle, TypeOK
    <2>3. /\ LinkOf(w)' = LinkOf(w) /\ work'[w].tree = work[w].tree /\ work'[w].list = members
          /\ work'[w].step = IF members = {} THEN "drain" ELSE "info"
        BY <2>1, <2>2 DEF Listing, LinkOf
    <2>4. l = LinkOf(w) /\ steady[w][l] # {} => work[w].tree = rule[l]
        BY <1>6 DEF Holds, ConfigMembers
    <2>5. members = {} => steady'[w][l] = {} BY <1>1, <1>3
    <2>6. steady'[w][l] \subseteq members BY <1>1, <1>3
    <2> QED BY <1>1, <2>3, <2>4, <2>5, <2>6 DEF Holds
<1>7. CASE ConfigUserInfo(w) /\ ~At(w, "idle")'
    <2>1. work[w] \in Listing BY <1>7, ListingType DEF ConfigUserInfo
    <2>2. work'[w] = [work[w] EXCEPT !.step = "query"]
        BY <1>7 DEF ConfigUserInfo, Done, Retry, Become, Idle, TypeOK
    <2>3. /\ LinkOf(w)' = LinkOf(w) /\ work'[w].tree = work[w].tree
          /\ work'[w].list = work[w].list /\ work'[w].step = "query"
        BY <2>1, <2>2 DEF Listing, LinkOf
    <2>4. l = LinkOf(w) => /\ steady[w][l] \subseteq work[w].list
                           /\ steady[w][l] # {} => work[w].tree = rule[l]
        BY <1>7 DEF Holds, ConfigUserInfo
    <2> QED BY <1>1, <2>3, <2>4 DEF Holds
<1>8. CASE ConfigQuery(w)
    <2> DEFINE S == {m \in work[w].list : Qualifies(work[w].tree, m)}
    <2>1. work[w] \in Listing BY <1>8, ListingType DEF ConfigQuery
    <2>2. S \in SUBSET Members BY <2>1 DEF Listing
    <2>3. FirstOf(S) = S
        <3> HIDE DEF S
        <3> QED BY <2>2, FirstOfAll
    <2>4. work'[w] = [work[w] EXCEPT !.step = "compare", !.list = S]
        BY <1>8, <2>3 DEF ConfigQuery, Become, TypeOK
    <2>5. LinkOf(w)' = LinkOf(w) /\ work'[w].list = S /\ work'[w].step = "compare"
        BY <2>1, <2>4 DEF Listing, LinkOf
    <2>6. ASSUME l = LinkOf(w) PROVE steady'[w][l] \subseteq S
        <3>1. /\ steady[w][l] \subseteq work[w].list
              /\ steady[w][l] # {} => work[w].tree = rule[l]
            BY <1>8, <2>6 DEF Holds, ConfigQuery
        <3> QED BY <1>1, <1>3, <3>1
    <2> HIDE DEF S
    <2> QED BY <1>1, <2>5, <2>6 DEF Holds
<1>9. CASE ConfigCompare(w) /\ ~At(w, "idle")'
    <2>1. work[w] \in Listing BY <1>9, ListingType DEF ConfigCompare
    <2>2. work'[w] = [work[w] EXCEPT !.step = "put"]
        BY <1>9 DEF ConfigCompare, Done, Become, Idle, TypeOK
    <2>3. LinkOf(w)' = LinkOf(w) /\ work'[w].list = work[w].list /\ work'[w].step = "put"
        BY <2>1, <2>2 DEF Listing, LinkOf
    <2>4. l = LinkOf(w) => steady[w][l] \subseteq work[w].list BY <1>9 DEF Holds, ConfigCompare
    <2> QED BY <1>1, <2>3, <2>4 DEF Holds
<1>10. CASE DrainCheck(w) /\ ~At(w, "idle")'
    <2>1. work[w] \in Listing BY <1>10, ListingType DEF DrainCheck
    <2>2. work'[w] = [work[w] EXCEPT !.step = "put", !.list = {}]
        BY <1>10 DEF DrainCheck, Done, Become, Idle, TypeOK
    <2>3. LinkOf(w)' = LinkOf(w) /\ work'[w].list = {} /\ work'[w].step = "put"
        BY <2>1, <2>2 DEF Listing, LinkOf
    <2>4. l = LinkOf(w) => steady[w][l] = {} BY <1>10 DEF Holds, DrainCheck
    <2> QED BY <1>1, <2>3, <2>4 DEF Holds
<1>11. CASE ConfigPut(w) /\ ~At(w, "idle")'
    <2>1. work[w] \in Listing BY <1>11, ListingType DEF ConfigPut
    <2>2. work'[w] = [work[w] EXCEPT !.step = "delete"]
        BY <1>11 DEF ConfigPut, Done, Retry, Become, Idle, TypeOK
    <2>3. work'[w].step = "delete" BY <2>1, <2>2 DEF Listing
    <2> QED BY <1>1, <2>3 DEF Holds
<1>12. CASE ConfigDelete(w) /\ ~At(w, "idle")'
    <2>1. work'[w].step = "insert"
        BY <1>12 DEF ConfigDelete, Done, Retry, Become, Idle, TypeOK
    <2> QED BY <1>1, <2>1 DEF Holds
<1>13. CASE ConfigInsert(w)
    <2>1. work'[w] = Idle
        BY <1>13 DEF ConfigInsert, Retry, Become, InsertRows, TypeOK
    <2> QED BY <1>4, <2>1 DEF Idle
<1> QED BY <1>4, <1>5, <1>6, <1>7, <1>8, <1>9, <1>10, <1>11, <1>12, <1>13

LEMMA ClaimHolds ==
    ASSUME TypeOK, HNext, NEW w \in Workers, NEW job \in Jobs,
           Claim(w, job), NEW l \in Links
    PROVE  Holds(w, l)'
<1>1. steady'[w][l] \subseteq Target(l)' BY Remembered
<1>2. At(w, "guilds")' \/ At(w, "link")' BY DEF Claim, Become, TypeOK
<1> QED BY <1>1, <1>2 DEF Holds

LEMMA HoldsStep ==
    ASSUME Cardinality(Members) <= Limit, TypeOK, SteadyInv, HNext
    PROVE  SteadyInv'
<1> SUFFICES ASSUME NEW v \in Workers, NEW l \in Links PROVE Holds(v, l)' BY DEF SteadyInv
<1>1. Holds(v, l) BY DEF SteadyInv
<1>2. work'[v] = work[v] \/ At(v, "insert")' \/ At(v, "idle")' => Holds(v, l)'
    BY <1>1, UndisturbedHolds
<1>3. CASE World
    <2>1. CASE Restore BY <1>2, <2>1 DEF Restore, Idle
    <2>2. ASSUME NEW m \in Members, SaveBirthday(m) \/ Unlink(m) \/ Calendar(m) \/ Membership(m)
          PROVE  work' = work
        BY <2>2 DEF SaveBirthday, Unlink, Calendar, Membership
    <2>3. ASSUME NEW k \in Links, \/ \E r \in Rules : SaveRule(k, r)
                                 \/ Toggle(k) \/ UpstreamDelete(k) \/ UpstreamCreate(k)
                                 \/ Register(k) \/ DeleteConfig(k)
          PROVE  work' = work
        BY <2>3 DEF SaveRule, Toggle, UpstreamDelete, UpstreamCreate, Register, DeleteConfig
    <2> QED BY <1>2, <1>3, <2>1, <2>2, <2>3 DEF World
<1>4. ASSUME NEW k \in Links, Tick(k) PROVE Holds(v, l)' BY <1>2, <1>4 DEF Tick
<1>5. ASSUME NEW w \in Workers, NEW job \in Jobs, Claim(w, job) PROVE Holds(v, l)'
    <2>1. CASE v = w BY <1>5, <2>1, ClaimHolds
    <2>2. CASE v # w BY <1>2, <1>5, <2>2 DEF Claim, Become, TypeOK
    <2> QED BY <2>1, <2>2
<1>6. ASSUME NEW w \in Workers, Crash(w) PROVE Holds(v, l)'
    BY <1>2, <1>6 DEF Crash, Become, Idle, TypeOK
<1>7. ASSUME NEW w \in Workers, Step(w) PROVE Holds(v, l)'
    <2>1. CASE v # w BY <1>2, <1>7, <2>1, OthersGoOn
    <2>2. CASE v = w
        <3>1. ~At(w, "idle")
            BY <1>7 DEF Step, PlayerGuilds, PlayerLinks, PlayerBirthday, PlayerDiff, ConfigLink,
               ConfigMembers, ConfigUserInfo, ConfigQuery, ConfigCompare, DrainCheck, ConfigPut,
               ConfigDelete, ConfigInsert
        <3>2. Holds(w, l) BY <1>1, <2>2
        <3> QED BY <1>7, <2>2, <3>1, <3>2, PlayerHolds, ConfigHolds DEF Step
    <2> QED BY <2>1, <2>2
<1> QED BY <1>3, <1>4, <1>5, <1>6, <1>7 DEF HNext, Next

LEMMA StutterHolds == TypeOK /\ SteadyInv /\ UNCHANGED hvars => TypeOK' /\ SteadyInv'
<1> SUFFICES ASSUME TypeOK, SteadyInv, UNCHANGED hvars PROVE TypeOK' /\ SteadyInv' OBVIOUS
<1>1. TypeOK' BY TypeStep DEF hvars
<1>2. ASSUME NEW w \in Workers, NEW l \in Links PROVE Holds(w, l)'
    <2>1. /\ work' = work /\ rule' = rule /\ steady' = steady
          /\ saved' = saved /\ matching' = matching /\ members' = members
        BY DEF hvars, vars
    <2>2. Target(l)' = Target(l) BY <2>1 DEF Target, Qualifies, FirstOf
    <2>3. Holds(w, l) BY DEF SteadyInv
    <2> QED BY <2>1, <2>2, <2>3 DEF Holds, LinkOf
<1> QED BY <1>1, <1>2 DEF SteadyInv

LEMMA InitHolds == HInit => SteadyInv
BY DEF HInit, Init, Idle, SteadyInv, Holds

(* What a step of a worker takes away is not a steady member's. *)
LEMMA KeepStep ==
    ASSUME TypeOK, SteadyInv, HNext,
           NEW w \in Workers, NEW l \in Links, work'[w] # work[w]
    PROVE  upUsers[l] \intersect steady[w][l] \subseteq upUsers'[l]
<1>0. Holds(w, l) BY DEF SteadyInv
<1> USE DEF upstream
<1>1. CASE upUsers' = upUsers BY <1>1
<1>2. CASE World
    <2>1. ASSUME NEW m \in Members, SaveBirthday(m) \/ Unlink(m) \/ Calendar(m) \/ Membership(m)
          PROVE  work' = work
        BY <2>1 DEF SaveBirthday, Unlink, Calendar, Membership
    <2>2. ASSUME NEW k \in Links, \/ \E r \in Rules : SaveRule(k, r)
                                 \/ Toggle(k) \/ UpstreamDelete(k) \/ UpstreamCreate(k)
                                 \/ Register(k) \/ DeleteConfig(k)
          PROVE  work' = work
        BY <2>2 DEF SaveRule, Toggle, UpstreamDelete, UpstreamCreate, Register, DeleteConfig
    <2>3. CASE Restore BY <1>1, <2>3 DEF Restore
    <2> QED BY <1>2, <2>1, <2>2, <2>3 DEF World
<1>3. CASE \/ \E k \in Links : Tick(k)
           \/ \E v \in Workers, job \in Jobs : Claim(v, job)
           \/ \E v \in Workers : Crash(v)
    BY <1>1, <1>3 DEF Tick, Claim, Crash
<1>4. ASSUME NEW v \in Workers, Step(v) PROVE upUsers[l] \intersect steady[w][l] \subseteq upUsers'[l]
    <2>1. CASE \/ PlayerGuilds(v) \/ PlayerLinks(v) \/ PlayerBirthday(v) \/ PlayerDiff(v)
               \/ ConfigLink(v) \/ ConfigMembers(v) \/ ConfigQuery(v) \/ ConfigCompare(v)
               \/ DrainCheck(v) \/ ConfigUserInfo(v) \/ ConfigDelete(v) \/ ConfigInsert(v)
        BY <1>1, <2>1 DEF PlayerGuilds, PlayerLinks, PlayerBirthday, PlayerDiff, ConfigLink,
           ConfigMembers, ConfigQuery, ConfigCompare, DrainCheck, ConfigUserInfo, ConfigDelete,
           ConfigInsert, ReadOnly
    <2>2. ASSUME At(v, "actions"), NEW a \in work[v].todo, PlayerMirror(v, a)
          PROVE  upUsers' = upUsers
        BY <2>2 DEF PlayerMirror
    <2>3. (\E x : Become(v, x)) => v = w BY DEF Become, TypeOK
    <2>4. ASSUME At(v, "actions"), NEW a \in work[v].todo, PlayerCall(v, a)
          PROVE  upUsers[l] \intersect steady[w][l] \subseteq upUsers'[l]
        <3> DEFINE who == work[v].job.who
        <3>1. upUsers' = upUsers \/ upUsers' = [upUsers EXCEPT ![a.link] = After(a, who)]
            BY <2>4 DEF PlayerCall
        <3>2. v = w BY <2>3, <2>4 DEF PlayerCall, Finish
        <3>3. CASE upUsers' = [upUsers EXCEPT ![a.link] = After(a, who)] /\ a.link = l
            <4>1. upUsers'[l] = After(a, who) BY <3>3 DEF TypeOK
            <4>2. who \in steady[w][l] => a.op = "add" BY <1>0, <2>4, <3>2, <3>3 DEF Holds
            <4> QED BY <3>3, <4>1, <4>2 DEF After
        <3>4. CASE upUsers' = [upUsers EXCEPT ![a.link] = After(a, who)] /\ a.link # l
            BY <3>4 DEF TypeOK
        <3> QED BY <1>1, <3>1, <3>3, <3>4
    <2>5. ASSUME ConfigPut(v) PROVE upUsers[l] \intersect steady[w][l] \subseteq upUsers'[l]
        <3>1. upUsers' = upUsers \/ upUsers' = [upUsers EXCEPT ![LinkOf(v)] = work[v].list]
            BY <2>5 DEF ConfigPut, Upload
        <3>2. v = w BY <2>3, <2>5 DEF ConfigPut, Done, Retry
        <3>3. l = LinkOf(w) => steady[w][l] \subseteq work[w].list
            BY <1>0, <2>5, <3>2 DEF Holds, ConfigPut
        <3> QED BY <3>1, <3>2, <3>3 DEF TypeOK
    <2> QED BY <1>1, <1>4, <2>1, <2>2, <2>4, <2>5 DEF Step
<1> QED BY <1>2, <1>3, <1>4 DEF HNext, Next

(* The inductive invariant of a job's steady members. *)
THEOREM SteadyMembersHeld ==
    ASSUME Cardinality(Members) <= Limit
    PROVE  HSpec => [](TypeOK /\ SteadyInv)
<1>1. HInit => TypeOK /\ SteadyInv BY InitType, InitHolds DEF HInit
<1>2. TypeOK /\ SteadyInv /\ [HNext]_hvars => TypeOK' /\ SteadyInv'
    <2>1. TypeOK /\ SteadyInv /\ HNext => TypeOK' /\ SteadyInv'
        BY TypeStep, HoldsStep DEF HNext
    <2> QED BY <2>1, StutterHolds
<1> QED BY <1>1, <1>2, PTL DEF HSpec

(* "we never clear a role on a transient lookup failure": for any members, links,
   workers, changes and failures, no job takes the role from a member who was
   entitled to it, by one and the same rule, ever since the job was claimed, as
   long as user_limit is not reached. *)
THEOREM SteadyMembersKeepRole ==
    ASSUME Cardinality(Members) <= Limit
    PROVE  HSpec => SteadyKeepRole
<1>1. TypeOK /\ SteadyInv /\ [HNext]_hvars =>
        [\A w \in Workers, l \in Links :
            work'[w] # work[w] => upUsers[l] \intersect steady[w][l] \subseteq upUsers'[l]]_hvars
    BY KeepStep
<1> QED BY <1>1, SteadyMembersHeld, PTL DEF HSpec, SteadyKeepRole

-----------------------------------------------------------------------------
(* The mirror is exact, wherever it is not in doubt.                       *)

(* What w's step leaves of l as it was. *)
Untouched(w, l) ==
    /\ mirror'[l] = mirror[l] /\ upUsers'[l] = upUsers[l]
    /\ Owes(w, l)' <=> Owes(w, l)
    /\ MakesUp(w, l) => MakesUp(w, l)'

(* RoleLogic's list was changed, or a whole one was uploaded. *)
Called(w, l) ==
    /\ ~Owes(w, l) /\ Owes(w, l)'
    /\ mirror[l] = upUsers[l] \/ At(w, "put") => MakesUp(w, l)'

(* The mirror has followed. *)
Written(w, l) ==
    /\ Owes(w, l) /\ ~Owes(w, l)'
    /\ upUsers'[l] = upUsers[l]
    /\ MakesUp(w, l) => mirror'[l] = upUsers[l]

(* Who owes nothing has nothing to make up for. *)
LEMMA NoDebt ==
    ASSUME NEW w \in Workers, NEW l \in Links
    PROVE  /\ Owes(w, l) \/ MakesUp(w, l)
           /\ Owes(w, l)' \/ MakesUp(w, l)'
<1>1. Owes(w, l) \/ MakesUp(w, l) BY DEF Owes, MakesUp
<1>2. Owes(w, l)' \/ MakesUp(w, l)' BY DEF Owes, MakesUp
<1> QED BY <1>1, <1>2

LEMMA FreeUntouched ==
    ASSUME NEW w \in Workers, NEW l \in Links,
           mirror'[l] = mirror[l], upUsers'[l] = upUsers[l],
           ~Owes(w, l), ~Owes(w, l)'
    PROVE  Untouched(w, l)
BY NoDebt DEF Untouched

LEMMA IdleOwesNothing ==
    ASSUME NEW w \in Workers, NEW l \in Links, work'[w] = Idle
    PROVE  ~Owes(w, l)'
BY DEF Idle, Owes

(* A link that is sure, or for which a whole list has just been uploaded, is sure
   after each kind of step that does not disturb it. *)
LEMMA SureStep ==
    ASSUME NEW w \in Workers, NEW l \in Links, SparesOthers(w),
           ~Disturbed(l), Sure(l) \/ Renewed(l),
           Untouched(w, l) \/ Called(w, l) \/ Written(w, l),
           At(w, "put") /\ At(w, "delete")' => LinkOf(w)' = LinkOf(w)
    PROVE  Sure(l)'
<1>1. token'[l] # 0 /\ \A u, v \in Workers : Owes(u, l)' /\ Owes(v, l)' => u = v
    BY DEF Disturbed, Sure, Renewed
<1>2. ASSUME NEW v \in Workers \ {w} PROVE Owes(v, l)' <=> Owes(v, l)
    <2>1. CASE work'[v] = work[v] BY <2>1 DEF Owes, LinkOf
    <2>2. CASE At(v, "insert") /\ At(v, "insert")' /\ LinkOf(v)' = LinkOf(v)
        BY <2>2 DEF Owes
    <2> QED BY <2>1, <2>2 DEF SparesOthers
<1>3. Renewed(l) => At(w, "put") /\ At(w, "delete")' /\ Owes(w, l)' /\ ~Owes(w, l)
    <2> SUFFICES ASSUME NEW u \in Workers, At(u, "put"), At(u, "delete")', LinkOf(u) = l
                 PROVE  At(w, "put") /\ At(w, "delete")' /\ Owes(w, l)' /\ ~Owes(w, l)
        BY DEF Renewed
    <2>1. u = w BY DEF SparesOthers
    <2>2. ~Owes(w, l) BY <2>1 DEF Owes
    <2>3. Owes(w, l)' BY <2>1 DEF Owes
    <2> QED BY <2>1, <2>2, <2>3
<1>4. CASE Untouched(w, l)
    <2>1. Sure(l) BY <1>3, <1>4 DEF Untouched
    <2>2. \A v \in Workers : Owes(v, l)' <=> Owes(v, l) BY <1>2, <1>4 DEF Untouched
    <2>3. ASSUME NEW v \in Workers \ {w} PROVE MakesUp(v, l)'
        <3>1. MakesUp(v, l) BY <2>1 DEF Sure
        <3>2. CASE work'[v] = work[v]
            <4>1. mirror'[l] = mirror[l] /\ upUsers'[l] = upUsers[l] BY <1>4 DEF Untouched
            <4> QED BY <3>1, <3>2, <4>1, Zenon DEF MakesUp, LinkOf
        <3>3. CASE /\ At(v, "insert") /\ At(v, "insert")' /\ LinkOf(v)' = LinkOf(v)
                   /\ Owes(w, LinkOf(v))
            <4>1. LinkOf(v) # l BY <2>1, <3>3 DEF Sure, Owes
            <4>2. ~Owes(v, l)' BY <3>3, <4>1 DEF Owes
            <4> QED BY <4>2, NoDebt
        <3> QED BY <3>2, <3>3 DEF SparesOthers
    <2>4. MakesUp(w, l)' BY <1>4, <2>1 DEF Untouched, Sure
    <2>5. (\A v \in Workers : ~Owes(v, l)') => mirror'[l] = upUsers'[l]
        BY <1>4, <2>1, <2>2 DEF Sure, Untouched
    <2> QED BY <1>1, <2>3, <2>4, <2>5 DEF Sure
<1>5. CASE Called(w, l)
    <2>1. \A v \in Workers \ {w} : ~Owes(v, l)' /\ ~Owes(v, l)
        BY <1>1, <1>2, <1>5 DEF Called
    <2>2. Sure(l) => mirror[l] = upUsers[l] BY <1>5, <2>1 DEF Called, Sure
    <2>3. MakesUp(w, l)' BY <1>3, <1>5, <2>2 DEF Called
    <2>4. \A v \in Workers : MakesUp(v, l)' BY <2>1, <2>3, NoDebt
    <2> QED BY <1>1, <1>5, <2>4 DEF Sure, Called
<1>6. CASE Written(w, l)
    <2>1. Sure(l) BY <1>3, <1>6 DEF Written
    <2>2. \A v \in Workers : ~Owes(v, l)' BY <1>2, <1>6, <2>1 DEF Sure, Written
    <2>3. mirror'[l] = upUsers'[l] BY <1>6, <2>1 DEF Sure, Written
    <2> QED BY <1>1, <2>2, <2>3, NoDebt DEF Sure
<1> QED BY <1>4, <1>5, <1>6

(* A row that stays keeps its mirror. *)
LEMMA RowStays ==
    ASSUME TypeOK, NEW k \in Links, DeleteOrphan(k),
           NEW l \in Links, token[l] # 0, token'[l] = token[l]
    PROVE  mirror'[l] = mirror[l]
BY DEF DeleteOrphan, DeleteRow, TypeOK, db

(* Reading incurs no debt, and there was none. *)
LEMMA PlayerReadsOwe ==
    ASSUME TypeOK, NEW w \in Workers,
           PlayerGuilds(w) \/ PlayerLinks(w) \/ PlayerBirthday(w) \/ PlayerDiff(w)
    PROVE  Once(w)' /\ \A l \in Links : ~Owes(w, l) /\ ~Owes(w, l)'
<1>1. \A l \in Links : ~Owes(w, l)
    BY DEF PlayerGuilds, PlayerLinks, PlayerBirthday, PlayerDiff, Owes
<1>2. CASE work'[w].step \in {"idle", "links", "birthday", "existing"}
    BY <1>1, <1>2 DEF Once, Owes
<1>3. CASE work'[w] = Idle BY <1>2, <1>3 DEF Idle
<1>4. CASE PlayerGuilds(w) /\ work'[w] # Idle
    <2>1. work[w] \in Looking BY <1>4, Shapes DEF PlayerGuilds
    <2>2. work'[w] = [work[w] EXCEPT !.step = "links"]
        BY <1>4, EndsIdle DEF PlayerGuilds
    <2> QED BY <1>2, <2>1, <2>2 DEF Looking
<1>5. CASE PlayerLinks(w) /\ work'[w] # Idle
    <2> DEFINE rows == {k \in Links : token[k] # 0}
               x == [step |-> "birthday", job |-> work[w].job,
                     tokens |-> [k \in rows |-> token[k]], trees |-> [k \in rows |-> rule[k]]]
    <2>1. Done(w) \/ Become(w, x) BY <1>5 DEF PlayerLinks
    <2>2. work'[w] = x
        <3> HIDE DEF x
        <3> QED BY <1>5, <2>1, EndsIdle
    <2> QED BY <1>2, <2>2
<1>6. CASE PlayerBirthday(w)
    <2>1. At(w, "existing")' BY <1>6 DEF PlayerBirthday, Become, TypeOK
    <2> QED BY <1>2, <2>1
<1>7. CASE PlayerDiff(w) /\ work'[w] # Idle
    <2> DEFINE wants == work[w].wants
               existing == {k \in DOMAIN work[w].tokens : work[w].job.who \in mirror[k]}
               Todo(op, S) == {[op |-> op, link |-> k, token |-> work[w].tokens[k],
                                called |-> FALSE] : k \in S}
               todo == Todo("add", wants \ existing) \union Todo("remove", existing \ wants)
               x == [step |-> "actions", job |-> work[w].job, todo |-> todo]
    <2>1. work'[w] = x
        <3>1. Done(w) \/ Become(w, x) BY <1>7 DEF PlayerDiff
        <3> HIDE DEF x
        <3> QED BY <1>7, <3>1, EndsIdle
    <2>2. At(w, "actions")' /\ work'[w].todo = todo
        <3> HIDE DEF todo
        <3> QED BY <2>1
    <2>3. \A a \in todo : ~a.called OBVIOUS
    <2>4. \A a, b \in todo : a.link = b.link => a = b
        <3>1. \A a \in Todo("add", wants \ existing), b \in Todo("remove", existing \ wants) :
                 a.link # b.link
            OBVIOUS
        <3> DEFINE The(op, k) == [op |-> op, link |-> k, token |-> work[w].tokens[k],
                                  called |-> FALSE]
        <3>2. \A a \in Todo("add", wants \ existing) : a = The("add", a.link) OBVIOUS
        <3>3. \A a \in Todo("remove", existing \ wants) : a = The("remove", a.link) OBVIOUS
        <3> HIDE DEF Todo, The
        <3> QED BY <3>1, <3>2, <3>3
    <2> HIDE DEF todo
    <2> QED BY <1>1, <2>2, <2>3, <2>4 DEF Once, Owes
<1> QED BY <1>1, <1>3, <1>4, <1>5, <1>6, <1>7

LEMMA ConfigReadsOwe ==
    ASSUME TypeOK, NEW w \in Workers,
           \/ ConfigLink(w) \/ ConfigMembers(w) \/ ConfigUserInfo(w) \/ ConfigQuery(w)
           \/ ConfigCompare(w) \/ DrainCheck(w)
    PROVE  Once(w)' /\ \A l \in Links : ~Owes(w, l) /\ ~Owes(w, l)'
<1>1. \A l \in Links : ~Owes(w, l)
    BY DEF ConfigLink, ConfigMembers, ConfigUserInfo, ConfigQuery, ConfigCompare, DrainCheck, Owes
<1>2. CASE work'[w].step \in {"idle", "drain", "members", "info", "query", "compare", "put"}
    BY <1>1, <1>2 DEF Once, Owes
<1>3. CASE work'[w] = Idle BY <1>2, <1>3 DEF Idle
<1>4. CASE ConfigLink(w) /\ work'[w] # Idle
    <2> DEFINE k == LinkOf(w)
               x == [step |-> IF rule[k] = "none" THEN "drain" ELSE "members",
                     job |-> work[w].job, token |-> token[k], tree |-> rule[k], list |-> {}]
    <2>1. Done(w) \/ Become(w, x) BY <1>4 DEF ConfigLink
    <2>2. work'[w] = x
        <3> HIDE DEF x
        <3> QED BY <1>4, <2>1, EndsIdle
    <2> QED BY <1>2, <2>2
<1>5. ASSUME work[w] \in Listing,
             NEW s \in {"drain", "info", "query", "compare", "put"}, NEW S,
             \/ work'[w] = [work[w] EXCEPT !.step = s]
             \/ work'[w] = [work[w] EXCEPT !.step = s, !.list = S]
      PROVE  Once(w)' /\ \A l \in Links : ~Owes(w, l) /\ ~Owes(w, l)'
    BY <1>2, <1>5 DEF Listing
<1>6. CASE ConfigMembers(w) /\ work'[w] # Idle
    <2>1. work[w] \in Listing BY <1>6, ListingType DEF ConfigMembers
    <2>2. work'[w] = [work[w] EXCEPT !.step = IF members = {} THEN "drain" ELSE "info",
                                     !.list = members]
        BY <1>6, EndsIdle DEF ConfigMembers
    <2> QED BY <1>5, <2>1, <2>2
<1>7. CASE ConfigUserInfo(w) /\ work'[w] # Idle
    <2>1. work[w] \in Listing BY <1>7, ListingType DEF ConfigUserInfo
    <2>2. work'[w] = [work[w] EXCEPT !.step = "query"]
        BY <1>7, EndsIdle DEF ConfigUserInfo
    <2> QED BY <1>5, <2>1, <2>2
<1>8. CASE ConfigQuery(w)
    <2> DEFINE S == FirstOf({m \in work[w].list : Qualifies(work[w].tree, m)})
    <2>1. work[w] \in Listing BY <1>8, ListingType DEF ConfigQuery
    <2>2. work'[w] = [work[w] EXCEPT !.step = "compare", !.list = S]
        BY <1>8, EndsIdle DEF ConfigQuery
    <2> HIDE DEF S
    <2> QED BY <1>5, <2>1, <2>2
<1>9. CASE (ConfigCompare(w) \/ DrainCheck(w)) /\ work'[w] # Idle
    <2>1. work[w] \in Listing BY <1>9, ListingType DEF ConfigCompare, DrainCheck
    <2>2. \/ work'[w] = [work[w] EXCEPT !.step = "put"]
          \/ work'[w] = [work[w] EXCEPT !.step = "put", !.list = {}]
        BY <1>9, EndsIdle DEF ConfigCompare, DrainCheck
    <2> QED BY <1>5, <2>1, <2>2
<1> QED BY <1>3, <1>4, <1>6, <1>7, <1>8, <1>9

LEMMA ReadsUntouched ==
    ASSUME TypeOK, NEW w \in Workers,
           \/ PlayerGuilds(w) \/ PlayerLinks(w) \/ PlayerBirthday(w) \/ PlayerDiff(w)
           \/ ConfigLink(w) \/ ConfigMembers(w) \/ ConfigUserInfo(w) \/ ConfigQuery(w)
           \/ ConfigCompare(w) \/ DrainCheck(w),
           NEW l \in Links, token[l] # 0, ~Disturbed(l)
    PROVE  Untouched(w, l)
<1>1. ~Owes(w, l) /\ ~Owes(w, l)' BY PlayerReadsOwe, ConfigReadsOwe
<1>2. mirror'[l] = mirror[l] /\ upUsers'[l] = upUsers[l]
    <2>1. CASE ConfigUserInfo(w)
        <3>1. LinkOf(w) \in Links BY <2>1, ListingType DEF ConfigUserInfo
        <3>2. token'[l] = token[l] BY DEF Disturbed
        <3>3. DeleteOrphan(LinkOf(w)) \/ UNCHANGED db BY <2>1 DEF ConfigUserInfo
        <3>4. mirror'[l] = mirror[l] BY <3>1, <3>2, <3>3, RowStays DEF db
        <3> QED BY <2>1, <3>4 DEF ConfigUserInfo, upstream
    <2> QED BY <2>1 DEF PlayerGuilds, PlayerLinks, PlayerBirthday, PlayerDiff, ConfigLink,
                        ConfigMembers, ConfigQuery, ConfigCompare, DrainCheck, ReadOnly, db, upstream
<1> QED BY <1>1, <1>2, FreeUntouched

(* A step that ends a debt and records nothing has lost a write, or disturbs. *)
LEMMA Unrecorded ==
    ASSUME TypeOK, NEW w \in Workers, NEW l \in Links, ~Disturbed(l), Owes(w, l), ~Owes(w, l)'
    PROVE  \A k : ~Fault(k)
<1> SUFFICES ASSUME NEW k, Fault(k) PROVE FALSE OBVIOUS
<1>1. faults' # faults BY DEF Fault, TypeOK
<1> QED BY <1>1 DEF Disturbed

(* The upload. *)
LEMMA PutEffect ==
    ASSUME TypeOK, NEW w \in Workers, ConfigPut(w)
    PROVE  /\ Once(w)'
           /\ At(w, "delete")' => LinkOf(w)' = LinkOf(w)
           /\ \A l \in Links : token[l] # 0 /\ ~Disturbed(l) => Untouched(w, l) \/ Called(w, l)
<1> DEFINE k == LinkOf(w)
<1>1. work[w] \in Listing /\ k \in Links BY ListingType DEF ConfigPut
<1>2. \A l \in Links : ~Owes(w, l) BY DEF ConfigPut, Owes
<1>3. CASE work'[w] = Idle
    <2>1. ASSUME NEW l \in Links, token[l] # 0, ~Disturbed(l) PROVE Untouched(w, l)
        <3>1. token'[l] = token[l] BY <2>1 DEF Disturbed
        <3>2. DeleteOrphan(k) \/ UNCHANGED db
            <4>1. CASE Become(w, [work[w] EXCEPT !.step = "delete"])
                BY <1>1, <1>3, <4>1, EndsIdle DEF Idle, Listing
            <4> QED BY <4>1 DEF ConfigPut
        <3>3. mirror'[l] = mirror[l] BY <1>1, <2>1, <3>1, <3>2, RowStays DEF db
        <3>4. upUsers'[l] = upUsers[l]
            <4>1. faults' # faults => upUsers'[l] = upUsers[l] BY <2>1 DEF Disturbed
            <4>2. ~Become(w, [work[w] EXCEPT !.step = "delete"])
                BY <1>1, <1>3, EndsIdle DEF Idle, Listing
            <4>3. \A f : Fault(f) => faults' # faults BY DEF Fault, TypeOK
            <4> QED BY <4>1, <4>2, <4>3 DEF ConfigPut
        <3> QED BY <1>2, <1>3, <2>1, <3>3, <3>4, IdleOwesNothing, FreeUntouched
    <2>2. Once(w)' /\ ~At(w, "delete")' BY <1>3 DEF Once, Idle
    <2> QED BY <2>1, <2>2
<1>4. CASE work'[w] # Idle
    <2>1. /\ upUsers' = [upUsers EXCEPT ![k] = work[w].list] /\ UNCHANGED db
          /\ work'[w] = [work[w] EXCEPT !.step = "delete"]
        BY <1>4, EndsIdle DEF ConfigPut, Upload
    <2>2. /\ At(w, "delete")' /\ LinkOf(w)' = k /\ work'[w].list = work[w].list
        BY <1>1, <2>1 DEF Listing, LinkOf
    <2>3. Once(w)' BY <2>2 DEF Once
    <2>4. ASSUME NEW l \in Links PROVE Untouched(w, l) \/ Called(w, l)
        <3>1. CASE l = k
            <4>1. upUsers'[l] = work'[w].list BY <1>1, <2>1, <2>2, <3>1 DEF TypeOK
            <4>2. Owes(w, l)' /\ MakesUp(w, l)' BY <2>2, <3>1, <4>1 DEF Owes, MakesUp
            <4> QED BY <1>2, <4>2 DEF Called
        <3>2. CASE l # k
            <4>1. mirror'[l] = mirror[l] /\ upUsers'[l] = upUsers[l]
                BY <1>1, <2>1, <3>2 DEF db, TypeOK
            <4>2. ~Owes(w, l)' BY <2>2, <3>2 DEF Owes
            <4> QED BY <1>2, <4>1, <4>2, FreeUntouched
        <3> QED BY <3>1, <3>2
    <2> QED BY <2>2, <2>3, <2>4
<1> QED BY <1>3, <1>4

(* The DELETE of the mirror's rows. *)
LEMMA DeleteEffect ==
    ASSUME TypeOK, NEW w \in Workers, ConfigDelete(w)
    PROVE  /\ Once(w)'
           /\ \A l \in Links : ~Disturbed(l) => Untouched(w, l) \/ Written(w, l)
<1> DEFINE k == LinkOf(w)
           x == [step |-> "insert", job |-> work[w].job, list |-> work[w].list,
                 deleted |-> mirror[k]]
<1>1. k \in Links BY ListingType DEF ConfigDelete
<1>2. UNCHANGED upUsers BY DEF ConfigDelete, upstream
<1>3. \A l \in Links : Owes(w, l) <=> l = k BY DEF ConfigDelete, Owes
<1>4. CASE work'[w] = Idle
    <2>1. Once(w)' BY <1>4 DEF Once, Idle
    <2>2. \A l \in Links : ~Owes(w, l)' BY <1>4, IdleOwesNothing
    <2>3. ~Become(w, x)
        <3>1. x.step = "insert" /\ Idle.step = "idle" BY DEF Idle
        <3> HIDE DEF x
        <3> QED BY <1>4, <3>1, EndsIdle
    <2>4. ASSUME NEW l \in Links, ~Disturbed(l) PROVE Untouched(w, l) \/ Written(w, l)
        <3>1. CASE l = k
            <4>1. \A f : ~Fault(f) BY <1>3, <2>2, <2>4, <3>1, Unrecorded
            <4>2. work[w].list = {} /\ mirror' = [mirror EXCEPT ![k] = {}]
                BY <2>3, <4>1 DEF ConfigDelete
            <4>3. MakesUp(w, l) => upUsers[l] = {} BY <3>1, <4>2 DEF MakesUp, ConfigDelete
            <4>4. mirror'[l] = {} BY <1>1, <3>1, <4>2 DEF TypeOK
            <4> QED BY <1>2, <1>3, <2>2, <3>1, <4>3, <4>4 DEF Written
        <3>2. CASE l # k
            <4>1. mirror'[l] = mirror[l] BY <3>2 DEF ConfigDelete, TypeOK
            <4> QED BY <1>2, <1>3, <2>2, <3>2, <4>1, FreeUntouched
        <3> QED BY <3>1, <3>2
    <2> QED BY <2>1, <2>4
<1>5. CASE work'[w] # Idle
    <2>1. Become(w, x) /\ UNCHANGED mirror BY <1>5, EndsIdle DEF ConfigDelete
    <2>2. work'[w] = x
        <3> HIDE DEF x
        <3> QED BY <2>1, EndsIdle
    <2>3. /\ At(w, "insert")' /\ LinkOf(w)' = k /\ work'[w].list = work[w].list
          /\ work'[w].deleted = mirror[k]
        BY <2>2 DEF LinkOf
    <2>4. Once(w)' BY <2>3 DEF Once
    <2>5. ASSUME NEW l \in Links PROVE Untouched(w, l)
        <3>1. Owes(w, l)' <=> Owes(w, l) BY <1>3, <2>3 DEF Owes
        <3>2. MakesUp(w, l) => MakesUp(w, l)'
            BY <1>2, <2>1, <2>3 DEF MakesUp, ConfigDelete
        <3> QED BY <1>2, <2>1, <3>1, <3>2 DEF Untouched
    <2> QED BY <2>4, <2>5
<1> QED BY <1>4, <1>5

(* The INSERT and the COMMIT: a transaction that is refused had seen another list. *)
LEMMA InsertEffect ==
    ASSUME TypeOK, NEW w \in Workers, ConfigInsert(w)
    PROVE  /\ Once(w)'
           /\ \A l \in Links : token[l] # 0 /\ ~Disturbed(l) =>
                 Untouched(w, l) \/ Written(w, l)
<1> DEFINE k == LinkOf(w)
           kept == mirror[k] \ work[w].deleted
<1>1. k \in Links
    <2>1. work[w] \in Inserting BY Shapes DEF ConfigInsert
    <2> QED BY <2>1 DEF Inserting, ConfigJobs, ConfigSync, LinkOf
<1>2. UNCHANGED upUsers BY DEF ConfigInsert, upstream
<1>3. \A l \in Links : Owes(w, l) <=> l = k BY DEF ConfigInsert, Owes
<1>4. work'[w] = Idle BY EndsIdle DEF ConfigInsert
<1>5. Once(w)' BY <1>4 DEF Once, Idle
<1>6. \A l \in Links : ~Owes(w, l)' BY <1>4, IdleOwesNothing
<1>7. ASSUME NEW l \in Links, token[l] # 0, ~Disturbed(l)
      PROVE  Untouched(w, l) \/ Written(w, l)
    <2>1. CASE l = k
        <3>1. \A f : ~Fault(f) BY <1>3, <1>6, <1>7, <2>1, Unrecorded
        <3>2. ASSUME MakesUp(w, l) PROVE mirror'[l] = upUsers[l]
            <4>1. upUsers[k] = work[w].list /\ work[w].deleted = mirror[k]
                BY <2>1, <3>2 DEF MakesUp, ConfigInsert
            <4>2. kept = {} BY <4>1
            <4>3. mirror' = [mirror EXCEPT ![k] = kept \union work[w].list]
                BY <1>7, <2>1, <3>1, <4>2 DEF ConfigInsert
            <4>4. mirror'[k] = work[w].list BY <1>1, <4>2, <4>3 DEF TypeOK
            <4> QED BY <2>1, <4>1, <4>4
        <3> QED BY <1>2, <1>3, <1>6, <2>1, <3>2 DEF Written
    <2>2. CASE l # k
        <3>1. mirror'[l] = mirror[l] BY <2>2 DEF ConfigInsert, TypeOK
        <3> QED BY <1>2, <1>3, <1>6, <2>2, <3>1, FreeUntouched
    <2> QED BY <2>1, <2>2
<1> QED BY <1>5, <1>7

(* What becomes of w's actions for other links, and its debts there. *)
LEMMA OtherLinks ==
    ASSUME TypeOK, NEW w \in Workers, At(w, "actions"), Once(w), NEW a \in work[w].todo,
           NEW T, work'[w] = [work[w] EXCEPT !.todo = T],
           NEW b, b.link = a.link,
           work[w].todo \ {a} \subseteq T, \A c \in T : c \in work[w].todo \ {a} \/ c = b
    PROVE  /\ Once(w)' /\ At(w, "actions")' /\ work'[w].todo = T
           /\ work'[w].job.who = work[w].job.who
           /\ \A l \in Links :
                 l # a.link /\ mirror'[l] = mirror[l] /\ upUsers'[l] = upUsers[l]
                     => Untouched(w, l)
           /\ Owes(w, a.link)' <=> b \in T /\ b.called
<1> DEFINE rest == work[w].todo \ {a}
<1>1. work[w] \in Acting BY Shapes
<1>2. At(w, "actions")' /\ work'[w].todo = T /\ work'[w].job.who = work[w].job.who
    BY <1>1 DEF Acting
<1>3. \A c \in rest : c.link # a.link BY DEF Once
<1>4. ASSUME NEW c \in T, NEW d \in T, c.link = d.link PROVE c = d
    <2>1. CASE c \in rest /\ d \in rest BY <1>4, <2>1 DEF Once
    <2>2. CASE c = b /\ d \in rest BY <1>3, <1>4, <2>2
    <2>3. CASE c \in rest /\ d = b BY <1>3, <1>4, <2>3
    <2>4. CASE c = b /\ d = b BY <2>4
    <2> QED BY <2>1, <2>2, <2>3, <2>4
<1>5. Once(w)' BY <1>2, <1>4 DEF Once
<1>6. ASSUME NEW l \in Links, l # a.link, mirror'[l] = mirror[l], upUsers'[l] = upUsers[l]
      PROVE  Untouched(w, l)
    <2>1. \A c : c.link = l => (c \in T <=> c \in work[w].todo) BY <1>6
    <2>2. Owes(w, l)' <=> Owes(w, l) BY <1>2, <2>1 DEF Owes
    <2>3. MakesUp(w, l) => MakesUp(w, l)' BY <1>2, <1>6, <2>1 DEF MakesUp
    <2> QED BY <1>6, <2>2, <2>3 DEF Untouched
<1>7. Owes(w, a.link)' <=> b \in T /\ b.called
    BY <1>2, <1>3 DEF Owes
<1> QED BY <1>2, <1>5, <1>6, <1>7

LEMMA ActionEnds ==
    ASSUME TypeOK, NEW w \in Workers, At(w, "actions"), Once(w), NEW a \in work[w].todo,
           work'[w] = Finished(w, a)
    PROVE  /\ Once(w)' /\ ~Owes(w, a.link)'
           /\ \A l \in Links :
                 l # a.link /\ mirror'[l] = mirror[l] /\ upUsers'[l] = upUsers[l]
                     => Untouched(w, l)
<1> DEFINE rest == work[w].todo \ {a}
<1>1. CASE rest = {}
    <2>1. work'[w] = Idle BY <1>1 DEF Finished
    <2>2. \A l \in Links : l # a.link => ~Owes(w, l) BY <1>1 DEF Owes
    <2>3. Once(w)' /\ ~Owes(w, a.link)' BY <2>1 DEF Once, Owes, Idle
    <2> QED BY <2>1, <2>2, <2>3, IdleOwesNothing, FreeUntouched
<1>2. CASE rest # {}
    <2>1. work'[w] = [work[w] EXCEPT !.todo = rest] BY <1>2 DEF Finished
    <2>2. a \notin rest OBVIOUS
    <2>3. work[w].todo \ {a} \subseteq rest /\ \A c \in rest : c \in work[w].todo \ {a} \/ c = a
        OBVIOUS
    <2> HIDE DEF rest
    <2>4. ASSUME NEW b, b = a
          PROVE  /\ Once(w)'
                 /\ \A l \in Links :
                       l # a.link /\ mirror'[l] = mirror[l] /\ upUsers'[l] = upUsers[l]
                           => Untouched(w, l)
                 /\ Owes(w, a.link)' <=> b \in rest /\ b.called
        <3>1. b.link = a.link BY <2>4
        <3>2. \A c \in rest : c \in work[w].todo \ {a} \/ c = b BY <2>3, <2>4
        <3> QED BY <2>1, <2>3, <3>1, <3>2, OtherLinks
    <2> QED BY <2>2, <2>4
<1> QED BY <1>1, <1>2

(* add_user, remove_user. *)
LEMMA CallEffect ==
    ASSUME TypeOK, NEW w \in Workers, At(w, "actions"), Once(w), NEW a \in work[w].todo,
           PlayerCall(w, a)
    PROVE  /\ Once(w)'
           /\ \A l \in Links : token[l] # 0 /\ ~Disturbed(l) => Untouched(w, l) \/ Called(w, l)
<1> DEFINE who == work[w].job.who
           k == a.link
           b == [a EXCEPT !.called = TRUE]
           T == (work[w].todo \ {a}) \union {b}
<1>1. work[w] \in Acting /\ a \in Actions /\ k \in Links
    <2>1. work[w] \in Acting BY Shapes
    <2> QED BY <2>1 DEF Acting, Actions
<1>2. b.op = a.op /\ b.link = k /\ b.called /\ b # a /\ b \in T
    BY <1>1 DEF Actions, PlayerCall
<1>3. ~Owes(w, k) BY DEF Owes, Once, PlayerCall
<1>4. CASE work'[w] = Finished(w, a)
    <2>1. /\ Once(w)' /\ ~Owes(w, k)'
          /\ \A l \in Links : l # k /\ mirror'[l] = mirror[l] /\ upUsers'[l] = upUsers[l]
                 => Untouched(w, l)
        BY <1>4, ActionEnds
    <2>2. ~Become(w, [work[w] EXCEPT !.todo = T])
        <3>1. Become(w, [work[w] EXCEPT !.todo = T]) => work'[w] = [work[w] EXCEPT !.todo = T]
            BY EndsIdle
        <3>2. [work[w] EXCEPT !.todo = T].step = "actions" /\ [work[w] EXCEPT !.todo = T].todo = T
            BY <1>1 DEF Acting
        <3>3. Idle.step = "idle" BY DEF Idle
        <3>4. [work[w] EXCEPT !.todo = work[w].todo \ {a}].todo = work[w].todo \ {a}
            BY <1>1 DEF Acting
        <3>5. T # work[w].todo \ {a}
            <4>1. b \notin work[w].todo \ {a} BY <1>2 DEF Once
            <4> QED BY <1>2, <4>1
        <3> HIDE DEF T
        <3> QED BY <1>4, <3>1, <3>2, <3>3, <3>4, <3>5 DEF Finished
    <2>3. ASSUME NEW l \in Links, token[l] # 0, ~Disturbed(l) PROVE Untouched(w, l)
        <3>1. token'[l] = token[l] BY <2>3 DEF Disturbed
        <3>2. mirror'[l] = mirror[l]
            <4>1. DeleteOrphan(k) \/ UNCHANGED db BY <2>2 DEF PlayerCall
            <4> QED BY <1>1, <2>3, <3>1, <4>1, RowStays DEF db
        <3>3. upUsers'[l] = upUsers[l]
            <4>1. faults' # faults => upUsers'[l] = upUsers[l] BY <2>3 DEF Disturbed
            <4>2. \A f : Fault(f) => faults' # faults BY DEF Fault, TypeOK
            <4> HIDE DEF T
            <4> QED BY <2>2, <4>1, <4>2 DEF PlayerCall, T
        <3>4. l = k => Untouched(w, l) BY <1>3, <2>1, <3>2, <3>3, FreeUntouched
        <3> QED BY <2>1, <3>2, <3>3, <3>4
    <2> QED BY <2>1, <2>3
<1>5. CASE work'[w] # Finished(w, a)
    <2>1. /\ upUsers' = [upUsers EXCEPT ![k] = After(a, who)] /\ UNCHANGED db
          /\ work'[w] = [work[w] EXCEPT !.todo = T]
        <3> HIDE DEF T
        <3> QED BY <1>5, EndsIdle DEF PlayerCall, Finish, T
    <2>2. work[w].todo \ {a} \subseteq T /\ \A c \in T : c \in work[w].todo \ {a} \/ c = b
        OBVIOUS
    <2> HIDE DEF T, b
    <2>3. /\ Once(w)' /\ At(w, "actions")' /\ work'[w].todo = T
          /\ work'[w].job.who = who
          /\ \A l \in Links : l # k /\ mirror'[l] = mirror[l] /\ upUsers'[l] = upUsers[l]
                 => Untouched(w, l)
          /\ Owes(w, k)' <=> b \in T /\ b.called
        BY <1>2, <2>1, <2>2, OtherLinks
    <2>4. upUsers'[k] = After(a, who) /\ mirror'[k] = mirror[k]
        BY <1>1, <2>1 DEF TypeOK, db
    <2>5. ASSUME mirror[k] = upUsers[k] PROVE MakesUp(w, k)'
        <3>1. upUsers'[k] = IF b.op = "add" THEN mirror'[k] \union {who} ELSE mirror'[k] \ {who}
            BY <1>2, <2>4, <2>5 DEF After
        <3>2. \A c \in T : c.link = k => c = b BY <2>2 DEF Once
        <3> QED BY <2>3, <3>1, <3>2 DEF MakesUp
    <2>6. Called(w, k) BY <1>2, <1>3, <2>3, <2>5 DEF Called
    <2>7. \A l \in Links : l # k => Untouched(w, l) BY <2>1, <2>3 DEF db, TypeOK
    <2> QED BY <2>3, <2>6, <2>7
<1> QED BY <1>4, <1>5

(* The statement that records it. *)
LEMMA RecordEffect ==
    ASSUME TypeOK, NEW w \in Workers, At(w, "actions"), Once(w), NEW a \in work[w].todo,
           PlayerMirror(w, a)
    PROVE  /\ Once(w)'
           /\ \A l \in Links : token[l] # 0 /\ ~Disturbed(l) => Untouched(w, l) \/ Written(w, l)
<1> DEFINE who == work[w].job.who
           k == a.link
<1>1. a \in Actions /\ k \in Links
    <2>1. work[w] \in Acting BY Shapes
    <2> QED BY <2>1 DEF Acting, Actions
<1>2. work'[w] = Finished(w, a) BY EndsIdle DEF PlayerMirror, Finish
<1>3. /\ Once(w)' /\ ~Owes(w, k)'
      /\ \A l \in Links : l # k /\ mirror'[l] = mirror[l] /\ upUsers'[l] = upUsers[l]
             => Untouched(w, l)
    BY <1>2, ActionEnds
<1>4. Owes(w, k) /\ UNCHANGED upUsers BY DEF Owes, PlayerMirror, upstream
<1>5. ASSUME NEW l \in Links, token[l] # 0, ~Disturbed(l)
      PROVE  Untouched(w, l) \/ Written(w, l)
    <2>1. CASE l = k
        <3>1. \A f : ~Fault(f) BY <1>3, <1>4, <1>5, <2>1, Unrecorded
        <3>2. mirror'[l] = IF a.op = "add" THEN mirror[l] \union {who} ELSE mirror[l] \ {who}
            BY <1>1, <1>5, <2>1, <3>1 DEF PlayerMirror, TypeOK
        <3>3. MakesUp(w, l) => mirror'[l] = upUsers[l]
            BY <2>1, <3>2 DEF MakesUp, PlayerMirror
        <3> QED BY <1>3, <1>4, <2>1, <3>3 DEF Written
    <2>2. CASE l # k
        <3>1. mirror'[l] = mirror[l] BY <2>2 DEF PlayerMirror, TypeOK
        <3> QED BY <1>3, <1>4, <2>2, <3>1
    <2> QED BY <2>1, <2>2
<1> QED BY <1>3, <1>5

(* A worker's step, whatever it is. *)
LEMMA StepEffect ==
    ASSUME TypeOK, NEW w \in Workers, Once(w), Step(w)
    PROVE  /\ Once(w)'
           /\ At(w, "put") /\ At(w, "delete")' => LinkOf(w)' = LinkOf(w)
           /\ \A l \in Links : token[l] # 0 /\ ~Disturbed(l) =>
                 Untouched(w, l) \/ Called(w, l) \/ Written(w, l)
<1>1. CASE \/ PlayerGuilds(w) \/ PlayerLinks(w) \/ PlayerBirthday(w) \/ PlayerDiff(w)
           \/ ConfigLink(w) \/ ConfigMembers(w) \/ ConfigUserInfo(w) \/ ConfigQuery(w)
           \/ ConfigCompare(w) \/ DrainCheck(w)
    <2>1. ~At(w, "put")
        BY <1>1 DEF PlayerGuilds, PlayerLinks, PlayerBirthday, PlayerDiff, ConfigLink, ConfigMembers,
                    ConfigUserInfo, ConfigQuery, ConfigCompare, DrainCheck
    <2>2. Once(w)' BY <1>1, PlayerReadsOwe, ConfigReadsOwe
    <2> QED BY <1>1, <2>1, <2>2, ReadsUntouched
<1>2. ASSUME At(w, "actions"), NEW a \in work[w].todo, PlayerCall(w, a) \/ PlayerMirror(w, a)
      PROVE  /\ Once(w)'
             /\ \A l \in Links : token[l] # 0 /\ ~Disturbed(l) =>
                   Untouched(w, l) \/ Called(w, l) \/ Written(w, l)
    BY <1>2, CallEffect, RecordEffect
<1>3. CASE ConfigPut(w) BY <1>3, PutEffect
<1>4. CASE ConfigDelete(w) \/ ConfigInsert(w)
    <2>1. ~At(w, "put") BY <1>4 DEF ConfigDelete, ConfigInsert
    <2> QED BY <1>4, <2>1, DeleteEffect, InsertEffect
<1> QED BY <1>1, <1>2, <1>3, <1>4 DEF Step

LEMMA SparedOnce ==
    ASSUME NEW w \in Workers, SparesOthers(w), Once(w)', \A v \in Workers : Once(v)
    PROVE  \A v \in Workers : Once(v)'
<1> SUFFICES ASSUME NEW v \in Workers \ {w} PROVE Once(v)' OBVIOUS
<1>1. CASE work'[v] = work[v] BY <1>1 DEF Once
<1>2. CASE At(v, "insert")' BY <1>2 DEF Once
<1> QED BY <1>1, <1>2 DEF SparesOthers

(* A step of the world leaves alone every link that it does not disturb. *)
LEMMA WorldSure ==
    ASSUME TypeOK, NEW l \in Links, ~Disturbed(l), Sure(l) \/ Renewed(l),
           World \/ \E k \in Links : Tick(k)
    PROVE  Sure(l)'
<1> USE DEF db, upstream
<1>1. token[l] # 0 /\ token'[l] = token[l] /\ upToken'[l] = upToken[l]
    BY DEF Sure, Renewed, Disturbed
<1>2. ASSUME UNCHANGED work, mirror'[l] = mirror[l], upUsers'[l] = upUsers[l]
      PROVE  Sure(l)'
    <2>1. Sure(l) BY <1>2 DEF Renewed
    <2>2. \A v \in Workers : Owes(v, l)' <=> Owes(v, l) BY <1>2 DEF Owes, LinkOf
    <2>3. ASSUME NEW v \in Workers PROVE MakesUp(v, l)'
        <3>1. MakesUp(v, l) BY <2>1 DEF Sure
        <3> QED BY <1>2, <3>1, Zenon DEF MakesUp, LinkOf
    <2>4. (\A v \in Workers : ~Owes(v, l)') => mirror'[l] = upUsers'[l]
        BY <1>2, <2>1, <2>2 DEF Sure
    <2> QED BY <1>1, <2>1, <2>2, <2>3, <2>4 DEF Sure
<1>3. ASSUME NEW m \in Members, SaveBirthday(m) \/ Unlink(m) \/ Calendar(m) \/ Membership(m)
      PROVE  UNCHANGED <<mirror, upUsers, work>>
    BY <1>3 DEF SaveBirthday, Unlink, Calendar, Membership
<1>4. ASSUME NEW k \in Links,
             \/ \E r \in Rules : SaveRule(k, r)
             \/ Toggle(k) \/ UpstreamCreate(k) \/ Register(k) \/ Tick(k)
      PROVE  UNCHANGED <<mirror, upUsers, work>>
    BY <1>4 DEF SaveRule, Toggle, UpstreamCreate, Register, Tick
<1>5. ASSUME NEW k \in Links, UpstreamDelete(k)
      PROVE  UNCHANGED work /\ mirror'[l] = mirror[l] /\ upUsers'[l] = upUsers[l]
    <2>1. upToken'[k] # upToken[k] BY <1>5 DEF UpstreamDelete, TypeOK
    <2>2. k # l BY <1>1, <2>1
    <2> QED BY <1>5, <2>2 DEF UpstreamDelete, TypeOK
<1>6. ASSUME NEW k \in Links, DeleteConfig(k)
      PROVE  UNCHANGED work /\ mirror'[l] = mirror[l] /\ upUsers'[l] = upUsers[l]
    <2>1. token'[k] # token[k] BY <1>6 DEF DeleteConfig, DeleteRow, TypeOK
    <2>2. k # l BY <1>1, <2>1
    <2> QED BY <1>6, <2>2 DEF DeleteConfig, DeleteRow, TypeOK
<1>7. ~Restore BY <1>1 DEF Restore
<1> QED BY <1>2, <1>3, <1>4, <1>5, <1>6, <1>7 DEF World

LEMMA WorldWork ==
    ASSUME World \/ \E k \in Links : Tick(k)
    PROVE  UNCHANGED work \/ \A v \in Workers : work'[v] = Idle
BY DEF World, Tick, SaveBirthday, Unlink, Calendar, Membership, SaveRule, Toggle, UpstreamDelete,
       UpstreamCreate, Register, DeleteConfig, Restore

(* A worker that takes a job, or dies, leaves every link alone but those that it
   owes something. *)
LEMMA ClaimEffect ==
    ASSUME TypeOK, NEW w \in Workers, Crash(w) \/ \E job \in Jobs : Claim(w, job)
    PROVE  /\ SparesOthers(w) /\ Once(w)' /\ ~At(w, "delete")'
           /\ \A l \in Links : ~Disturbed(l) => Untouched(w, l)
<1>1. SparesOthers(w) BY BecomeSpares DEF Claim, Crash
<1>2. work'[w].step \in {"guilds", "link", "idle"}
    <2>1. CASE Crash(w) BY <2>1, EndsIdle DEF Crash, Idle
    <2>2. ASSUME NEW job \in Jobs, Claim(w, job) PROVE work'[w].step \in {"guilds", "link"}
        <3>1. work'[w] = [step |-> IF job.kind = "player_sync" THEN "guilds" ELSE "link", job |-> job]
            BY <2>2, EndsIdle DEF Claim
        <3> QED BY <3>1
    <2> QED BY <2>1, <2>2
<1>3. Once(w)' /\ ~At(w, "delete")' /\ \A l \in Links : ~Owes(w, l)' BY <1>2 DEF Once, Owes
<1>4. UNCHANGED <<mirror, upUsers>> BY DEF Crash, Claim, db, upstream
<1>5. ASSUME NEW l \in Links, ~Disturbed(l) PROVE ~Owes(w, l)
    <2>1. CASE Crash(w) BY <1>3, <1>5, <2>1, Unrecorded DEF Crash
    <2>2. CASE \E job \in Jobs : Claim(w, job) BY <2>2 DEF Claim, Owes
    <2> QED BY <2>1, <2>2
<1> QED BY <1>1, <1>3, <1>4, <1>5, FreeUntouched

LEMMA StutterSure ==
    ASSUME NEW l \in Links, Sure(l), UNCHANGED vars
    PROVE  Sure(l)'
<1> SUFFICES UNCHANGED <<token, mirror, upUsers, work>> /\ Sure(l) => Sure(l)' BY DEF vars
<1>1. ASSUME UNCHANGED <<token, mirror, upUsers, work>> PROVE Sure(l)'
    <2>1. \A v \in Workers : Owes(v, l)' <=> Owes(v, l) BY <1>1 DEF Owes, LinkOf
    <2>2. ASSUME NEW v \in Workers PROVE MakesUp(v, l)'
        <3>1. MakesUp(v, l) BY DEF Sure
        <3> QED BY <1>1, <3>1, Zenon DEF MakesUp, LinkOf
    <2> QED BY <1>1, <2>1, <2>2 DEF Sure
<1> QED BY <1>1

LEMMA MirrorStep == MirrorInv /\ [MNext]_mvars => MirrorInv'
<1> SUFFICES ASSUME MirrorInv, [MNext]_mvars PROVE MirrorInv' OBVIOUS
<1>1. TypeOK /\ \A w \in Workers : Once(w) BY DEF MirrorInv
<1>2. TypeOK'
    <2>1. [Next]_vars BY DEF MNext, mvars
    <2> QED BY <1>1, <2>1, TypeStep
<1>3. CASE UNCHANGED mvars
    <2>1. UNCHANGED vars /\ doubtful' = doubtful BY <1>3 DEF mvars
    <2>2. \A w \in Workers : Once(w)' BY <1>1, <2>1 DEF Once, vars
    <2>3. \A l \in Links \ doubtful' : Sure(l)' BY <2>1, StutterSure DEF MirrorInv
    <2> QED BY <1>2, <2>2, <2>3 DEF MirrorInv
<1>4. CASE MNext
    <2>1. ASSUME NEW l \in Links \ doubtful' PROVE ~Disturbed(l) /\ (Sure(l) \/ Renewed(l))
        BY <1>4, <2>1 DEF MNext, Doubt, MirrorInv
    <2>2. CASE World \/ \E k \in Links : Tick(k)
        <3>1. \A w \in Workers : Once(w)' BY <1>1, <2>2, WorldWork DEF Once, Idle
        <3>2. \A l \in Links \ doubtful' : Sure(l)' BY <1>1, <2>1, <2>2, WorldSure
        <3> QED BY <1>2, <3>1, <3>2 DEF MirrorInv
    <2>3. ASSUME NEW w \in Workers, SparesOthers(w), Once(w)',
                 At(w, "put") /\ At(w, "delete")' => LinkOf(w)' = LinkOf(w),
                 \A l \in Links : token[l] # 0 /\ ~Disturbed(l) =>
                     Untouched(w, l) \/ Called(w, l) \/ Written(w, l)
          PROVE  MirrorInv'
        <3>1. \A v \in Workers : Once(v)' BY <1>1, <2>3, SparedOnce
        <3>2. ASSUME NEW l \in Links \ doubtful' PROVE Sure(l)'
            <4>1. token[l] # 0 BY <2>1, <3>2 DEF Sure, Renewed
            <4> QED BY <2>1, <2>3, <3>2, <4>1, SureStep
        <3> QED BY <1>2, <3>1, <3>2 DEF MirrorInv
    <2>4. ASSUME NEW w \in Workers, Step(w) PROVE MirrorInv'
        BY <1>1, <2>3, <2>4, StepEffect, OthersSpared
    <2>5. ASSUME NEW w \in Workers, Crash(w) \/ \E job \in Jobs : Claim(w, job)
          PROVE  MirrorInv'
        BY <1>1, <2>3, <2>5, ClaimEffect
    <2> QED BY <1>4, <2>2, <2>4, <2>5 DEF MNext, Next
<1> QED BY <1>3, <1>4

LEMMA InitMirror == MInit => MirrorInv
<1> SUFFICES ASSUME MInit PROVE MirrorInv OBVIOUS
<1>1. TypeOK BY InitType DEF MInit
<1>2. \A w \in Workers : At(w, "idle") BY DEF MInit, Init, Idle
<1>3. \A w \in Workers : Once(w) /\ \A l \in Links : ~Owes(w, l) /\ MakesUp(w, l)
    BY <1>2 DEF Once, Owes, MakesUp
<1> QED BY <1>1, <1>3 DEF MirrorInv, Sure, MInit, Init

(* The invariant behind it: a link that is not in doubt has a row, at most one job
   owes its mirror anything, and what that job writes makes up for it. *)
THEOREM MirrorInvariant == MSpec => []MirrorInv
BY InitMirror, MirrorStep, PTL DEF MSpec

(* migrations/001: role_assignments is the "local mirror of who currently holds
   which Discord role".  For any members, links, workers, changes and failures: the
   mirror of a link is RoleLogic's list unless a job is on its way from one to the
   other, or the link is in doubt and no whole list was uploaded since. *)
THEOREM MirrorIsExact == MSpec => []MirrorExact
<1>1. MirrorInv => MirrorExact BY DEF MirrorInv, Sure, MirrorExact
<1> QED BY <1>1, MirrorInvariant, PTL
=============================================================================
