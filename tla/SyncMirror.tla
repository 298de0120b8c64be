----------------------------- MODULE SyncMirror -----------------------------
(***************************************************************************)
(* Sync with a memory of which links' mirrors are in doubt.  A job changes *)
(* RoleLogic's list first and the mirror of it afterwards; whatever comes  *)
(* in between, or keeps the second step from happening, may leave the      *)
(* mirror wrong until a whole list is uploaded again.                      *)
(***************************************************************************)
EXTENDS Sync

VARIABLE doubtful    \* the links whose mirror is in doubt

mvars == <<vars, doubtful>>

(* w has called RoleLogic for l and the mirror is still to follow. *)
Owes(w, l) ==
    \/ work[w].step \in {"delete", "insert"} /\ LinkOf(w) = l
    \/ At(w, "actions") /\ \E a \in work[w].todo : a.called /\ a.link = l

(* The link is not the one it was; two jobs owe its mirror what they did; or the
   mirror will not follow, because an answer or a write was lost or a process died. *)
Disturbed(l) ==
    \/ token'[l] # token[l] \/ upToken'[l] # upToken[l]
    \/ \E v, w \in Workers : v # w /\ Owes(v, l)' /\ Owes(w, l)'
    \/ /\ faults' # faults
       /\ upUsers'[l] # upUsers[l] \/ \E w \in Workers : Owes(w, l) /\ ~Owes(w, l)'

(* A whole list has been uploaded. *)
Renewed(l) ==
    token[l] # 0 /\ \E w \in Workers : At(w, "put") /\ At(w, "delete")' /\ LinkOf(w) = l

Doubt == doubtful' = {l \in Links : Disturbed(l) \/ (l \in doubtful /\ ~Renewed(l))}

MInit == Init /\ doubtful = {}
MNext == Next /\ Doubt
MSpec == MInit /\ [][MNext]_mvars
MFairSpec == MSpec /\ Fairness

-----------------------------------------------------------------------------
(* migrations/001: "local mirror of who currently holds which Discord role".
   However many workers there are, whatever fails and whatever changes: the mirror
   of a link is RoleLogic's list unless a job is on its way from one to the other or
   the link is in doubt, and one whole upload clears it of doubt. *)
MirrorExact ==
    \A l \in Links \ doubtful : (\A w \in Workers : ~Owes(w, l)) => mirror[l] = upUsers[l]

(* What a worker is about to write makes up for what it owes. *)
MakesUp(w, l) ==
    LET who == work[w].job.who
    IN  /\ work[w].step \in {"delete", "insert"} /\ LinkOf(w) = l => upUsers[l] = work[w].list
        /\ At(w, "insert") /\ LinkOf(w) = l => work[w].deleted = mirror[l]
        /\ At(w, "actions") => \A a \in work[w].todo : a.called /\ a.link = l =>
              upUsers[l] = IF a.op = "add" THEN mirror[l] \union {who} ELSE mirror[l] \ {who}

(* A player_sync job has one action for a link. *)
Once(w) ==
    At(w, "actions") => \A a, b \in work[w].todo : a.link = b.link => a = b

(* A link that is not in doubt has a row, at most one worker that owes its mirror
   anything, and that worker makes up for it. *)
Sure(l) ==
    /\ token[l] # 0
    /\ \A v, w \in Workers : Owes(v, l) /\ Owes(w, l) => v = w
    /\ (\A w \in Workers : ~Owes(w, l)) => mirror[l] = upUsers[l]
    /\ \A w \in Workers : MakesUp(w, l)

(* The inductive invariant behind MirrorExact. *)
MirrorInv ==
    /\ TypeOK
    /\ \A w \in Workers : Once(w)
    /\ \A l \in Links \ doubtful : Sure(l)

(* Tick after tick the users that RoleLogic gives the role to are brought to those
   the rule asks for, with concurrent workers, members, admins and failures, as far
   as the mirror can be relied on: what is sent is sent because of it. *)
UpstreamConverges ==
    \A l \in Links : <>[](Served(l) /\ l \notin doubtful => upUsers[l] = Target(l))
=============================================================================
