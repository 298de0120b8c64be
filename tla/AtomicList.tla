------------------------------ MODULE AtomicList ------------------------------
(***************************************************************************)
(* What upload_users promises to the sync engine, whichever transport it   *)
(* picks: the list of a role link is replaced as a whole, at most once per *)
(* upload, and the Result tells as much as can be known about it.          *)
(***************************************************************************)
CONSTANTS Members, Uploads

VARIABLES
    list,    \* the users RoleLogic has for the link
    want,    \* the list each upload brings
    phase,   \* "new", "open", "applied", or "refused": it will never be applied
    answer   \* what upload_users returned, "none" before it did

Refusals == {"held", "gone", "disabled"}

vars == <<list, want, phase, answer>>

Init ==
    /\ list \in SUBSET Members
    /\ want \in [Uploads -> SUBSET Members]
    /\ phase = [u \in Uploads |-> "new"]
    /\ answer = [u \in Uploads |-> "none"]

Begin(u) ==
    /\ phase[u] = "new"
    /\ phase' = [phase EXCEPT ![u] = "open"]
    /\ UNCHANGED <<list, want, answer>>

(* Perhaps after upload_users has returned an error. *)
Apply(u) ==
    /\ phase[u] = "open"
    /\ phase' = [phase EXCEPT ![u] = "applied"]
    /\ list' = want[u]
    /\ UNCHANGED <<want, answer>>

Refuse(u) ==
    /\ phase[u] = "open"
    /\ phase' = [phase EXCEPT ![u] = "refused"]
    /\ UNCHANGED <<list, want, answer>>

(* Ok: the list was applied.  A typed error: it was not and will not be.  Any
   other error says nothing. *)
Return(u, r) ==
    /\ phase[u] # "new" /\ answer[u] = "none"
    /\ \/ phase' = phase
       \/ phase[u] = "open" /\ phase' = [phase EXCEPT ![u] = "refused"]
    /\ r = "ok" => phase'[u] = "applied"
    /\ r \in Refusals => phase'[u] = "refused"
    /\ answer' = [answer EXCEPT ![u] = r]
    /\ UNCHANGED <<list, want>>

(* The link is deleted. *)
Clear == list' = {} /\ UNCHANGED <<want, phase, answer>>

Next ==
    \/ \E u \in Uploads :
          \/ Begin(u) \/ Apply(u) \/ Refuse(u)
          \/ \E r \in Refusals \union {"ok", "error"} : Return(u, r)
    \/ Clear

Spec == Init /\ [][Next]_vars
=============================================================================
