---------------------------- MODULE AccessProofs ----------------------------
(***************************************************************************)
(* Machine-checked proofs about Access, for any people and links, and for   *)
(* any lifetimes of the tokens: who may edit a rule, who is served the list *)
(* of birthdays, and who is asked to sign in.                               *)
(***************************************************************************)
EXTENDS Access, TLAPS

(* managerAt is the last moment somebody managed the server. *)
Fresh == \A p \in People : managerAt[p] <= now /\ (level[p] = "manager" => managerAt[p] = now)

(* A JWT that may write was issued to a manager. *)
Issued ==
    \A j \in jwts : ~j.readOnly =>
        managerAt[j.holder] > 0 /\ j.exp <= managerAt[j.holder] + JwtTtl

(* A session that may write comes from such a JWT, for the same link. *)
Minted ==
    \A s \in sessions : ~s.readOnly =>
        \E j \in jwts : /\ j.holder = s.holder /\ j.link = s.link /\ ~j.readOnly
                       /\ s.exp <= j.exp + Skew + IframeTtl

(* A save that passed its check was granted. *)
Pending ==
    \A p \in People : req[p] \in WriteRule => Granted(req[p].about, req[p].grant)

(* A request of the birthdays page has seen what is the case now, and what it was
   let through on. *)
Suffices(r) ==
    \/ r.about = "members" /\ r.levels \intersect {"member", "manager"} # {}
    \/ r.about = "managers" /\ "manager" \in r.levels

Watched ==
    \A p \in People : req[p] \in Listing =>
        /\ level[p] \in req[p].levels /\ enrolled \subseteq req[p].around
        /\ req[p].step \in {"members", "rows"} => Suffices(req[p])
        /\ req[p].members \subseteq req[p].around

(* The inductive invariant. *)
AccessInv ==
    TypeOK /\ Fresh /\ Issued /\ Minted /\ Pending /\ Watched /\ EditsAreGranted

(* What each step and kind of a request says about its shape. *)
LEMMA Shapes ==
    ASSUME NEW r \in Requests
    PROVE  /\ r.step = "idle" => r = Idle
           /\ r.step = "permission" /\ r.kind = "save" => r \in AskSave
           /\ r.step = "permission" /\ r.kind = "set" => r \in AskSet
           /\ r.step = "permission" /\ r.kind = "users" => r \in Listing
           /\ r.step = "permission" /\ r.kind # "users" => r \in AskSave \union AskSet
           /\ r.step = "write" /\ r.kind = "save" => r \in WriteRule
           /\ r.step = "write" /\ r.kind = "set" => r \in WriteSetting
           /\ r.step \in {"members", "rows"} => r \in Listing
           /\ r \in WriteRule => r.step = "write" /\ r.kind = "save"
           /\ r \in Listing => r.step \in {"permission", "members", "rows"} /\ r.kind = "users"
           /\ r # Idle /\ r.kind = "users" => r \in Listing
           /\ r = Idle => r \notin WriteRule /\ r \notin Listing
           /\ r.step = "idle" \/ r.kind # "users" => r \notin Listing
  BY DEF Requests, Idle, AskSave, AskSet, WriteRule, WriteSetting, Listing

(* Later there are only more JWTs. *)
LEMMA GrantedStays ==
    ASSUME NEW l, NEW g, Granted(l, g), jwts \subseteq jwts'
    PROVE  Granted(l, g)'
  BY DEF Granted, Window

(* The history of a request of the birthdays page grows. *)
LEMMA WitnessedType ==
    ASSUME TypeOK, level' \in [People -> Levels], enrolled' \in SUBSET People,
           req' = Witnessed(level', enrolled')
    PROVE  /\ req' \in [People -> Requests]
           /\ \A p \in People :
                 /\ req[p] \notin Listing => req'[p] = req[p]
                 /\ req[p] \in Listing =>
                      /\ req'[p] \in Listing
                      /\ req'[p].step = req[p].step
                      /\ req'[p].about = req[p].about
                      /\ req'[p].members = req[p].members
                      /\ req'[p].levels = req[p].levels \union {level'[p]}
                      /\ req'[p].around = req[p].around \union enrolled'
                 /\ req'[p].step = req[p].step
<1> SUFFICES ASSUME NEW p \in People
             PROVE  /\ req'[p] \in Requests
                    /\ req[p] \notin Listing => req'[p] = req[p]
                    /\ req[p] \in Listing =>
                         /\ req'[p] \in Listing
                         /\ req'[p].step = req[p].step
                         /\ req'[p].about = req[p].about
                         /\ req'[p].members = req[p].members
                         /\ req'[p].levels = req[p].levels \union {level'[p]}
                         /\ req'[p].around = req[p].around \union enrolled'
                    /\ req'[p].step = req[p].step
  BY DEF Witnessed
<1> DEFINE r == req[p]
           w == [r EXCEPT !.levels = @ \union {level'[p]}, !.around = @ \union enrolled']
<1>1. r \in Requests
  BY DEF TypeOK
<1>2. CASE r \notin Listing
  <2>1. r.step = "idle" \/ r.kind # "users"
    BY <1>1, <1>2, Shapes DEF Requests, Idle, AskSave, AskSet, WriteRule, WriteSetting
  <2>2. req'[p] = r
    BY <2>1 DEF Witnessed
  <2>3. QED
    BY <1>1, <1>2, <2>2
<1>3. CASE r \in Listing
  <2>1. r.step # "idle" /\ r.kind = "users"
    BY <1>3 DEF Listing
  <2>2. req'[p] = w
    BY <2>1 DEF Witnessed
  <2>3. /\ w \in Listing /\ w.step = r.step /\ w.about = r.about /\ w.members = r.members
        /\ w.levels = r.levels \union {level'[p]} /\ w.around = r.around \union enrolled'
    BY <1>3 DEF Listing
  <2>4. QED
    BY <1>3, <2>2, <2>3 DEF Requests
<1>4. QED
  BY <1>2, <1>3

(* A step of one request, which leaves everything else alone. *)
LEMMA RequestStep ==
    ASSUME AccessInv, NEW p \in People, NEW r \in Requests,
           req' = [req EXCEPT ![p] = r],
           UNCHANGED <<world, credentials>>,
           setting' \in Settings,
           edit' = edit \/ (edit' \in [link : Links, grant : Grant] /\ Granted(edit'.link, edit'.grant)),
           screen' \in [People -> {"none", "signin", "error", "list"}],
           \A q \in People \ {p} : screen'[q] = screen[q],
           r \in Listing => screen'[p] = "none",
           r \in WriteRule => Granted(r.about, r.grant),
           r \in Listing =>
              /\ level[p] \in r.levels /\ enrolled \subseteq r.around
              /\ r.step \in {"members", "rows"} => Suffices(r)
              /\ r.members \subseteq r.around
    PROVE  AccessInv'
<1> USE DEF world, credentials
<1>1. req' \in [People -> Requests] /\ req'[p] = r /\ \A q \in People \ {p} : req'[q] = req[q]
  BY DEF AccessInv, TypeOK
<1>2. TypeOK'
  <2>1. \A q \in People : req'[q] \in Listing => screen'[q] = "none"
    BY <1>1 DEF AccessInv, TypeOK
  <2>2. edit' \in {NoEdit} \union [link : Links, grant : Grant]
    BY DEF AccessInv, TypeOK
  <2>3. QED
    BY <1>1, <2>1, <2>2 DEF AccessInv, TypeOK
<1>3. Fresh' /\ Issued' /\ Minted'
  BY DEF AccessInv, Fresh, Issued, Minted
<1>4. Pending'
  <2> SUFFICES ASSUME NEW q \in People, req'[q] \in WriteRule
               PROVE  Granted(req[q].about, req[q].grant)'
    BY DEF Pending
  <2>1. Granted(req'[q].about, req'[q].grant)
    BY <1>1 DEF AccessInv, Pending
  <2>2. QED
    BY <2>1 DEF Granted
<1>5. Watched'
  <2> SUFFICES ASSUME NEW q \in People, req'[q] \in Listing
               PROVE  /\ level'[q] \in req'[q].levels /\ enrolled' \subseteq req'[q].around
                      /\ req'[q].step \in {"members", "rows"} => Suffices(req'[q])
                      /\ req'[q].members \subseteq req'[q].around
    BY DEF Watched, Suffices
  <2>1. QED
    BY <1>1 DEF AccessInv, Watched
<1>6. EditsAreGranted'
  <2>1. edit # NoEdit /\ edit' = edit => Granted(edit'.link, edit'.grant)
    BY DEF AccessInv, EditsAreGranted
  <2>2. edit' # NoEdit => Granted(edit'.link, edit'.grant)
    BY <2>1
  <2>3. QED
    BY <2>2 DEF EditsAreGranted, Granted
<1>7. QED
  BY <1>2, <1>3, <1>4, <1>5, <1>6 DEF AccessInv

(* A handler that returns an error: what it leaves of the request is nothing. *)
LEMMA RefuseKeepsInv ==
    ASSUME AccessInv, NEW p \in People, NEW error, Refuse(p, error)
    PROVE  AccessInv'
<1>1. Idle \in Requests /\ Idle.step = "idle" /\ Idle \notin WriteRule /\ Idle \notin Listing
  BY DEF Requests, Idle, WriteRule, Listing
<1>2. /\ screen' \in [People -> {"none", "signin", "error", "list"}]
      /\ \A q \in People \ {p} : screen'[q] = screen[q]
  BY DEF Refuse, Prompt, AccessInv, TypeOK
<1>3. setting' \in Settings
  BY DEF Refuse, AccessInv, TypeOK
<1>4. QED
  BY <1>1, <1>2, <1>3, RequestStep DEF Refuse

LEMMA GatewayFailsKeepsInv ==
    ASSUME AccessInv, NEW p \in People, GatewayFails(p)
    PROVE  AccessInv'
  BY RefuseKeepsInv DEF GatewayFails

(* A request that goes on, or begins, without showing anything. *)
LEMMA QuietStep ==
    ASSUME AccessInv, NEW p \in People, NEW r \in Requests,
           req' = [req EXCEPT ![p] = r], Quiet,
           r \in Listing => req[p] \in Listing,
           r \in WriteRule => Granted(r.about, r.grant),
           r \in Listing =>
              /\ level[p] \in r.levels /\ enrolled \subseteq r.around
              /\ r.step \in {"members", "rows"} => Suffices(r)
              /\ r.members \subseteq r.around
    PROVE  AccessInv'
<1>1. /\ UNCHANGED <<world, credentials>> /\ setting' \in Settings /\ edit' = edit
      /\ screen' \in [People -> {"none", "signin", "error", "list"}] /\ screen' = screen
  BY DEF Quiet, AccessInv, TypeOK
<1>2. r \in Listing => screen'[p] = "none"
  BY <1>1 DEF AccessInv, TypeOK
<1>3. QED
  BY <1>1, <1>2, RequestStep

(* The clock: who manages the server now still did a moment ago. *)
LEMMA AdvanceKeepsInv ==
    ASSUME AccessInv, Advance
    PROVE  AccessInv'
<1> USE DEF AccessInv, Advance
<1>1. TypeOK'
  BY DEF TypeOK
<1>2. /\ now' = now + 1 /\ now \in Nat
      /\ \A p \in People : /\ managerAt[p] \in Nat /\ managerAt'[p] \in Nat
                           /\ managerAt'[p] >= managerAt[p] /\ managerAt'[p] <= now'
                           /\ level'[p] = "manager" => managerAt'[p] = now'
  BY DEF TypeOK, Fresh
<1>3. Fresh'
  BY <1>2 DEF Fresh
<1>4. Issued'
  <2> SUFFICES ASSUME NEW j \in jwts, ~j.readOnly
               PROVE  managerAt'[j.holder] > 0 /\ j.exp <= managerAt'[j.holder] + JwtTtl
    BY DEF Issued
  <2>1. j.holder \in People /\ j.exp \in Nat
    BY DEF TypeOK
  <2>2. QED
    BY <1>2, <2>1, AccessAssumption DEF Issued
<1>5. Minted'
  BY DEF Minted
<1>6. Pending' /\ EditsAreGranted'
  BY DEF Pending, EditsAreGranted, Granted
<1>7. Watched'
  BY DEF Watched, Suffices
<1>8. QED
  BY <1>1, <1>3, <1>4, <1>5, <1>6, <1>7

(* Levels and members change: a request of the birthdays page sees it. *)
LEMMA DiscordKeepsInv ==
    ASSUME AccessInv, NEW p \in People, NEW v \in Levels, NEW o \in BOOLEAN, Discord(p, v, o)
    PROVE  AccessInv'
<1> USE DEF credentials
<1>1. /\ level' \in [People -> Levels] /\ enrolled' \in SUBSET People
      /\ enrolled' \subseteq {q \in People : level'[q] # "none"}
  BY DEF Discord, AccessInv, TypeOK
<1>2. /\ req' \in [People -> Requests]
      /\ \A q \in People :
            /\ req[q] \notin Listing => req'[q] = req[q]
            /\ req[q] \in Listing =>
                 /\ req'[q] \in Listing /\ req'[q].step = req[q].step
                 /\ req'[q].about = req[q].about /\ req'[q].members = req[q].members
                 /\ req'[q].levels = req[q].levels \union {level'[q]}
                 /\ req'[q].around = req[q].around \union enrolled'
            /\ req'[q].step = req[q].step
  <2>1. req' = Witnessed(level', enrolled') /\ TypeOK
    BY DEF Discord, AccessInv
  <2> HIDE DEF AccessInv
  <2>2. QED
    BY <1>1, <2>1, WitnessedType
<1>3. /\ now' = now /\ now \in Nat \ {0}
      /\ \A q \in People : /\ managerAt[q] \in Nat /\ managerAt'[q] \in Nat
                           /\ managerAt'[q] >= managerAt[q] /\ managerAt'[q] <= now'
                           /\ level'[q] = "manager" => managerAt'[q] = now'
  BY DEF Discord, AccessInv, TypeOK, Fresh
<1>4. TypeOK'
  <2>1. managerAt' \in [People -> Nat]
    BY <1>3 DEF Discord, AccessInv, TypeOK
  <2>2. \A q \in People : req'[q] \in Listing => screen'[q] = "none"
    BY <1>2 DEF Discord, AccessInv, TypeOK
  <2>3. QED
    BY <1>1, <1>2, <2>1, <2>2 DEF Discord, AccessInv, TypeOK
<1>5. Fresh'
  BY <1>3 DEF Fresh
<1>6. Issued'
  <2> SUFFICES ASSUME NEW j \in jwts, ~j.readOnly
               PROVE  managerAt'[j.holder] > 0 /\ j.exp <= managerAt'[j.holder] + JwtTtl
    BY DEF Issued, Discord
  <2>1. j.holder \in People /\ j.exp \in Nat
    BY DEF TypeOK, AccessInv
  <2>2. QED
    BY <1>3, <2>1, AccessAssumption DEF Issued, AccessInv
<1>7. Minted'
  BY DEF Minted, Discord, AccessInv
<1>8. Pending'
  <2> SUFFICES ASSUME NEW q \in People, req'[q] \in WriteRule
               PROVE  req'[q] = req[q] /\ Granted(req[q].about, req[q].grant)'
    BY DEF Pending
  <2>1. req'[q] \in Requests /\ req'[q] \notin Listing
    BY <1>2, Shapes DEF WriteRule, Listing
  <2>2. req'[q] = req[q]
    BY <1>2, <2>1
  <2>3. Granted(req[q].about, req[q].grant)
    BY <2>2 DEF AccessInv, Pending
  <2>4. QED
    BY <2>2, <2>3 DEF Granted, Discord
<1>9. Watched'
  <2> SUFFICES ASSUME NEW q \in People, req'[q] \in Listing
               PROVE  /\ level'[q] \in req'[q].levels /\ enrolled' \subseteq req'[q].around
                      /\ req'[q].step \in {"members", "rows"} => Suffices(req'[q])
                      /\ req'[q].members \subseteq req'[q].around
    BY DEF Watched, Suffices
  <2>1. req[q] \in Listing
    BY <1>2
  <2>2. /\ req[q].step \in {"members", "rows"} => Suffices(req[q])
        /\ req[q].members \subseteq req[q].around
    BY <2>1 DEF AccessInv, Watched
  <2>3. QED
    BY <1>2, <2>1, <2>2 DEF Suffices
<1>10. EditsAreGranted'
  BY DEF EditsAreGranted, Granted, Discord, AccessInv
<1>11. QED
  BY <1>4, <1>5, <1>6, <1>7, <1>8, <1>9, <1>10 DEF AccessInv

LEMMA LogInKeepsInv ==
    ASSUME AccessInv, NEW p \in People, LogIn(p)
    PROVE  AccessInv'
<1> USE DEF AccessInv, LogIn, world
<1>1. TypeOK'
  BY AccessAssumption DEF TypeOK, Idle
<1>2. Fresh' /\ Issued' /\ Minted' /\ Pending' /\ Watched' /\ EditsAreGranted'
  BY DEF Fresh, Issued, Minted, Pending, Watched, Suffices, EditsAreGranted, Granted
<1>3. QED
  BY <1>1, <1>2

(* RoleLogic lets a manager write, anybody else it names only read. *)
LEMMA IssueJwtKeepsInv ==
    ASSUME AccessInv, NEW p \in People, NEW l \in Links, NEW ro \in BOOLEAN, IssueJwt(p, l, ro)
    PROVE  AccessInv'
<1> DEFINE new == [holder |-> p, link |-> l, readOnly |-> ro, exp |-> now + JwtTtl]
<1>1. jwts' = jwts \union {new} /\ (ro \/ level[p] = "manager")
  BY DEF IssueJwt
<1>2. now \in Nat \ {0} /\ now + JwtTtl \in Nat /\ managerAt[p] \in Nat
  BY AccessAssumption DEF AccessInv, TypeOK
<1>3. TypeOK'
  BY <1>1, <1>2 DEF AccessInv, TypeOK, IssueJwt, world
<1>4. Fresh' /\ Watched'
  BY DEF AccessInv, Fresh, Watched, Suffices, IssueJwt, world
<1>5. Issued'
  <2> SUFFICES ASSUME NEW j \in jwts', ~j.readOnly
               PROVE  managerAt[j.holder] > 0 /\ j.exp <= managerAt[j.holder] + JwtTtl
    BY DEF Issued, IssueJwt, world
  <2>1. CASE j \in jwts
    BY <2>1 DEF AccessInv, Issued
  <2>2. CASE j = new
    <3>1. level[p] = "manager"
      BY <1>1, <2>2
    <3>2. managerAt[p] = now
      BY <3>1 DEF AccessInv, Fresh
    <3>3. QED
      BY <1>2, <2>2, <3>2, AccessAssumption
  <2>3. QED
    BY <1>1, <2>1, <2>2
<1>6. Minted' /\ Pending' /\ EditsAreGranted'
  BY <1>1 DEF AccessInv, Minted, Pending, EditsAreGranted, Granted, IssueJwt
<1>7. QED
  BY <1>3, <1>4, <1>5, <1>6 DEF AccessInv

(* A page is opened with a JWT that verifies: its session outlives the JWT by no
   more than the skew and its own lifetime. *)
LEMMA RoleConfigPageKeepsInv ==
    ASSUME AccessInv, NEW j \in jwts, NEW l \in Links, RoleConfigPage(j, l)
    PROVE  AccessInv'
<1> DEFINE new == [holder |-> j.holder, link |-> l, readOnly |-> j.readOnly, exp |-> now + IframeTtl]
<1>1. sessions' = sessions \union {new} /\ now <= j.exp + Skew /\ j.link = l
  BY DEF RoleConfigPage, Mint, Verify
<1>2. j \in [holder : People, link : Links, readOnly : BOOLEAN, exp : Nat] /\ now \in Nat
  BY DEF AccessInv, TypeOK
<1>3. new \in [holder : People, link : Links, readOnly : BOOLEAN, exp : Nat]
  BY <1>2, AccessAssumption
<1>4. TypeOK'
  BY <1>1, <1>3 DEF AccessInv, TypeOK, RoleConfigPage, world
<1>5. Fresh' /\ Issued' /\ Watched' /\ Pending' /\ EditsAreGranted'
  BY DEF AccessInv, Fresh, Issued, Watched, Suffices, Pending, EditsAreGranted, Granted,
         RoleConfigPage, world
<1>6. Minted'
  <2> SUFFICES ASSUME NEW s \in sessions', ~s.readOnly
               PROVE  \E k \in jwts : /\ k.holder = s.holder /\ k.link = s.link /\ ~k.readOnly
                                      /\ s.exp <= k.exp + Skew + IframeTtl
    BY DEF Minted, RoleConfigPage
  <2>1. CASE s \in sessions
    BY <2>1 DEF AccessInv, Minted
  <2>2. CASE s = new
    <3>1. s.exp <= j.exp + Skew + IframeTtl
      BY <1>1, <1>2, <2>2, AccessAssumption
    <3>2. j.holder = s.holder /\ j.link = s.link /\ ~j.readOnly
      BY <1>1, <2>2
    <3>3. QED
      BY <3>1, <3>2
  <2>3. QED
    BY <1>1, <2>1, <2>2
<1>7. QED
  BY <1>4, <1>5, <1>6 DEF AccessInv

(* What a check grants when somebody is found to be entitled. *)
LEMMA EntitledToSave ==
    ASSUME AccessInv, NEW p \in People, NEW l \in Links, NEW via \in {"session", "cookie"}
    PROVE  /\ Entitled(p, "save", l, via) \in WriteRule
           /\ Entitled(p, "save", l, via).step = "write"
           /\ Entitled(p, "save", l, via).about = l
           /\ Entitled(p, "save", l, via).grant =
                 [by |-> p, via |-> via, checked |-> now, manager |-> managerAt[p]]
<1>1. now \in Nat /\ managerAt[p] \in Nat
  BY DEF AccessInv, TypeOK
<1>2. [by |-> p, via |-> via, checked |-> now, manager |-> managerAt[p]] \in Grant
  BY <1>1 DEF Grant
<1>3. QED
  BY <1>2 DEF Entitled, WriteRule

LEMMA EntitledToSet ==
    ASSUME AccessInv, NEW p \in People, NEW v \in Settings, NEW via \in {"session", "cookie"}
    PROVE  /\ Entitled(p, "set", v, via) \in WriteSetting
           /\ Entitled(p, "set", v, via).step = "write"
           /\ Entitled(p, "set", v, via).kind = "set"
<1>1. now \in Nat /\ managerAt[p] \in Nat
  BY DEF AccessInv, TypeOK
<1>2. [by |-> p, via |-> via, checked |-> now, manager |-> managerAt[p]] \in Grant
  BY <1>1 DEF Grant
<1>3. QED
  BY <1>2 DEF Entitled, WriteSetting

(* A write of the setting needs no grant. *)
LEMMA SetterStep ==
    ASSUME AccessInv, NEW p \in People, NEW v \in Settings, NEW via \in {"session", "cookie"},
           req' = [req EXCEPT ![p] = Entitled(p, "set", v, via)], Quiet
    PROVE  AccessInv'
<1> DEFINE r == Entitled(p, "set", v, via)
<1>1. r \in WriteSetting /\ r.step = "write" /\ r.kind = "set"
  BY EntitledToSet
<1>2. r \in Requests /\ r \notin WriteRule /\ r \notin Listing
  BY <1>1 DEF Requests, WriteRule, Listing
<1>3. QED
  BY <1>1, <1>2, QuietStep

LEMMA SaveWithSessionKeepsInv ==
    ASSUME AccessInv, NEW p \in People, NEW s \in sessions, NEW l \in Links, SaveWithSession(p, s, l)
    PROVE  AccessInv'
<1> DEFINE r == Entitled(p, "save", l, "session")
<1>1. s.holder = p /\ now <= s.exp /\ s.link = l /\ ~s.readOnly
  BY DEF SaveWithSession, Live
<1>2. req' = [req EXCEPT ![p] = r] /\ Quiet
  BY DEF SaveWithSession, Begin
<1>3. PICK j \in jwts : /\ j.holder = p /\ j.link = l /\ ~j.readOnly
                       /\ s.exp <= j.exp + Skew + IframeTtl
  BY <1>1 DEF AccessInv, Minted
<1>4. /\ managerAt[p] > 0 /\ j.exp <= managerAt[p] + JwtTtl
      /\ j.exp \in Nat /\ s.exp \in Nat /\ now \in Nat /\ managerAt[p] \in Nat
  BY <1>3 DEF AccessInv, Issued, TypeOK
<1>5. now <= j.exp + Skew + IframeTtl /\ managerAt[p] + Window >= now
  BY <1>1, <1>3, <1>4, AccessAssumption DEF Window
<1>6. /\ r \in WriteRule /\ r.step = "write" /\ r.about = l
      /\ r.grant = [by |-> p, via |-> "session", checked |-> now, manager |-> managerAt[p]]
  BY EntitledToSave
<1>7. Granted(r.about, r.grant)
  BY <1>3, <1>4, <1>5, <1>6 DEF Granted
<1>8. r \in Requests /\ r \notin Listing
  BY <1>6 DEF Requests, Listing
<1>9. QED
  BY <1>2, <1>6, <1>7, <1>8, QuietStep

(* A request that has to ask the gateway is granted nothing yet. *)
LEMMA AskKeepsInv ==
    ASSUME AccessInv, NEW p \in People, NEW kind, NEW about,
           \/ kind = "save" /\ about \in Links
           \/ kind = "set" /\ about \in Settings,
           Begin(p, AskManager(p, kind, about)), Quiet
    PROVE  AccessInv'
<1> DEFINE r == AskManager(p, kind, about)
<1>1. cookie[p] \in Nat
  BY DEF AccessInv, TypeOK
<1>2. r \in AskSave \union AskSet /\ r.step = "permission" /\ r.kind = kind
  BY <1>1 DEF AskManager, AskSave, AskSet
<1>3. r \in Requests /\ r \notin WriteRule /\ r \notin Listing
  BY <1>2 DEF Requests, WriteRule, Listing
<1>4. QED
  BY <1>2, <1>3, QuietStep DEF Begin

(* The gateway finds a manager. *)
LEMMA ManagerCheckedKeepsInv ==
    ASSUME AccessInv, NEW p \in People, ManagerChecked(p)
    PROVE  AccessInv'
<1>1. CASE GatewayFails(p)
  BY <1>1, GatewayFailsKeepsInv
<1>2. CASE Refuse(p, "Forbidden")
  BY <1>2, RefuseKeepsInv
<1>3. CASE level[p] = "manager" /\ Go(p, Entitled(p, req[p].kind, req[p].about, "cookie"))
  <2>1. req[p] \in AskSave \union AskSet
    BY Shapes DEF ManagerChecked, AccessInv, TypeOK
  <2>2. CASE req[p].kind = "save"
    <3> DEFINE r == Entitled(p, "save", req[p].about, "cookie")
    <3>1. req[p].about \in Links
      BY <2>1, <2>2 DEF AskSave, AskSet
    <3>2. managerAt[p] = now /\ now \in Nat \ {0}
      BY <1>3 DEF AccessInv, Fresh, TypeOK
    <3>3. /\ r \in WriteRule /\ r.step = "write" /\ r.about = req[p].about
          /\ r.grant = [by |-> p, via |-> "cookie", checked |-> now, manager |-> managerAt[p]]
      BY <3>1, EntitledToSave
    <3>4. Granted(r.about, r.grant)
      BY <3>2, <3>3, AccessAssumption DEF Granted, Window
    <3>5. r \in Requests /\ r \notin Listing
      BY <3>3 DEF Requests, Listing
    <3>6. req' = [req EXCEPT ![p] = r] /\ Quiet
      BY <1>3, <2>2 DEF Go
    <3>7. QED
      BY <3>3, <3>4, <3>5, <3>6, QuietStep
  <2>3. CASE req[p].kind = "set"
    <3>1. req[p].about \in Settings
      BY <2>1, <2>3 DEF AskSave, AskSet
    <3>2. QED
      BY <1>3, <2>3, <3>1, SetterStep DEF Go
  <2>4. QED
    BY <2>1, <2>2, <2>3 DEF AskSave, AskSet
<1>4. QED
  BY <1>1, <1>2, <1>3 DEF ManagerChecked

(* The rule is written on the strength of what was granted. *)
LEMMA SaveRuleKeepsInv ==
    ASSUME AccessInv, NEW p \in People, SaveRule(p)
    PROVE  AccessInv'
<1>1. CASE \E e \in {"ValidationFailed", "StaleVersion", "NotFound", "Database"} : Refuse(p, e)
  BY <1>1, RefuseKeepsInv
<1>2. CASE /\ edit' = [link |-> req[p].about, grant |-> req[p].grant]
           /\ req' = [req EXCEPT ![p] = Idle]
           /\ UNCHANGED <<world, credentials, setting, screen>>
  <2>1. req[p] \in WriteRule
    BY Shapes DEF SaveRule, AccessInv, TypeOK
  <2>2. edit' \in [link : Links, grant : Grant] /\ Granted(edit'.link, edit'.grant)
    BY <1>2, <2>1 DEF WriteRule, AccessInv, Pending
  <2>3. Idle \in Requests /\ Idle.step = "idle"
        /\ Idle \notin WriteRule /\ Idle \notin Listing
    BY DEF Requests, Idle, WriteRule, Listing
  <2>4. /\ UNCHANGED <<world, credentials>> /\ setting' \in Settings
        /\ screen' = screen /\ screen \in [People -> {"none", "signin", "error", "list"}]
    BY <1>2 DEF AccessInv, TypeOK
  <2>5. QED
    BY <1>2, <2>2, <2>3, <2>4, RequestStep
<1>3. QED
  BY <1>1, <1>2 DEF SaveRule

LEMMA SetViewPermissionKeepsInv ==
    ASSUME AccessInv, NEW p \in People, SetViewPermission(p)
    PROVE  AccessInv'
<1>1. CASE Refuse(p, "Database")
  BY <1>1, RefuseKeepsInv
<1>2. CASE /\ setting' = req[p].about
           /\ req' = [req EXCEPT ![p] = Idle]
           /\ UNCHANGED <<world, credentials, edit, screen>>
  <2>1. setting' \in Settings
    <3>1. req[p] \in WriteSetting
      BY Shapes DEF SetViewPermission, AccessInv, TypeOK
    <3>2. QED
      BY <1>2, <3>1 DEF WriteSetting
  <2>2. Idle \in Requests /\ Idle.step = "idle"
        /\ Idle \notin WriteRule /\ Idle \notin Listing
    BY DEF Requests, Idle, WriteRule, Listing
  <2>3. /\ UNCHANGED <<world, credentials>> /\ edit' = edit
        /\ screen' = screen /\ screen \in [People -> {"none", "signin", "error", "list"}]
    BY <1>2 DEF AccessInv, TypeOK
  <2>4. QED
    BY <1>2, <2>1, <2>2, <2>3, RequestStep
<1>3. QED
  BY <1>1, <1>2 DEF SetViewPermission

(* The page is loaded: refused at once, or the request begins. *)
LEMMA UsersDataKeepsInv ==
    ASSUME AccessInv, NEW p \in People, UsersData(p)
    PROVE  AccessInv'
<1> DEFINE r == [kind |-> "users", step |-> "permission", cookie |-> cookie[p],
                 about |-> setting, members |-> {}, levels |-> {level[p]}, around |-> enrolled]
<1>1. UNCHANGED <<world, credentials>> /\ setting' \in Settings /\ edit' = edit
  BY DEF UsersData, AccessInv, TypeOK
<1>2. /\ screen' \in [People -> {"none", "signin", "error", "list"}]
      /\ \A q \in People \ {p} : screen'[q] = screen[q]
  BY DEF UsersData, RefuseAtOnce, Prompt, AccessInv, TypeOK
<1>3. CASE req' = req
  <2>1. req' = [req EXCEPT ![p] = Idle]
    BY <1>3 DEF UsersData, AccessInv, TypeOK
  <2>2. Idle \in Requests /\ Idle.step = "idle"
        /\ Idle \notin WriteRule /\ Idle \notin Listing
    BY DEF Requests, Idle, WriteRule, Listing
  <2>3. QED
    BY <1>1, <1>2, <2>1, <2>2, RequestStep
<1>4. CASE ~(req' = req)
  <2>1. /\ req' = [req EXCEPT ![p] = r] /\ screen' = [screen EXCEPT ![p] = "none"]
        /\ ~Disabled(setting)
    BY <1>4 DEF UsersData, RefuseAtOnce
  <2>2. r \in Listing /\ r.step = "permission"
    BY <2>1 DEF Listing, Disabled, AccessInv, TypeOK, Settings
  <2>3. r \in Requests /\ r \notin WriteRule /\ screen'[p] = "none"
    BY <2>1, <2>2 DEF Requests, WriteRule, AccessInv, TypeOK
  <2>4. level[p] \in r.levels /\ enrolled \subseteq r.around /\ r.members \subseteq r.around
    OBVIOUS
  <2>5. QED
    BY <1>1, <1>2, <2>1, <2>2, <2>3, <2>4, RequestStep
<1>5. QED
  BY <1>3, <1>4

(* The gateway finds a level that suffices. *)
LEMMA ViewerCheckedKeepsInv ==
    ASSUME AccessInv, NEW p \in People, ViewerChecked(p)
    PROVE  AccessInv'
<1>1. CASE GatewayFails(p)
  BY <1>1, GatewayFailsKeepsInv
<1>2. CASE Refuse(p, "Forbidden")
  BY <1>2, RefuseKeepsInv
<1>3. CASE MayView(req[p], level[p]) /\ Go(p, [req[p] EXCEPT !.step = "members"])
  <2> DEFINE r == [req[p] EXCEPT !.step = "members"]
  <2>1. req[p] \in Listing /\ req[p].step = "permission" /\ req[p].kind = "users"
    BY Shapes DEF ViewerChecked, AccessInv, TypeOK
  <2>2. /\ r \in Listing /\ r.step = "members" /\ r.about = req[p].about
        /\ r.levels = req[p].levels /\ r.around = req[p].around /\ r.members = req[p].members
    BY <2>1 DEF Listing
  <2>3. /\ level[p] \in r.levels /\ enrolled \subseteq r.around /\ r.members \subseteq r.around
    BY <2>1, <2>2 DEF AccessInv, Watched
  <2>4. Suffices(r)
    <3>1. level[p] \in Levels /\ level[p] # "none"
      BY <1>3 DEF AccessInv, TypeOK, MayView
    <3>2. r.about \in {"managers", "members"} /\ (r.about = "managers" => level[p] = "manager")
      BY <1>3, <2>2 DEF Listing, MayView
    <3>3. QED
      BY <2>3, <3>1, <3>2 DEF Suffices, Levels
  <2>5. r \in Requests /\ r \notin WriteRule
    BY <2>2 DEF Requests, WriteRule
  <2>6. Quiet /\ req' = [req EXCEPT ![p] = r]
    BY <1>3 DEF Go
  <2>7. QED
    BY <2>1, <2>2, <2>3, <2>4, <2>5, <2>6, QuietStep
<1>4. QED
  BY <1>1, <1>2, <1>3 DEF ViewerChecked

(* The gateway's list of members is the one of this moment. *)
LEMMA MembersFetchedKeepsInv ==
    ASSUME AccessInv, NEW p \in People, MembersFetched(p)
    PROVE  AccessInv'
<1>1. CASE GatewayFails(p)
  BY <1>1, GatewayFailsKeepsInv
<1>2. CASE Refuse(p, "Unauthorized")
  BY <1>2, RefuseKeepsInv
<1>3. CASE Go(p, [req[p] EXCEPT !.step = "rows", !.members = enrolled])
  <2> DEFINE r == [req[p] EXCEPT !.step = "rows", !.members = enrolled]
  <2>1. req[p] \in Listing /\ req[p].step = "members"
    BY Shapes DEF MembersFetched, AccessInv, TypeOK
  <2>2. enrolled \in SUBSET People
    BY DEF AccessInv, TypeOK
  <2>3. /\ r \in Listing /\ r.step = "rows" /\ r.about = req[p].about
        /\ r.levels = req[p].levels /\ r.around = req[p].around /\ r.members = enrolled
    BY <2>1, <2>2 DEF Listing
  <2>4. /\ level[p] \in r.levels /\ enrolled \subseteq r.around /\ r.members \subseteq r.around
        /\ Suffices(r)
    BY <2>1, <2>3 DEF AccessInv, Watched, Suffices
  <2>5. r \in Requests /\ r \notin WriteRule
    BY <2>3 DEF Requests, WriteRule
  <2>6. Quiet /\ req' = [req EXCEPT ![p] = r]
    BY <1>3 DEF Go
  <2>7. QED
    BY <2>1, <2>3, <2>4, <2>5, <2>6, QuietStep
<1>4. QED
  BY <1>1, <1>2, <1>3 DEF MembersFetched

LEMMA RowsFetchedKeepsInv ==
    ASSUME AccessInv, NEW p \in People, RowsFetched(p)
    PROVE  AccessInv'
<1>1. CASE Refuse(p, "Database")
  BY <1>1, RefuseKeepsInv
<1>2. CASE /\ req' = [req EXCEPT ![p] = Idle]
           /\ screen' = [screen EXCEPT ![p] = "list"]
           /\ UNCHANGED <<world, credentials, setting, edit>>
  <2>1. Idle \in Requests /\ Idle.step = "idle"
        /\ Idle \notin WriteRule /\ Idle \notin Listing
    BY DEF Requests, Idle, WriteRule, Listing
  <2>2. /\ UNCHANGED <<world, credentials>> /\ setting' \in Settings /\ edit' = edit
        /\ screen' \in [People -> {"none", "signin", "error", "list"}]
        /\ \A q \in People \ {p} : screen'[q] = screen[q]
    BY <1>2 DEF AccessInv, TypeOK
  <2>3. QED
    BY <1>2, <2>1, <2>2, RequestStep
<1>3. QED
  BY <1>1, <1>2 DEF RowsFetched

LEMMA InitHasInv == Init => AccessInv
<1> SUFFICES ASSUME Init
             PROVE  AccessInv
  OBVIOUS
<1>1. TypeOK
  <2>1. Idle \notin Listing /\ Idle \in Requests
    BY DEF Idle, Listing, Requests
  <2>2. QED
    BY <2>1 DEF Init, TypeOK, Settings
<1>2. Fresh /\ Issued /\ Minted /\ EditsAreGranted
  BY DEF Init, Fresh, Issued, Minted, EditsAreGranted
<1>3. Pending /\ Watched
  <2>1. Idle \notin Listing /\ Idle \notin WriteRule
    BY DEF Idle, Listing, WriteRule
  <2>2. QED
    BY <2>1 DEF Init, Pending, Watched
<1>4. QED
  BY <1>1, <1>2, <1>3 DEF AccessInv

LEMMA NextKeepsInv == AccessInv /\ [Next]_vars => AccessInv'
<1> SUFFICES ASSUME AccessInv, [Next]_vars
             PROVE  AccessInv'
  OBVIOUS
<1>1. CASE Advance
  BY <1>1, AdvanceKeepsInv
<1>2. CASE \E p \in People, v \in Levels, o \in BOOLEAN : Discord(p, v, o)
  BY <1>2, DiscordKeepsInv
<1>3. CASE \E p \in People : LogIn(p)
  BY <1>3, LogInKeepsInv
<1>4. CASE \E p \in People, l \in Links, ro \in BOOLEAN : IssueJwt(p, l, ro)
  BY <1>4, IssueJwtKeepsInv
<1>5. CASE \E p \in People, s \in sessions, l \in Links : SaveWithSession(p, s, l)
  BY <1>5, SaveWithSessionKeepsInv
<1>6. CASE \E p \in People, l \in Links, o \in BOOLEAN : SaveWithCookie(p, l, o)
  <2> PICK p \in People, l \in Links, o \in BOOLEAN : SaveWithCookie(p, l, o)
    BY <1>6
  <2> QED
    BY AskKeepsInv DEF SaveWithCookie
<1>7. CASE \E p \in People, s \in sessions, v \in Settings : SetWithSession(p, s, v)
  <2> PICK p \in People, s \in sessions, v \in Settings : SetWithSession(p, s, v)
    BY <1>7
  <2>1. req' = [req EXCEPT ![p] = Entitled(p, "set", v, "session")] /\ Quiet
    BY DEF SetWithSession, Begin
  <2> QED
    BY <2>1, SetterStep
<1>8. CASE \E p \in People, v \in Settings, o \in BOOLEAN : SetWithCookie(p, v, o)
  <2> PICK p \in People, v \in Settings, o \in BOOLEAN : SetWithCookie(p, v, o)
    BY <1>8
  <2> QED
    BY AskKeepsInv DEF SetWithCookie
<1>9. CASE \E p \in People : UsersData(p)
  BY <1>9, UsersDataKeepsInv
<1>10. CASE \E p \in People : Handler(p)
  BY <1>10, ManagerCheckedKeepsInv, SaveRuleKeepsInv, SetViewPermissionKeepsInv,
     ViewerCheckedKeepsInv, MembersFetchedKeepsInv, RowsFetchedKeepsInv DEF Handler
<1>11. CASE \E j \in jwts, l \in Links : RoleConfigPage(j, l)
  BY <1>11, RoleConfigPageKeepsInv
<1>12. CASE UNCHANGED vars
  BY <1>12 DEF vars, AccessInv, TypeOK, Fresh, Issued, Minted, Pending, Watched, Suffices,
             EditsAreGranted, Granted
<1>13. QED
  BY <1>1, <1>2, <1>3, <1>4, <1>5, <1>6, <1>7, <1>8, <1>9, <1>10, <1>11, <1>12 DEF Next

THEOREM AccessKeepsInv == Spec => []AccessInv
<1>1. QED
  BY InitHasInv, NextKeepsInv, PTL DEF Spec

(* Every state has its types, for any people, links and lifetimes. *)
THEOREM AccessTypeCorrect == Spec => []TypeOK
<1>1. AccessInv => TypeOK
  BY DEF AccessInv
<1>2. QED
  BY <1>1, AccessKeepsInv, PTL

(* rl_token.rs: a rule is only ever written on the word of RoleLogic or the gateway
   that this person manages the server, for this link, no longer ago than the three
   lifetimes together, whatever they are. *)
THEOREM OnlyGrantedEdits == Spec => []EditsAreGranted
<1>1. AccessInv => EditsAreGranted
  BY DEF AccessInv
<1>2. QED
  BY <1>1, AccessKeepsInv, PTL

(* users_data: nobody is served the list whose level did not suffice at some time
   during the request, and the list is of the server's members of that time. *)
THEOREM ListIsGuarded == Spec => ListWasAllowed
<1>1. AccessInv /\ [Next]_vars =>
        [\A p \in People : req[p].step = "rows" /\ req'[p] = Idle /\ screen'[p] = "list" =>
           /\ \/ req[p].about = "members" /\ req[p].levels \intersect {"member", "manager"} # {}
              \/ req[p].about = "managers" /\ "manager" \in req[p].levels
           /\ req[p].members \subseteq req[p].around]_vars
  <2> SUFFICES ASSUME AccessInv, NEW p \in People, req[p].step = "rows"
               PROVE  Suffices(req[p]) /\ req[p].members \subseteq req[p].around
    BY DEF Suffices
  <2>1. req[p] \in Listing
    BY Shapes DEF AccessInv, TypeOK
  <2>2. QED
    BY <2>1 DEF AccessInv, Watched
<1>2. QED
  BY <1>1, AccessKeepsInv, PTL DEF Spec, ListWasAllowed

(* Every answer but the 401 is shown as an error. *)
LEMMA Prompts ==
    /\ Prompt("Unauthorized") = "signin"
    /\ \A e \in {"Forbidden", "NotFound", "StaleVersion", "ValidationFailed", "Internal", "Database"} :
          Prompt(e) = "error"
  BY DEF Prompt, Status

(* What p's page, and only p's, shows after an error. *)
LEMMA RefusedScreen ==
    ASSUME AccessInv, NEW p \in People, NEW q \in People, NEW error, Refuse(p, error),
           screen'[q] = "signin", screen[q] # "signin"
    PROVE  q = p /\ req[p].kind = "users" /\ Prompt(error) = "signin"
  BY DEF Refuse, AccessInv, TypeOK

LEMMA GatewayScreen ==
    ASSUME AccessInv, NEW p \in People, NEW q \in People, GatewayFails(p), req[p] # Idle,
           screen'[q] = "signin", screen[q] # "signin"
    PROVE  (IF req[q] = Idle THEN cookie[q] ELSE req[q].cookie) < now \/ req[p] \notin Listing
<1>1. CASE ~Live(req[p].cookie) /\ Refuse(p, Classify(401))
  <2>1. q = p
    BY <1>1, RefusedScreen
  <2>2. req[p] \in Listing => req[p].cookie \in Nat
    BY DEF Listing
  <2>3. QED
    BY <1>1, <2>1, <2>2 DEF Live, AccessInv, TypeOK
<1>2. CASE Refuse(p, Classify(503))
  <2>1. Prompt(Classify(503)) = "error"
    BY Prompts DEF Classify
  <2>2. QED
    BY <1>2, <2>1, RefusedScreen
<1>3. QED
  BY <1>1, <1>2 DEF GatewayFails

LEMMA PromptsOnlyWhenNeeded ==
    ASSUME AccessInv, Next, NEW q \in People, screen'[q] = "signin", screen[q] # "signin"
    PROVE  (IF req[q] = Idle THEN cookie[q] ELSE req[q].cookie) < now
<1> DEFINE needed == (IF req[q] = Idle THEN cookie[q] ELSE req[q].cookie) < now
<1>1. screen' # screen /\ screen \in [People -> {"none", "signin", "error", "list"}]
  BY DEF AccessInv, TypeOK
<1>2. CASE \E p \in People : UsersData(p)
  <2> PICK p \in People : UsersData(p)
    BY <1>2
  <2>1. q = p /\ req[p] = Idle
    BY <1>1 DEF UsersData, RefuseAtOnce
  <2>2. ~Disabled(setting) /\ (cookie[p] = 0 \/ ~Live(cookie[p]))
    <3>1. Prompt("Forbidden") = "error" /\ Prompt("Database") = "error"
      BY Prompts
    <3>2. QED
      BY <1>1, <2>1, <3>1 DEF UsersData, RefuseAtOnce
  <2>3. QED
    BY <2>1, <2>2 DEF Live, AccessInv, TypeOK
<1>3. CASE \E p \in People : Handler(p)
  <2> PICK p \in People : Handler(p)
    BY <1>3
  <2>1. req[p] # Idle
    BY DEF Handler, ManagerChecked, SaveRule, SetViewPermission, ViewerChecked,
           MembersFetched, RowsFetched, Idle
  <2>2. CASE ManagerChecked(p)
    <3>1. req[p].kind # "users"
      BY <2>2 DEF ManagerChecked
    <3>2. QED
      BY <1>1, <2>2, <3>1 DEF ManagerChecked, GatewayFails, Refuse, Go, Quiet
  <2>3. CASE SaveRule(p)
    BY <1>1, <2>3 DEF SaveRule, Refuse
  <2>4. CASE SetViewPermission(p)
    BY <1>1, <2>4 DEF SetViewPermission, Refuse
  <2>5. CASE ViewerChecked(p)
    <3>1. req[p] \in Listing
      BY <2>5, Shapes DEF ViewerChecked, AccessInv, TypeOK
    <3>2. CASE GatewayFails(p)
      BY <2>1, <3>1, <3>2, GatewayScreen
    <3>3. CASE Refuse(p, "Forbidden")
      <4>1. Prompt("Forbidden") = "error"
        BY Prompts
      <4>2. QED
        BY <3>3, <4>1, RefusedScreen
    <3>4. QED
      BY <1>1, <2>5, <3>2, <3>3 DEF ViewerChecked, Go, Quiet
  <2>6. CASE MembersFetched(p)
    <3>1. req[p] \in Listing
      BY <2>6, Shapes DEF MembersFetched, AccessInv, TypeOK
    <3>2. CASE GatewayFails(p)
      BY <2>1, <3>1, <3>2, GatewayScreen
    <3>3. CASE ~Live(req[p].cookie) /\ Refuse(p, "Unauthorized")
      <4>1. q = p
        BY <3>3, RefusedScreen
      <4>2. QED
        BY <2>1, <3>1, <3>3, <4>1 DEF Live, Listing, AccessInv, TypeOK
    <3>4. QED
      BY <1>1, <2>6, <3>2, <3>3 DEF MembersFetched, Go, Quiet
  <2>7. CASE RowsFetched(p)
    <3>1. CASE Refuse(p, "Database")
      <4>1. Prompt("Database") = "error"
        BY Prompts
      <4>2. QED
        BY <3>1, <4>1, RefusedScreen
    <3>2. CASE screen' = [screen EXCEPT ![p] = "list"]
      BY <1>1, <3>2
    <3>3. QED
      BY <2>7, <3>1, <3>2 DEF RowsFetched
  <2>8. QED
    BY <2>2, <2>3, <2>4, <2>5, <2>6, <2>7 DEF Handler
<1>4. CASE \E p \in People : LogIn(p)
  BY <1>1, <1>4 DEF LogIn
<1>5. QED
  BY <1>1, <1>2, <1>3, <1>4 DEF Next, Advance, Discord, IssueJwt, SaveWithSession, SaveWithCookie,
     SetWithSession, SetWithCookie, RoleConfigPage, Quiet

(* auth.rs: whatever goes wrong at the gateway or in the database, only a session
   that is missing or has expired makes the page ask for a sign-in. *)
THEOREM NoFalsePrompt == Spec => SignInOnlyWhenNeeded
<1>1. AccessInv /\ [Next]_vars =>
        [\A p \in People : screen'[p] = "signin" /\ screen[p] # "signin" =>
            (IF req[p] = Idle THEN cookie[p] ELSE req[p].cookie) < now]_vars
  BY PromptsOnlyWhenNeeded DEF vars
<1>2. QED
  BY <1>1, AccessKeepsInv, PTL DEF Spec, SignInOnlyWhenNeeded

=============================================================================
