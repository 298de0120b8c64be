------------------------------- MODULE Access -------------------------------
(***************************************************************************)
(* Who may edit a rule, change the setting of the birthdays page, and see   *)
(* that page: the tokens of services/rl_token.rs, services/session.rs and   *)
(* services/auth.rs, as routes/admin.rs and routes/users.rs use them, with  *)
(* the clock that makes them expire.                                        *)
(*                                                                          *)
(* One server, with the role links Links.  A check that asks the Auth       *)
(* Gateway, and what is done once it has answered, are steps of their own:  *)
(* levels, members and the setting change in between.  A request that is    *)
(* refused at once changes nothing and is left out, unless a page shows it. *)
(* Signatures are taken for what they are there for: only RoleLogic makes a *)
(* JWT that verifies with a link's token, only the plugin an iframe session.*)
(* The clocks agree.                                                        *)
(***************************************************************************)
EXTENDS Integers, FiniteSets

CONSTANTS
    People,     \* Discord ids
    Links,      \* role ids
    JwtTtl,     \* lifetime RoleLogic gives a JWT
    Skew,       \* ALLOWED_SKEW_SECS
    IframeTtl,  \* IFRAME_TTL_SECS
    CookieTtl,  \* lifetime the Auth Gateway gives rl_session
    MaxTime,    \* bound: the clock
    MaxJwts,    \* bound: JWTs issued
    MaxPages    \* bound: iframe pages opened

ASSUME AccessAssumption ==
    /\ JwtTtl \in Nat /\ Skew \in Nat /\ IframeTtl \in Nat /\ CookieTtl \in Nat
    /\ MaxTime \in Nat \ {0} /\ MaxJwts \in Nat /\ MaxPages \in Nat

VARIABLES
    now,
    \* Discord, as the Auth Gateway and RoleLogic know it
    level,       \* "none", "member" or "manager"
    managerAt,   \* history: when a person last was a manager, 0 for never
    enrolled,    \* the members that have not opted out
    \* credentials
    cookie,      \* when each person's rl_session expires, 0 when there is none
    jwts,        \* the rl_tokens RoleLogic has issued
    sessions,    \* the iframe sessions of the pages that were opened
    \* the plugin's database
    setting,     \* guild_settings.view_permission
    edit,        \* history: the last write of a rule_tree
    \* requests
    req,         \* the request each person has under way
    screen       \* what the birthdays page shows each person

world == <<now, level, managerAt, enrolled>>
credentials == <<cookie, jwts, sessions>>
vars == <<now, level, managerAt, enrolled, cookie, jwts, sessions, setting, edit, req, screen>>

Levels == {"none", "member", "manager"}
Settings == {"disabled", "managers", "members"}
Idle == [step |-> "idle"]
NoEdit == [link |-> "none"]

(* impl IntoResponse for AppError, for the errors these handlers return; a
   violated constraint would make "Database" a 400 or a 409. *)
Status(error) ==
    CASE error = "Unauthorized" -> 401
      [] error = "Forbidden" -> 403
      [] error = "NotFound" -> 404
      [] error = "StaleVersion" -> 409
      [] error = "ValidationFailed" -> 422
      [] error \in {"Internal", "Database"} -> 500

Init ==
    /\ now = 1
    /\ level \in [People -> Levels]
    /\ managerAt = [p \in People |-> IF level[p] = "manager" THEN 1 ELSE 0]
    /\ enrolled = {p \in People : level[p] # "none"}
    /\ cookie = [p \in People |-> 0]
    /\ jwts = {}
    /\ sessions = {}
    /\ setting = "managers"   \* there is no row: unwrap_or_else
    /\ edit = NoEdit
    /\ req = [p \in People |-> Idle]
    /\ screen = [p \in People |-> "none"]

-----------------------------------------------------------------------------
(* The world.                                                              *)

(* History: a request of the birthdays page remembers the levels its sender has
   had and the people who were enrolled since it began. *)
Witnessed(newLevel, newEnrolled) ==
    [p \in People |-> IF req[p].step = "idle" \/ req[p].kind # "users" THEN req[p]
                      ELSE [req[p] EXCEPT !.levels = @ \union {newLevel[p]},
                                          !.around = @ \union newEnrolled]]

(* A cookie that has expired is as good as none. *)
Advance ==
    /\ now < MaxTime
    /\ now' = now + 1
    /\ managerAt' = [p \in People |-> IF level[p] = "manager" THEN now + 1 ELSE managerAt[p]]
    /\ cookie' = [p \in People |-> IF cookie[p] > now THEN cookie[p] ELSE 0]
    /\ UNCHANGED <<level, enrolled, jwts, sessions, setting, edit, req, screen>>

(* p joins, leaves, is promoted or demoted; opts in or out. *)
Discord(p, v, optedOut) ==
    /\ level' = [level EXCEPT ![p] = v]
    /\ managerAt' = [managerAt EXCEPT ![p] = IF v = "manager" THEN now ELSE @]
    /\ enrolled' = IF v = "none" \/ optedOut THEN enrolled \ {p} ELSE enrolled \union {p}
    /\ req' = Witnessed(level', enrolled')
    /\ UNCHANGED <<now, credentials, setting, edit, screen>>

(* /auth/login of the gateway.  A request keeps the cookie it was made with, so
   the model lets it end first. *)
LogIn(p) ==
    /\ req[p] = Idle
    /\ cookie' = [cookie EXCEPT ![p] = now + CookieTtl]
    /\ screen' = [screen EXCEPT ![p] = "none"]
    /\ UNCHANGED <<world, jwts, sessions, setting, edit, req>>

(* The dashboard opens the tab for a manager, or, read-only, for a developer who
   looks at it as somebody else. *)
IssueJwt(p, l, readOnly) ==
    /\ Cardinality(jwts) < MaxJwts
    /\ readOnly \/ level[p] = "manager"
    /\ jwts' = jwts \union {[holder |-> p, link |-> l, readOnly |-> readOnly,
                             exp |-> now + JwtTtl]}
    /\ UNCHANGED <<world, cookie, sessions, setting, edit, req, screen>>

-----------------------------------------------------------------------------
(* Credentials.                                                            *)

(* verify_session, verify_iframe_session *)
Live(exp) == now <= exp

(* Mistake: the session does not say that it is read-only. *)
MintWritable(j, l) ==
    [holder |-> j.holder, link |-> l, readOnly |-> FALSE, exp |-> now + IframeTtl]

(* mint_iframe_session *)
Mint(j, l) ==
    [holder |-> j.holder, link |-> l, readOnly |-> j.readOnly, exp |-> now + IframeTtl]

(* verify, with the token of the link's row: the check of the claims.  That the
   row is gone, or has another token by now, only makes it fail. *)
Verify(j, l) == now <= j.exp + Skew /\ j.link = l

(* role_config_page with ?rl_token=. *)
RoleConfigPage(j, l) ==
    /\ Cardinality(sessions) < MaxPages
    /\ Verify(j, l)
    /\ sessions' = sessions \union {Mint(j, l)}
    /\ UNCHANGED <<world, cookie, jwts, setting, edit, req, screen>>

(* The caller was found to be entitled to the write, at this moment. *)
Entitled(p, kind, about, via) ==
    [kind |-> kind, step |-> "write", about |-> about,
     grant |-> [by |-> p, via |-> via, checked |-> now, manager |-> managerAt[p]]]

(* Asks the gateway, with the cookie of the request. *)
AskManager(p, kind, about) ==
    [kind |-> kind, step |-> "permission", cookie |-> cookie[p], about |-> about]

Begin(p, r) ==
    /\ req[p] = Idle
    /\ req' = [req EXCEPT ![p] = r]

Quiet == UNCHANGED <<world, credentials, setting, edit, screen>>

-----------------------------------------------------------------------------
(* role_config_save and set_view_permission.                               *)

(* require_role_config_access with a bearer, and the read-only gate. *)
SaveWithSession(p, s, l) ==
    /\ s.holder = p /\ Live(s.exp) /\ s.link = l /\ ~s.readOnly
    /\ Begin(p, Entitled(p, "save", l, "session"))
    /\ Quiet

(* Without one: verify_origin, and the cookie that require_manager starts with. *)
SaveWithCookie(p, l, allowedOrigin) ==
    /\ allowedOrigin /\ cookie[p] # 0 /\ Live(cookie[p])
    /\ Begin(p, AskManager(p, "save", l))
    /\ Quiet

(* require_guild_admin: any session of the server. *)
SetWithSession(p, s, v) ==
    /\ s.holder = p /\ Live(s.exp)
    /\ Begin(p, Entitled(p, "set", v, "session"))
    /\ Quiet

SetWithCookie(p, v, allowedOrigin) ==
    /\ allowedOrigin /\ cookie[p] # 0 /\ Live(cookie[p])
    /\ Begin(p, AskManager(p, "set", v))
    /\ Quiet

(* users.html: the prompt to sign in when the status is 401, and only then. *)
Prompt(error) == IF Status(error) = 401 THEN "signin" ELSE "error"

(* The handler returns an error; the birthdays page shows it. *)
Refuse(p, error) ==
    /\ req' = [req EXCEPT ![p] = Idle]
    /\ screen' = IF req[p].kind = "users" THEN [screen EXCEPT ![p] = Prompt(error)] ELSE screen
    /\ UNCHANGED <<world, credentials, setting, edit>>

(* Mistake: every failure of the gateway sends the caller to sign in. *)
ClassifyAsUnauthorized(status) == "Unauthorized"

(* classify_gateway_status *)
Classify(status) == IF status = 401 THEN "Unauthorized" ELSE "Internal"

(* A call of the gateway fails: 401 for a session it does not accept; no answer,
   an answer that is not JSON or any other status at any time. *)
GatewayFails(p) ==
    \/ ~Live(req[p].cookie) /\ Refuse(p, Classify(401))
    \/ Refuse(p, Classify(503))

Go(p, r) == req' = [req EXCEPT ![p] = r] /\ Quiet

(* require_manager: the gateway's answer. *)
ManagerChecked(p) ==
    /\ req[p].step = "permission" /\ req[p].kind # "users"
    /\ \/ GatewayFails(p)
       \/ Live(req[p].cookie) /\ level[p] # "manager" /\ Refuse(p, "Forbidden")
       \/ /\ Live(req[p].cookie) /\ level[p] = "manager"
          /\ Go(p, Entitled(p, req[p].kind, req[p].about, "cookie"))

(* The UPDATE of rule_tree; RoleConfig has the rest of it. *)
SaveRule(p) ==
    /\ req[p].step = "write" /\ req[p].kind = "save"
    /\ \/ /\ edit' = [link |-> req[p].about, grant |-> req[p].grant]
          /\ req' = [req EXCEPT ![p] = Idle]
          /\ UNCHANGED <<world, credentials, setting, screen>>
       \/ \E e \in {"ValidationFailed", "StaleVersion", "NotFound", "Database"} : Refuse(p, e)

(* The upsert of guild_settings. *)
SetViewPermission(p) ==
    /\ req[p].step = "write" /\ req[p].kind = "set"
    /\ \/ /\ setting' = req[p].about
          /\ req' = [req EXCEPT ![p] = Idle]
          /\ UNCHANGED <<world, credentials, edit, screen>>
       \/ Refuse(p, "Database")

-----------------------------------------------------------------------------
(* users_data, with the page that loads it.  `about` is the setting it has read.*)

(* Mistake: the page that is switched off is closed to strangers only. *)
DisabledNever(v) == v \notin Settings

(* The early return. *)
Disabled(v) == v = "disabled"

RefuseAtOnce(p, error) ==
    /\ screen' = [screen EXCEPT ![p] = Prompt(error)]
    /\ UNCHANGED req

UsersData(p) ==
    LET signedIn == cookie[p] # 0 /\ Live(cookie[p])
    IN  /\ req[p] = Idle
        /\ \/ RefuseAtOnce(p, "Database")
           \/ Disabled(setting) /\ RefuseAtOnce(p, "Forbidden")
           \/ ~Disabled(setting) /\ ~signedIn /\ RefuseAtOnce(p, "Unauthorized")
           \/ /\ ~Disabled(setting) /\ signedIn
              /\ screen' = [screen EXCEPT ![p] = "none"]
              /\ req' = [req EXCEPT ![p] =
                     [kind |-> "users", step |-> "permission", cookie |-> cookie[p],
                      about |-> setting, members |-> {}, levels |-> {level[p]},
                      around |-> enrolled]]
        /\ UNCHANGED <<world, credentials, setting, edit>>

(* Mistake: a member passes for a manager. *)
MayViewMember(r, v) == v # "none"

(* is_member, and is_manager where the setting asks for it. *)
MayView(r, v) == v # "none" /\ (r.about = "managers" => v = "manager")

(* guild_permission: the gateway's answer. *)
ViewerChecked(p) ==
    /\ req[p].step = "permission" /\ req[p].kind = "users"
    /\ \/ GatewayFails(p)
       \/ Live(req[p].cookie) /\ ~MayView(req[p], level[p]) /\ Refuse(p, "Forbidden")
       \/ /\ Live(req[p].cookie) /\ MayView(req[p], level[p])
          /\ Go(p, [req[p] EXCEPT !.step = "members"])

(* guild_members: read_session again, then the gateway, which has the list for
   members only. *)
MembersFetched(p) ==
    /\ req[p].step = "members"
    /\ \/ ~Live(req[p].cookie) /\ Refuse(p, "Unauthorized")
       \/ GatewayFails(p)
       \/ /\ Live(req[p].cookie) /\ level[p] # "none"
          /\ Go(p, [req[p] EXCEPT !.step = "rows", !.members = enrolled])

(* SELECT ... WHERE discord_id = ANY($1): those of the members with a birthday. *)
RowsFetched(p) ==
    /\ req[p].step = "rows"
    /\ \/ /\ req' = [req EXCEPT ![p] = Idle]
          /\ screen' = [screen EXCEPT ![p] = "list"]
          /\ UNCHANGED <<world, credentials, setting, edit>>
       \/ Refuse(p, "Database")

-----------------------------------------------------------------------------
Handler(p) ==
    \/ ManagerChecked(p) \/ SaveRule(p) \/ SetViewPermission(p)
    \/ ViewerChecked(p) \/ MembersFetched(p) \/ RowsFetched(p)

Next ==
    \/ Advance
    \/ \E p \in People :
          \/ \E v \in Levels, o \in BOOLEAN : Discord(p, v, o)
          \/ LogIn(p)
          \/ \E l \in Links, ro \in BOOLEAN : IssueJwt(p, l, ro)
          \/ \E s \in sessions, l \in Links : SaveWithSession(p, s, l)
          \/ \E l \in Links, o \in BOOLEAN : SaveWithCookie(p, l, o)
          \/ \E s \in sessions, v \in Settings : SetWithSession(p, s, v)
          \/ \E v \in Settings, o \in BOOLEAN : SetWithCookie(p, v, o)
          \/ UsersData(p) \/ Handler(p)
    \/ \E j \in jwts, l \in Links : RoleConfigPage(j, l)

Spec == Init /\ [][Next]_vars

-----------------------------------------------------------------------------
Grant == [by : People, via : {"session", "cookie"}, checked : Nat, manager : Nat]
AskSave == [kind : {"save"}, step : {"permission"}, cookie : Nat, about : Links]
AskSet == [kind : {"set"}, step : {"permission"}, cookie : Nat, about : Settings]
WriteRule == [kind : {"save"}, step : {"write"}, about : Links, grant : Grant]
WriteSetting == [kind : {"set"}, step : {"write"}, about : Settings, grant : Grant]
Listing == [kind : {"users"}, step : {"permission", "members", "rows"}, cookie : Nat,
            about : {"managers", "members"}, members : SUBSET People,
            levels : SUBSET Levels, around : SUBSET People]
Requests == {Idle} \union AskSave \union AskSet \union WriteRule \union WriteSetting \union Listing

(* Type invariant; a page shows nothing while it loads. *)
TypeOK ==
    /\ now \in Nat \ {0}
    /\ level \in [People -> Levels]
    /\ managerAt \in [People -> Nat]
    /\ enrolled \subseteq {p \in People : level[p] # "none"}
    /\ cookie \in [People -> Nat]
    /\ jwts \subseteq [holder : People, link : Links, readOnly : BOOLEAN, exp : Nat]
    /\ sessions \subseteq [holder : People, link : Links, readOnly : BOOLEAN, exp : Nat]
    /\ setting \in Settings
    /\ edit \in {NoEdit} \union [link : Links, grant : Grant]
    /\ req \in [People -> Requests]
    /\ screen \in [People -> {"none", "signin", "error", "list"}]
    /\ \A p \in People : req[p] \in Listing => screen[p] = "none"

(* How long after RoleLogic has last seen that somebody manages the server a rule
   may still be edited on the strength of it. *)
Window == JwtTtl + Skew + IframeTtl

Granted(l, g) ==
    /\ g.manager > 0 /\ g.manager + Window >= g.checked
    /\ g.via = "cookie" => g.manager = g.checked
    /\ g.via = "session" =>
          \E j \in jwts : /\ j.holder = g.by /\ j.link = l /\ ~j.readOnly
                         /\ g.checked <= j.exp + Skew + IframeTtl

(* "leakage of one token cannot be used to edit a different role link [...] and so
   a read-only (impersonation) session cannot be flipped to read-write": an edit
   goes back, through session and JWT, to RoleLogic letting this very person edit
   this very link, or to the gateway's answer; either way to somebody who managed
   the server no longer than Window before the check. *)
EditsAreGranted == edit # NoEdit => Granted(edit.link, edit.grant)

(* routes/users.rs: whoever is served the list had, at some time during the request,
   a level that suffices for the setting as it was when the request began; and the
   list is of people who, at some time during the request, were members that had
   not opted out. *)
ListWasAllowed ==
    [][\A p \in People : req[p].step = "rows" /\ req'[p] = Idle /\ screen'[p] = "list" =>
         /\ \/ req[p].about = "members" /\ req[p].levels \intersect {"member", "manager"} # {}
            \/ req[p].about = "managers" /\ "manager" \in req[p].levels
         /\ req[p].members \subseteq req[p].around]_vars

(* auth.rs: a failure of the gateway "stops the users page from falsely telling a
   signed-in member to re-authenticate": the prompt to sign in appears only when
   the cookie of the request has expired or there was none. *)
SignInOnlyWhenNeeded ==
    [][\A p \in People : screen'[p] = "signin" /\ screen[p] # "signin" =>
         (IF req[p] = Idle THEN cookie[p] ELSE req[p].cookie) < now]_vars
=============================================================================
