------------------------------ MODULE ListUpload ------------------------------
(***************************************************************************)
(* upload_users of services/rolelogic.rs: the list of one role link goes up *)
(* in one PUT, or in a session of chunks with a commit that is cancelled    *)
(* when anything fails.  Requests are steps of their own: each may be lost, *)
(* or served after the client gave up on it, and its answer may be lost.    *)
(* Uploads for the link run at the same time (replicas, taken-over jobs).   *)
(*                                                                          *)
(* RoleLogic is external: it does what the client's comments say of it.     *)
(***************************************************************************)
EXTENDS Integers, FiniteSets

CONSTANTS
    Members,    \* Discord ids
    Uploads,    \* calls of upload_users
    PutMax,     \* PUT_MAX_USERS
    ChunkSize   \* CHUNK_SIZE

ASSUME UploadAssumption ==
    /\ Members \subseteq Nat /\ IsFiniteSet(Members)
    /\ PutMax \in Nat /\ ChunkSize \in Nat \ {0}

VARIABLES
    \* upload_users
    want,     \* user_ids
    left,     \* the users in no chunk yet
    pc,       \* the call that is awaited; "ended", or "dead" with its process
    result,   \* the Result, kept while the session is cancelled
    \* the network
    net,      \* requests that are under way, abandoned ones included
    reply,    \* the answer to the awaited call
    \* RoleLogic
    link,     \* "ok", "disabled" (or paused) or "gone"
    list,     \* the users of the link
    session,  \* the session of each upload
    staged,   \* the users staged in it
    \* history
    applied,  \* the uploads whose list was swapped in
    trouble   \* the uploads with a call that got no answer, or a refused cancel

client == <<want, left, pc, result>>
server == <<link, list, session, staged>>
vars == <<want, left, pc, result, net, reply, link, list, session, staged,
          applied, trouble>>

Ops == {"put", "start", "chunk", "commit", "cancel"}
Answers == {"ok", "held", "gone", "disabled", "error"}
Requests == [op : Ops, of : Uploads, users : SUBSET Members]

Init ==
    /\ want \in [Uploads -> SUBSET Members]
    /\ left = want
    /\ pc = [u \in Uploads |-> "new"]
    /\ result = [u \in Uploads |-> "none"]
    /\ net = {}
    /\ reply = [u \in Uploads |-> "none"]
    /\ link = "ok"
    /\ list \in SUBSET Members
    /\ session = [u \in Uploads |-> "none"]
    /\ staged = [u \in Uploads |-> {}]
    /\ applied = {}
    /\ trouble = {}

-----------------------------------------------------------------------------
(* upload_users                                                            *)

Calling(u) == pc[u] \in Ops

(* Mistake: the client keeps one upload id for all its uploads. *)
RequestShared(op, u, users) ==
    [op |-> op, users |-> users,
     of |-> IF op = "chunk" THEN CHOOSE v \in Uploads : session[v] = "open" ELSE u]

Request(op, u, users) == [op |-> op, of |-> u, users |-> users]

(* Send a request and await its answer. *)
Call(op, u, users) ==
    /\ pc' = [pc EXCEPT ![u] = op]
    /\ reply' = [reply EXCEPT ![u] = "none"]
    /\ net' = net \union {Request(op, u, users)}

(* user_ids.len() > PUT_MAX_USERS *)
Large(u) == Cardinality(want[u]) > PutMax

Begin(u) ==
    /\ pc[u] = "new"
    /\ \/ ~Large(u) /\ Call("put", u, want[u])
       \/ Large(u) /\ Call("start", u, {})
    /\ UNCHANGED <<want, left, result, server, applied, trouble>>

(* The next element of user_ids.chunks(CHUNK_SIZE). *)
Chunk(S) == {m \in S : Cardinality({n \in S : n < m}) < ChunkSize}

(* upload_chunk, or commit_upload after the last one. *)
SendNext(u) ==
    /\ \/ /\ left[u] # {}
          /\ Call("chunk", u, Chunk(left[u]))
          /\ left' = [left EXCEPT ![u] = @ \ Chunk(@)]
       \/ left[u] = {} /\ Call("commit", u, {}) /\ UNCHANGED left
    /\ UNCHANGED result

Return(u, r) ==
    /\ pc' = [pc EXCEPT ![u] = "ended"]
    /\ result' = [result EXCEPT ![u] = r]
    /\ reply' = [reply EXCEPT ![u] = "none"]
    /\ UNCHANGED <<left, net>>

(* Mistake: the caller gets its error and the session stays. *)
ReturnAtOnce(u, r) == Return(u, r)

(* cancel_upload, then the error. *)
CancelAndReturn(u, r) ==
    /\ Call("cancel", u, {})
    /\ result' = [result EXCEPT ![u] = r]
    /\ UNCHANGED left

(* Mistake: the upload goes on after a chunk that failed. *)
AfterChunkRegardless(u, r) == SendNext(u)

(* Mistake: a chunk that failed is sent again until it gets through. *)
AfterChunkAgain(u, r) ==
    \/ r = "ok" /\ SendNext(u)
    \/ r # "ok" /\ Call("chunk", u, Chunk(want[u])) /\ UNCHANGED <<left, result>>

(* upload_chunk does not look into the body: a refusal is an error like any other. *)
AfterChunk(u, r) ==
    \/ r = "ok" /\ SendNext(u)
    \/ r # "ok" /\ CancelAndReturn(u, "error")

(* What upload_users does with the Result r of its call. *)
Continue(u, r) ==
    \/ pc[u] = "put" /\ Return(u, r)
    \/ pc[u] = "start" /\ r = "ok" /\ SendNext(u)
    \/ pc[u] = "start" /\ r # "ok" /\ Return(u, r)
    \/ pc[u] = "chunk" /\ AfterChunk(u, r)
    \/ pc[u] = "commit" /\ r = "ok" /\ Return(u, "ok")
    \/ pc[u] = "commit" /\ r # "ok" /\ CancelAndReturn(u, r)
    \/ pc[u] = "cancel" /\ Return(u, result[u])

Receive(u) ==
    /\ Calling(u) /\ reply[u] # "none"
    /\ Continue(u, reply[u])
    /\ trouble' = IF pc[u] = "cancel" /\ reply[u] # "ok"
                  THEN trouble \union {u} ELSE trouble
    /\ UNCHANGED <<want, server, applied>>

(* The timeout of the call, a broken connection, an answer that cannot be read;
   whatever RoleLogic has done or will still do with the request. *)
Fail(u) ==
    /\ Calling(u)
    /\ Continue(u, "error")
    /\ trouble' = trouble \union {u}
    /\ UNCHANGED <<want, server, applied>>

(* The process dies; the job makes another upload later. *)
Crash(u) ==
    /\ Calling(u)
    /\ pc' = [pc EXCEPT ![u] = "dead"]
    /\ reply' = [reply EXCEPT ![u] = "none"]
    /\ trouble' = trouble \union {u}
    /\ UNCHANGED <<want, left, result, net, server, applied>>

Lose(q) ==
    /\ q \in net
    /\ net' = net \ {q}
    /\ UNCHANGED <<client, reply, server, applied, trouble>>

-----------------------------------------------------------------------------
(* RoleLogic                                                               *)

(* q leaves the network; its answer counts if it is still awaited. *)
Answer(q, r) ==
    /\ q \in net
    /\ net' = net \ {q}
    /\ reply' = IF pc[q.of] = q.op THEN [reply EXCEPT ![q.of] = r] ELSE reply
    /\ UNCHANGED <<client, link, trouble>>

(* The disabled, paused or deleted link refuses every call; any call may meet a
   5xx or the rate limit. *)
ServeRefusal(q) ==
    /\ \/ link # "ok" /\ Answer(q, link)
       \/ Answer(q, "error")
    /\ UNCHANGED <<list, session, staged, applied>>

(* A list that removes too many waits for the owner; a session stays open. *)
ServeHeld(q) ==
    LET users == IF q.op = "put" THEN q.users ELSE staged[q.of]
    IN  /\ link = "ok"
        /\ q.op = "put" \/ (q.op = "commit" /\ session[q.of] = "open")
        /\ ~(list \subseteq users)
        /\ Answer(q, "held")
        /\ UNCHANGED <<list, session, staged, applied>>

ServePut(q) ==
    /\ q.op = "put" /\ link = "ok" /\ Answer(q, "ok")
    /\ list' = q.users
    /\ applied' = applied \union {q.of}
    /\ UNCHANGED <<session, staged>>

ServeStart(q) ==
    /\ q.op = "start" /\ link = "ok" /\ Answer(q, "ok")
    /\ session' = [session EXCEPT ![q.of] = "open"]
    /\ UNCHANGED <<list, staged, applied>>

ServeChunk(q) ==
    /\ q.op = "chunk" /\ link = "ok" /\ session[q.of] = "open" /\ Answer(q, "ok")
    /\ staged' = [staged EXCEPT ![q.of] = @ \union q.users]
    /\ UNCHANGED <<list, session, applied>>

ServeCommit(q) ==
    /\ q.op = "commit" /\ link = "ok" /\ session[q.of] = "open" /\ Answer(q, "ok")
    /\ list' = staged[q.of]
    /\ session' = [session EXCEPT ![q.of] = "closed"]
    /\ applied' = applied \union {q.of}
    /\ UNCHANGED staged

ServeCancel(q) ==
    /\ q.op = "cancel" /\ link = "ok" /\ session[q.of] = "open" /\ Answer(q, "ok")
    /\ session' = [session EXCEPT ![q.of] = "closed"]
    /\ UNCHANGED <<list, staged, applied>>

Toggle ==
    /\ link # "gone"
    /\ link' = IF link = "ok" THEN "disabled" ELSE "ok"
    /\ UNCHANGED <<client, net, reply, list, session, staged, applied, trouble>>

Delete ==
    /\ link # "gone"
    /\ link' = "gone" /\ list' = {}
    /\ UNCHANGED <<client, net, reply, session, staged, applied, trouble>>

-----------------------------------------------------------------------------
Serve(q) ==
    \/ ServeRefusal(q) \/ ServeHeld(q) \/ ServePut(q) \/ ServeStart(q)
    \/ ServeChunk(q) \/ ServeCommit(q) \/ ServeCancel(q)

Next ==
    \/ \E u \in Uploads : Begin(u) \/ Receive(u) \/ Fail(u) \/ Crash(u)
    \/ \E q \in net : Lose(q) \/ Serve(q)
    \/ Toggle \/ Delete

Spec == Init /\ [][Next]_vars

(* Every call has a timeout: CHUNK_TIMEOUT, COMMIT_TIMEOUT, the client's 30 s. *)
Fairness == \A u \in Uploads : WF_vars(Receive(u) \/ Fail(u))

FairSpec == Spec /\ Fairness

-----------------------------------------------------------------------------
(* A commit of u's session that RoleLogic would carry out is under way. *)
Committing(u) == session[u] = "open" /\ \E q \in net : q.op = "commit" /\ q.of = u

(* Type invariant: a session stages users of its own upload, and all of them once
   its commit is under way. *)
TypeOK ==
    /\ want \in [Uploads -> SUBSET Members]
    /\ left \in [Uploads -> SUBSET Members]
    /\ pc \in [Uploads -> Ops \union {"new", "ended", "dead"}]
    /\ result \in [Uploads -> Answers \union {"none"}]
    /\ net \subseteq Requests
    /\ reply \in [Uploads -> Answers \union {"none"}]
    /\ link \in {"ok", "disabled", "gone"}
    /\ list \subseteq Members
    /\ session \in [Uploads -> {"none", "open", "closed"}]
    /\ staged \in [Uploads -> SUBSET Members]
    /\ applied \subseteq Uploads /\ trouble \subseteq Uploads
    /\ \A u \in Uploads :
          /\ left[u] \subseteq want[u] /\ staged[u] \subseteq want[u]
          /\ Committing(u) => staged[u] = want[u]

(* One PUT, or a session: never both. *)
Transport ==
    /\ \A u \in Uploads :
          /\ pc[u] = "put" => ~Large(u)
          /\ pc[u] \in Ops \ {"put"} \/ session[u] # "none" => Large(u)
    /\ \A q \in net : q.op = "put" <=> ~Large(q.of)

Bodies ==
    \A q \in net :
       /\ q.users \subseteq want[q.of]
       /\ q.op = "put" => q.users = want[q.of]
       /\ q.op \notin {"put", "chunk"} => q.users = {}

(* Every kind of call is made by an upload once at a time, in the order of the
   protocol; a request is no longer under way when its call is answered. *)
Order ==
    /\ \A q \in net :
          /\ pc[q.of] # "new"
          /\ q.op = "start" => session[q.of] = "none"
          /\ q.op = "chunk" => pc[q.of] \in {"chunk", "cancel", "ended", "dead"}
          /\ q.op = "commit" => /\ pc[q.of] \in {"commit", "cancel", "ended", "dead"}
                               /\ session[q.of] # "none"
          /\ q.op = "cancel" => pc[q.of] \in {"cancel", "ended", "dead"}
          /\ pc[q.of] = q.op => reply[q.of] = "none"
    /\ \A q, r \in net : q.of = r.of /\ q.op = "chunk" => r.op # "commit" /\ (r.op = "chunk" => r = q)
    /\ \A u \in Uploads :
          /\ pc[u] \in {"start", "chunk"} /\ reply[u] = "ok" => session[u] # "none"
          /\ pc[u] = "new" => session[u] = "none"
          /\ session[u] = "closed" => pc[u] \notin {"start", "chunk"}

(* The chunks that were acknowledged are staged; a commit finds them all. *)
Staging ==
    /\ \A u \in Uploads :
          /\ left[u] \subseteq want[u]
          /\ pc[u] \in {"new", "start"} => staged[u] = {} /\ left[u] = want[u]
          /\ pc[u] = "chunk" /\ reply[u] = "ok" => staged[u] = want[u] \ left[u]
    /\ \A q \in net :
          /\ q.op = "chunk" /\ pc[q.of] = "chunk" =>
                staged[q.of] \union q.users = want[q.of] \ left[q.of]
          /\ q.op = "commit" => staged[q.of] = want[q.of]

(* What was applied is over, and the answers tell of it. *)
Told ==
    /\ \A u \in applied :
          /\ pc[u] \notin {"new", "start", "chunk"}
          /\ Large(u) => session[u] = "closed"
    /\ \A q \in net : q.op \in {"put", "commit"} => q.of \notin applied
    /\ \A u \in Uploads :
          /\ pc[u] \in {"put", "commit"} /\ reply[u] # "none" => (reply[u] = "ok" <=> u \in applied)
          /\ pc[u] = "cancel" => result[u] \in Answers \ {"ok"}
          /\ pc[u] = "cancel" /\ result[u] # "error" =>
                u \notin applied /\ \A q \in net : q.of = u => q.op # "commit"

(* The invariant that makes uploads atomic: whatever is lost, late or refused, the
   only writes under way are of whole lists that were not applied yet. *)
UploadInv == TypeOK /\ Transport /\ Bodies /\ Order /\ Staging /\ Told

(* "A failed commit [...] keeps the staged users server-side. [...] so drop it":
   when upload_users has returned, its session is open only if a call of the
   upload got no answer or the cancel itself was refused. *)
NoStraySession ==
    \A u \in Uploads \ trouble : pc[u] = "ended" => session[u] # "open"

(* An upload, once begun, returns, whatever RoleLogic and the network do: the job
   that waits for it is not stuck. *)
UploadsReturn == \A u \in Uploads : Calling(u) ~> ~Calling(u) /\ pc[u] # "new"

(* The upload may still be applied: it is on its way to the commit, or the write
   is under way. *)
Writing(u) ==
    \/ pc[u] \in {"start", "chunk"}
    \/ \E q \in net : /\ q.of = u
                      /\ q.op = "put" \/ (q.op = "commit" /\ session[u] = "open")

Phase(u) ==
    IF pc[u] = "new" THEN "new"
    ELSE IF u \in applied THEN "applied"
    ELSE IF Writing(u) THEN "open" ELSE "refused"

phases == [u \in Uploads |-> Phase(u)]
answers == [u \in Uploads |-> IF pc[u] = "ended" THEN result[u] ELSE "none"]

Atomic == INSTANCE AtomicList WITH phase <- phases, answer <- answers

(* "Server dedupes across chunks and atomically swaps in the new user set": the
   list only ever changes to the whole list of an upload, once; never after its
   session was cancelled; and the Result is true of it. *)
ListsAreSwapped == Atomic!Spec
=============================================================================
