-------------------------- MODULE ListUploadProofs --------------------------
(***************************************************************************)
(* Machine-checked proofs about ListUpload, for any number of uploads and  *)
(* users, any list sizes and any limits: the protocol invariant, and the   *)
(* refinement of AtomicList.                                               *)
(***************************************************************************)
EXTENDS ListUpload, TLAPS

(* What a step of upload_users (rolelogic.rs) leaves alone. *)
ClientFrame == UNCHANGED <<want, link, list, session, staged, applied>> /\ trouble' \subseteq Uploads

(* upload_users: a request is one of the network's. *)
LEMMA RequestType ==
    ASSUME NEW op \in Ops, NEW u \in Uploads, NEW S \in SUBSET Members
    PROVE  /\ Request(op, u, S) \in Requests
           /\ Request(op, u, S).op = op
           /\ Request(op, u, S).of = u
           /\ Request(op, u, S).users = S
  BY DEF Request, Requests

(* upload_users returns: nothing is sent, and nothing that is under way becomes
   dangerous. *)
LEMMA ReturnKeepsInv ==
    ASSUME UploadInv, NEW u \in Uploads, Calling(u), NEW r \in Answers,
           Return(u, r), ClientFrame
    PROVE  UploadInv'
<1> USE DEF UploadInv, TypeOK, Requests
<1>1. TypeOK'
  BY DEF Return, ClientFrame, Calling, Ops, Answers, Committing
<1>2. Transport'
  BY DEF Return, ClientFrame, Calling, Ops, Transport, Large
<1>3. Bodies'
  BY DEF Return, ClientFrame, Bodies
<1>4. Order'
  BY DEF Return, ClientFrame, Order, Calling, Ops
<1>5. Staging'
  BY DEF Return, ClientFrame, Staging, Calling, Ops
<1>6. Told'
  BY DEF Return, ClientFrame, Told, Calling, Ops, Large
<1>7. QED
  BY <1>1, <1>2, <1>3, <1>4, <1>5, <1>6 DEF UploadInv

(* The process dies in the middle of upload_users. *)
LEMMA CrashKeepsInv ==
    ASSUME UploadInv, NEW u \in Uploads, Crash(u)
    PROVE  UploadInv'
<1> USE DEF UploadInv, TypeOK, Requests
<1>1. TypeOK'
  BY DEF Crash, client, server, Calling, Ops, Answers, Committing
<1>2. Transport'
  BY DEF Crash, server, Calling, Ops, Transport, Large
<1>3. Bodies'
  BY DEF Crash, Bodies
<1>4. Order'
  BY DEF Crash, server, Order, Calling, Ops
<1>5. Staging'
  BY DEF Crash, server, Staging, Calling, Ops
<1>6. Told'
  BY DEF Crash, server, Told, Calling, Ops, Large
<1>7. QED
  BY <1>1, <1>2, <1>3, <1>4, <1>5, <1>6 DEF UploadInv

(* upload_chunk: the next chunk is on its way, and with the staged ones it makes
   all that has left the client. *)
LEMMA ChunkKeepsInv ==
    ASSUME UploadInv, NEW u \in Uploads, pc[u] \in {"start", "chunk"},
           pc[u] = "chunk" => reply[u] = "ok",
           Call("chunk", u, Chunk(left[u])),
           left' = [left EXCEPT ![u] = @ \ Chunk(@)],
           UNCHANGED result, ClientFrame
    PROVE  UploadInv'
<1> USE DEF UploadInv, TypeOK, Requests
<1> DEFINE S == Chunk(left[u])
           new == Request("chunk", u, S)
<1>1. S \subseteq left[u] /\ left'[u] = left[u] \ S /\ \A v \in Uploads \ {u} : left'[v] = left[v]
  BY DEF Chunk
<1>2. left[u] \subseteq want[u] /\ S \in SUBSET Members
  BY <1>1
<1>3. new \in Requests /\ new.op = "chunk" /\ new.of = u /\ new.users = S
  BY <1>2, RequestType DEF Ops
<1>4. net' = net \union {new}
  BY DEF Call
<1>5. /\ pc' = [pc EXCEPT ![u] = "chunk"]
      /\ reply' = [reply EXCEPT ![u] = "none"]
      /\ UNCHANGED <<want, result, link, list, session, staged, applied>>
      /\ trouble' \subseteq Uploads
  BY DEF Call, ClientFrame
<1>6. \A q \in net : q.of = u => q.op \notin {"chunk", "commit", "cancel"}
  BY DEF Order
<1> HIDE DEF S, new
<1>7. TypeOK'
  <2>1. \A v \in Uploads : left'[v] \subseteq want[v] /\ left'[v] \subseteq Members
    BY <1>1, <1>2
  <2>2. left' \in [Uploads -> SUBSET Members]
    BY <2>1
  <2>3. \A v \in Uploads : Committing(v)' => Committing(v)
    BY <1>3, <1>4, <1>5 DEF Committing
  <2>4. QED
    BY <1>3, <1>4, <1>5, <2>1, <2>2, <2>3 DEF Ops
<1>8. Transport'
  BY <1>3, <1>4, <1>5 DEF Transport, Large, Ops
<1>9. Bodies'
  BY <1>1, <1>2, <1>3, <1>4, <1>5 DEF Bodies
<1>10. Order'
  BY <1>3, <1>4, <1>5, <1>6 DEF Order
<1>11. Staging'
  <2>1. staged[u] \union S = want[u] \ left'[u]
    BY <1>1, <1>2 DEF Staging
  <2>2. QED
    BY <1>1, <1>2, <1>3, <1>4, <1>5, <1>6, <2>1 DEF Staging
<1>12. Told'
  BY <1>3, <1>4, <1>5 DEF Told, Large
<1>13. QED
  BY <1>7, <1>8, <1>9, <1>10, <1>11, <1>12 DEF UploadInv

(* commit_upload is called once every chunk was acknowledged: all is staged. *)
LEMMA CommitKeepsInv ==
    ASSUME UploadInv, NEW u \in Uploads, pc[u] \in {"start", "chunk"},
           reply[u] = "ok", left[u] = {},
           Call("commit", u, {}), UNCHANGED <<left, result>>, ClientFrame
    PROVE  UploadInv'
<1> USE DEF UploadInv, TypeOK, Requests
<1> DEFINE new == Request("commit", u, {})
<1>1. new \in Requests /\ new.op = "commit" /\ new.of = u /\ new.users = {}
  BY RequestType DEF Ops
<1>2. net' = net \union {new}
  BY DEF Call
<1>3. /\ pc' = [pc EXCEPT ![u] = "commit"]
      /\ reply' = [reply EXCEPT ![u] = "none"]
      /\ UNCHANGED <<want, left, result, link, list, session, staged, applied>>
      /\ trouble' \subseteq Uploads
  BY DEF Call, ClientFrame
<1>4. \A q \in net : q.of = u => q.op \notin {"chunk", "commit", "cancel"}
  BY DEF Order
<1>5. staged[u] = want[u]
  BY DEF Staging
<1> HIDE DEF new
<1>6. TypeOK'
  <2>1. \A v \in Uploads : Committing(v)' => Committing(v) \/ v = u
    BY <1>1, <1>2, <1>3 DEF Committing
  <2>2. QED
    BY <1>1, <1>2, <1>3, <1>5, <2>1 DEF Ops
<1>7. Transport'
  BY <1>1, <1>2, <1>3 DEF Transport, Large, Ops
<1>8. Bodies'
  BY <1>1, <1>2, <1>3 DEF Bodies
<1>9. Order'
  BY <1>1, <1>2, <1>3, <1>4 DEF Order
<1>10. Staging'
  BY <1>1, <1>2, <1>3, <1>4, <1>5 DEF Staging
<1>11. Told'
  BY <1>1, <1>2, <1>3 DEF Told, Large
<1>12. QED
  BY <1>6, <1>7, <1>8, <1>9, <1>10, <1>11 DEF UploadInv

(* cancel_upload after a chunk or a commit that failed: the answer of the commit
   is kept. *)
LEMMA CancelKeepsInv ==
    ASSUME UploadInv, NEW u \in Uploads, pc[u] \in {"chunk", "commit"},
           NEW r \in Answers \ {"ok"}, r = "error" \/ (pc[u] = "commit" /\ reply[u] = r),
           CancelAndReturn(u, r), ClientFrame
    PROVE  UploadInv'
<1> USE DEF UploadInv, TypeOK, Requests
<1> DEFINE new == Request("cancel", u, {})
<1>1. new \in Requests /\ new.op = "cancel" /\ new.of = u /\ new.users = {}
  BY RequestType DEF Ops
<1>2. net' = net \union {new}
  BY DEF Call, CancelAndReturn
<1>3. /\ pc' = [pc EXCEPT ![u] = "cancel"]
      /\ reply' = [reply EXCEPT ![u] = "none"]
      /\ result' = [result EXCEPT ![u] = r]
      /\ UNCHANGED <<want, left, link, list, session, staged, applied>>
      /\ trouble' \subseteq Uploads
  BY DEF Call, CancelAndReturn, ClientFrame
<1>4. r # "error" => u \notin applied /\ \A q \in net : q.of = u => q.op # "commit"
  BY DEF Told, Order, Answers
<1> HIDE DEF new
<1>5. TypeOK'
  <2>1. \A v \in Uploads : Committing(v)' => Committing(v)
    BY <1>1, <1>2, <1>3 DEF Committing
  <2>2. QED
    BY <1>1, <1>2, <1>3, <2>1 DEF Ops
<1>6. Transport'
  BY <1>1, <1>2, <1>3 DEF Transport, Large, Ops
<1>7. Bodies'
  BY <1>1, <1>2, <1>3 DEF Bodies
<1>8. Order'
  BY <1>1, <1>2, <1>3 DEF Order
<1>9. Staging'
  BY <1>1, <1>2, <1>3 DEF Staging
<1>10. Told'
  BY <1>1, <1>2, <1>3, <1>4 DEF Told, Large
<1>11. QED
  BY <1>5, <1>6, <1>7, <1>8, <1>9, <1>10 DEF UploadInv

(* upload_users goes on with the Result of its call: whatever the Result, and
   whether the call was answered or timed out. *)
LEMMA ContinueKeepsInv ==
    ASSUME UploadInv, NEW u \in Uploads, Calling(u),
           NEW r \in Answers, r = "error" \/ reply[u] = r,
           Continue(u, r), ClientFrame
    PROVE  UploadInv'
<1>1. CASE pc[u] = "put" /\ Return(u, r)
  BY <1>1, ReturnKeepsInv
<1>2. CASE /\ pc[u] = "start" \/ pc[u] = "chunk"
           /\ r = "ok" /\ SendNext(u)
  BY <1>2, ChunkKeepsInv, CommitKeepsInv DEF SendNext
<1>3. CASE pc[u] = "start" /\ r # "ok" /\ Return(u, r)
  BY <1>3, ReturnKeepsInv
<1>4. CASE pc[u] = "chunk" /\ r # "ok" /\ CancelAndReturn(u, "error")
  BY <1>4, CancelKeepsInv DEF Answers
<1>5. CASE pc[u] = "commit" /\ r = "ok" /\ Return(u, "ok")
  BY <1>5, ReturnKeepsInv
<1>6. CASE pc[u] = "commit" /\ r # "ok" /\ CancelAndReturn(u, r)
  BY <1>6, CancelKeepsInv
<1>7. CASE pc[u] = "cancel" /\ Return(u, result[u])
  BY <1>7, ReturnKeepsInv DEF UploadInv, Told
<1>8. QED
  BY <1>1, <1>2, <1>3, <1>4, <1>5, <1>6, <1>7 DEF Continue, AfterChunk

(* upload_users sends its first request. *)
LEMMA BeginKeepsInv ==
    ASSUME UploadInv, NEW u \in Uploads, Begin(u)
    PROVE  UploadInv'
<1> USE DEF UploadInv, TypeOK, Requests
<1>1. PICK op \in {"put", "start"}, S \in SUBSET Members :
         /\ op = "put" <=> ~Large(u)
         /\ op = "put" => S = want[u]
         /\ op = "start" => S = {}
         /\ Call(op, u, S)
  BY DEF Begin
<1> DEFINE new == Request(op, u, S)
<1>2. new \in Requests /\ new.op = op /\ new.of = u /\ new.users = S
  BY RequestType DEF Ops
<1>3. net' = net \union {new}
  BY <1>1 DEF Call
<1>4. /\ pc[u] = "new"
      /\ pc' = [pc EXCEPT ![u] = op]
      /\ reply' = [reply EXCEPT ![u] = "none"]
      /\ UNCHANGED <<want, left, result, link, list, session, staged, applied, trouble>>
  BY <1>1 DEF Call, Begin, server
<1>5. (\A q \in net : q.of # u) /\ session[u] = "none" /\ u \notin applied
  BY <1>4 DEF Order, Told
<1> HIDE DEF new
<1>6. TypeOK'
  <2>1. \A v \in Uploads : Committing(v)' => Committing(v)
    BY <1>2, <1>3, <1>4 DEF Committing
  <2>2. QED
    BY <1>2, <1>3, <1>4, <2>1 DEF Ops
<1>7. Transport'
  BY <1>1, <1>2, <1>3, <1>4, <1>5 DEF Transport, Large, Ops
<1>8. Bodies'
  BY <1>1, <1>2, <1>3, <1>4 DEF Bodies
<1>9. Order'
  BY <1>2, <1>3, <1>4, <1>5 DEF Order
<1>10. Staging'
  BY <1>2, <1>3, <1>4 DEF Staging
<1>11. Told'
  BY <1>2, <1>3, <1>4, <1>5 DEF Told, Large
<1>12. QED
  BY <1>6, <1>7, <1>8, <1>9, <1>10, <1>11 DEF UploadInv

(* A request is lost on the way. *)
LEMMA LoseKeepsInv ==
    ASSUME UploadInv, NEW q \in net, Lose(q)
    PROVE  UploadInv'
<1> USE DEF UploadInv, TypeOK, Requests, Lose, client, server
<1>1. TypeOK'
  BY DEF Committing
<1>2. Transport'
  BY DEF Transport, Large
<1>3. Bodies'
  BY DEF Bodies
<1>4. Order'
  BY DEF Order
<1>5. Staging'
  BY DEF Staging
<1>6. Told'
  BY DEF Told, Large
<1>7. QED
  BY <1>1, <1>2, <1>3, <1>4, <1>5, <1>6 DEF UploadInv

(* An upload has at most one request of a kind under way. *)
LEMMA OneOfAKind ==
    ASSUME UploadInv, NEW q \in net, NEW r \in net, q.of = r.of, q.op = r.op
    PROVE  q = r
<1>1. q \in Requests /\ r \in Requests
  BY DEF UploadInv, TypeOK
<1>2. CASE q.op = "chunk"
  BY <1>2 DEF UploadInv, Order
<1>3. CASE q.op # "chunk"
  <2>1. q.users = r.users
    BY <1>3 DEF UploadInv, Bodies
  <2>2. QED
    BY <1>1, <2>1 DEF Requests
<1>4. QED
  BY <1>2, <1>3

(* RoleLogic answers without doing anything: the write is refused or held. *)
LEMMA RefusalKeepsInv ==
    ASSUME UploadInv, NEW q \in net, ServeRefusal(q) \/ ServeHeld(q)
    PROVE  UploadInv'
<1> USE DEF UploadInv, TypeOK, Requests
<1>1. PICK r \in Answers \ {"ok"} :
         Answer(q, r) /\ UNCHANGED <<list, session, staged, applied>>
  BY DEF ServeRefusal, ServeHeld, Answers
<1>2. /\ net' = net \ {q} /\ q.of \in Uploads
      /\ reply' = IF pc[q.of] = q.op THEN [reply EXCEPT ![q.of] = r] ELSE reply
      /\ UNCHANGED <<want, left, pc, result, link, list, session, staged, applied, trouble>>
  BY <1>1 DEF Answer, client
<1>3. TypeOK'
  <2>1. \A v \in Uploads : Committing(v)' => Committing(v)
    BY <1>2 DEF Committing
  <2>2. reply' \in [Uploads -> Answers \union {"none"}]
    BY <1>2
  <2>3. QED
    BY <1>2, <2>1, <2>2
<1>4. Transport'
  BY <1>2 DEF Transport, Large
<1>5. Bodies'
  BY <1>2 DEF Bodies
<1>6. Order'
  <2>1. \A p \in net' : pc[p.of] = p.op => reply'[p.of] = "none"
    BY <1>2, OneOfAKind DEF Order
  <2>2. \A v \in Uploads : pc[v] \in {"start", "chunk"} /\ reply'[v] = "ok" => reply[v] = "ok"
    BY <1>2
  <2>3. QED
    BY <1>2, <2>1, <2>2 DEF Order
<1>7. Staging'
  BY <1>2 DEF Staging
<1>8. Told'
  BY <1>2 DEF Told, Large, Transport, Order
<1>9. QED
  BY <1>3, <1>4, <1>5, <1>6, <1>7, <1>8 DEF UploadInv

(* What the steps of RoleLogic that succeed have in common: q is answered with ok,
   which reaches the upload if it still waits for it. *)
ServedOk(q) ==
    /\ net' = net \ {q} /\ q.of \in Uploads
    /\ UNCHANGED <<want, left, pc, result, link, trouble>>
    /\ reply' \in [Uploads -> Answers \union {"none"}]
    /\ pc[q.of] = q.op => reply'[q.of] = "ok"
    /\ \A p \in net' : p \in net /\ (pc[p.of] = p.op => reply'[p.of] = "none")
    /\ \A v \in Uploads : reply'[v] # reply[v] => v = q.of /\ pc[v] = q.op /\ reply'[v] = "ok"

(* The request is no longer under way, and no other one is awaited with it. *)
LEMMA AnswerOk ==
    ASSUME UploadInv, NEW q \in net, Answer(q, "ok")
    PROVE  ServedOk(q)
  BY OneOfAKind DEF Answer, client, ServedOk, UploadInv, TypeOK, Requests, Order, Answers

(* PUT /users: the list is replaced by the one in the request. *)
LEMMA PutKeepsInv ==
    ASSUME UploadInv, NEW q \in net, ServePut(q)
    PROVE  UploadInv'
<1>1. ServedOk(q)
  BY AnswerOk DEF ServePut
<1> USE DEF UploadInv, TypeOK, Requests, ServedOk
<1>2. /\ q.op = "put" /\ q.users \subseteq Members
      /\ list' = q.users /\ applied' = applied \union {q.of}
      /\ UNCHANGED <<session, staged>>
  BY DEF ServePut
<1>3. ~Large(q.of) /\ pc[q.of] \notin {"new", "start", "chunk", "commit", "cancel"}
  BY <1>2 DEF Transport, Order, Ops
<1>4. TypeOK'
  <2>1. \A v \in Uploads : Committing(v)' => Committing(v)
    BY <1>1, <1>2 DEF Committing
  <2>2. QED
    BY <1>1, <1>2, <2>1
<1>5. Transport'
  BY <1>1, <1>2 DEF Transport, Large
<1>6. Bodies'
  BY <1>1 DEF Bodies
<1>7. Order'
  BY <1>1, <1>2 DEF Order
<1>8. Staging'
  BY <1>1, <1>2 DEF Staging
<1>9. Told'
  <2>1. \A p \in net' : p.op \in {"put", "commit"} => p.of \notin applied'
    BY <1>1, <1>2, <1>3, OneOfAKind DEF Told, Transport
  <2>2. \A v \in Uploads : pc'[v] \in {"put", "commit"} /\ reply'[v] # "none" =>
           (reply'[v] = "ok" <=> v \in applied')
    BY <1>1, <1>2, <1>3 DEF Told, Ops
  <2>3. QED
    BY <1>1, <1>2, <1>3, <2>1, <2>2 DEF Told, Large
<1>10. QED
  BY <1>4, <1>5, <1>6, <1>7, <1>8, <1>9 DEF UploadInv

(* POST /users/upload opens a session. *)
LEMMA StartKeepsInv ==
    ASSUME UploadInv, NEW q \in net, ServeStart(q)
    PROVE  UploadInv'
<1>1. ServedOk(q)
  BY AnswerOk DEF ServeStart
<1> USE DEF UploadInv, TypeOK, Requests, ServedOk
<1>2. /\ q.op = "start" /\ session[q.of] = "none"
      /\ session' = [session EXCEPT ![q.of] = "open"]
      /\ UNCHANGED <<list, staged, applied>>
  BY DEF ServeStart, Order
<1>3. Large(q.of) /\ q.of \notin applied /\ pc[q.of] # "new"
  BY <1>2 DEF Transport, Told, Order
<1>4. \A p \in net : p.op = "commit" => p.of # q.of
  BY <1>2 DEF Order
<1>5. TypeOK'
  <2>1. \A v \in Uploads : Committing(v)' => Committing(v)
    BY <1>1, <1>2, <1>4 DEF Committing
  <2>2. QED
    BY <1>1, <1>2, <2>1
<1>6. Transport'
  BY <1>1, <1>2, <1>3 DEF Transport, Large
<1>7. Bodies'
  BY <1>1 DEF Bodies
<1>8. Order'
  <2>1. \A p \in net' : p.op = "start" => p.of # q.of
    BY <1>1, <1>2, OneOfAKind
  <2>2. QED
    BY <1>1, <1>2, <1>3, <2>1 DEF Order
<1>9. Staging'
  BY <1>1, <1>2 DEF Staging
<1>10. Told'
  BY <1>1, <1>2, <1>3 DEF Told, Large
<1>11. QED
  BY <1>5, <1>6, <1>7, <1>8, <1>9, <1>10 DEF UploadInv

(* A chunk is added to an open session. *)
LEMMA StageKeepsInv ==
    ASSUME UploadInv, NEW q \in net, ServeChunk(q)
    PROVE  UploadInv'
<1>1. ServedOk(q)
  BY AnswerOk DEF ServeChunk
<1> USE DEF UploadInv, TypeOK, Requests, ServedOk
<1>2. /\ q.op = "chunk" /\ session[q.of] = "open"
      /\ q.users \subseteq want[q.of] /\ q.users \subseteq Members
      /\ staged' = [staged EXCEPT ![q.of] = @ \union q.users]
      /\ UNCHANGED <<list, session, applied>>
  BY DEF ServeChunk, Bodies
<1>3. \A p \in net : p.of = q.of /\ p # q => p.op \notin {"chunk", "commit"}
  BY <1>2 DEF Order
<1>4. pc[q.of] \notin {"new", "start", "put", "commit"}
  BY <1>2 DEF Order
<1>5. TypeOK'
  <2>1. \A v \in Uploads : Committing(v)' => Committing(v) /\ v # q.of
    BY <1>1, <1>2, <1>3 DEF Committing
  <2>2. QED
    BY <1>1, <1>2, <2>1
<1>6. Transport'
  BY <1>1, <1>2 DEF Transport, Large
<1>7. Bodies'
  BY <1>1 DEF Bodies
<1>8. Order'
  BY <1>1, <1>2 DEF Order
<1>9. Staging'
  BY <1>1, <1>2, <1>3, <1>4 DEF Staging
<1>10. Told'
  BY <1>1, <1>2, <1>4 DEF Told, Large
<1>11. QED
  BY <1>5, <1>6, <1>7, <1>8, <1>9, <1>10 DEF UploadInv

(* A commit swaps the staged users in and closes the session; a cancel closes it. *)
LEMMA CloseKeepsInv ==
    ASSUME UploadInv, NEW q \in net, ServeCommit(q) \/ ServeCancel(q)
    PROVE  UploadInv'
<1>1. ServedOk(q)
  BY AnswerOk DEF ServeCommit, ServeCancel
<1> USE DEF UploadInv, TypeOK, Requests, ServedOk
<1>2. /\ q.op \in {"commit", "cancel"} /\ session[q.of] = "open"
      /\ session' = [session EXCEPT ![q.of] = "closed"]
      /\ list' \subseteq Members
      /\ applied' = IF q.op = "commit" THEN applied \union {q.of} ELSE applied
      /\ UNCHANGED staged
  BY DEF ServeCommit, ServeCancel
<1>3. Large(q.of) /\ pc[q.of] \notin {"new", "start", "chunk", "put"}
  BY <1>2 DEF Transport, Order
<1>4. \A p \in net : p.of = q.of => p.op \notin {"start", "put"}
  BY <1>2, <1>3 DEF Order, Transport
<1>5. TypeOK'
  <2>1. \A v \in Uploads : Committing(v)' => Committing(v)
    BY <1>1, <1>2 DEF Committing
  <2>2. QED
    BY <1>1, <1>2, <2>1
<1>6. Transport'
  BY <1>1, <1>2 DEF Transport, Large
<1>7. Bodies'
  BY <1>1 DEF Bodies
<1>8. Order'
  BY <1>1, <1>2, <1>3, <1>4 DEF Order
<1>9. Staging'
  BY <1>1, <1>2 DEF Staging
<1>10. Told'
  <2>1. \A p \in net' : p.op \in {"put", "commit"} => p.of \notin applied'
    BY <1>1, <1>2, <1>3, <1>4, OneOfAKind DEF Told
  <2>2. \A v \in applied' : /\ pc'[v] \notin {"new", "start", "chunk"}
                            /\ Large(v)' => session'[v] = "closed"
    BY <1>1, <1>2, <1>3 DEF Told, Large
  <2>3. \A v \in Uploads : pc'[v] \in {"put", "commit"} /\ reply'[v] # "none" =>
           (reply'[v] = "ok" <=> v \in applied')
    BY <1>1, <1>2, <1>3 DEF Told, Order
  <2>4. \A v \in Uploads : pc'[v] = "cancel" /\ result'[v] # "error" =>
           v \notin applied' /\ \A p \in net' : p.of = v => p.op # "commit"
    BY <1>1, <1>2 DEF Told
  <2>5. QED
    BY <1>1, <1>2, <1>3, <2>1, <2>2, <2>3, <2>4 DEF Told
<1>11. QED
  BY <1>5, <1>6, <1>7, <1>8, <1>9, <1>10 DEF UploadInv

(* The owner disables, enables or deletes the link. *)
LEMMA LinkKeepsInv ==
    ASSUME UploadInv, Toggle \/ Delete
    PROVE  UploadInv'
<1>1. /\ UNCHANGED <<want, left, pc, result, net, reply, session, staged, applied, trouble>>
      /\ list' \subseteq Members /\ link' \in {"ok", "disabled", "gone"}
  BY DEF Toggle, Delete, client, UploadInv, TypeOK
<1>2. QED
  BY <1>1 DEF UploadInv, TypeOK, Committing, Transport, Large, Bodies, Order, Staging, Told

(* The invariant of the upload protocol holds initially. *)
LEMMA InitInv == Init => UploadInv
  BY DEF Init, UploadInv, TypeOK, Committing, Transport, Large, Bodies, Order, Staging,
         Told, Ops, Answers

(* Every step of the upload protocol keeps its invariant. *)
LEMMA NextInv == UploadInv /\ [Next]_vars => UploadInv'
<1> SUFFICES ASSUME UploadInv, [Next]_vars PROVE UploadInv'
  OBVIOUS
<1>1. ASSUME NEW u \in Uploads, Begin(u) PROVE UploadInv'
  BY <1>1, BeginKeepsInv
<1>2. ASSUME NEW u \in Uploads, Receive(u) PROVE UploadInv'
  <2>1. /\ ClientFrame /\ Calling(u) /\ Continue(u, reply[u])
        /\ reply[u] \in Answers
    BY <1>2 DEF Receive, ClientFrame, server, UploadInv, TypeOK
  <2>2. QED
    BY <2>1, ContinueKeepsInv
<1>3. ASSUME NEW u \in Uploads, Fail(u) PROVE UploadInv'
  <2>1. ClientFrame /\ Calling(u) /\ Continue(u, "error") /\ "error" \in Answers
    BY <1>3 DEF Fail, ClientFrame, server, UploadInv, TypeOK, Answers
  <2>2. QED
    BY <2>1, ContinueKeepsInv
<1>4. ASSUME NEW u \in Uploads, Crash(u) PROVE UploadInv'
  BY <1>4, CrashKeepsInv
<1>5. ASSUME NEW q \in net, Lose(q) \/ Serve(q) PROVE UploadInv'
  BY <1>5, LoseKeepsInv, RefusalKeepsInv, PutKeepsInv, StartKeepsInv, StageKeepsInv,
     CloseKeepsInv DEF Serve
<1>6. CASE Toggle \/ Delete
  BY <1>6, LinkKeepsInv
<1>7. CASE UNCHANGED vars
  BY <1>7 DEF vars, UploadInv, TypeOK, Committing, Transport, Large, Bodies, Order,
              Staging, Told
<1>8. QED
  BY <1>1, <1>2, <1>3, <1>4, <1>5, <1>6, <1>7 DEF Next

(* Whatever is lost, late or refused, of however many uploads: what is under way
   are whole lists that were not applied yet. *)
THEOREM UploadsKeepInv == Spec => []UploadInv
  BY InitInv, NextInv, PTL DEF Spec

(* Every variable keeps its type, and a commit finds the whole list staged. *)
THEOREM UploadsTypeCorrect == Spec => []TypeOK
<1>1. UploadInv => TypeOK
  BY DEF UploadInv
<1>2. QED
  BY <1>1, UploadsKeepInv, PTL

-----------------------------------------------------------------------------
(* The refinement of AtomicList.                                           *)

(* What an upload that is left alone promises stays the same. *)
LEMMA PhaseUnchanged ==
    ASSUME NEW v \in Uploads,
           pc'[v] = pc[v], session'[v] = session[v], v \in applied' <=> v \in applied,
           \A q \in net : q.of = v => q \in net',
           \A q \in net' : q.of = v => q \in net
    PROVE  Phase(v)' = Phase(v)
  BY DEF Phase, Writing

(* A step after which an upload may have lost its chance is a step of AtomicList. *)
LEMMA RefuseMaps ==
    ASSUME NEW u \in Uploads, Phase(u) # "new", Phase(u)' # "new",
           u \in applied' <=> u \in applied,
           Writing(u)' => Writing(u),
           \A v \in Uploads \ {u} : Phase(v)' = Phase(v),
           UNCHANGED <<list, want, answers>>
    PROVE  [Atomic!Next]_(Atomic!vars)
<1>1. Phase(u)' = Phase(u) \/ (Phase(u) = "open" /\ Phase(u)' = "refused")
  BY DEF Phase
<1>2. phases' = phases \/ phases' = [phases EXCEPT ![u] = "refused"]
  BY <1>1 DEF phases
<1>3. phases[u] = Phase(u)
  BY DEF phases
<1>4. CASE phases' = phases
  BY <1>4 DEF Atomic!vars
<1>5. CASE phases' # phases
  <2>1. Phase(u) = "open"
    BY <1>1, <1>5 DEF phases
  <2>2. Atomic!Refuse(u)
    BY <1>2, <1>3, <1>5, <2>1 DEF Atomic!Refuse
  <2>3. QED
    BY <2>2 DEF Atomic!Next
<1>6. QED
  BY <1>4, <1>5

(* upload_users returns something that is true. *)
LEMMA ReturnMaps ==
    ASSUME UploadInv, NEW u \in Uploads, Calling(u), NEW r \in Answers,
           Return(u, r), ClientFrame,
           r = "ok" => u \in applied,
           r \notin {"ok", "error"} =>
              u \notin applied /\ \A q \in net : q.of = u => q.op \notin {"put", "commit"}
    PROVE  [Atomic!Next]_(Atomic!vars)
<1>1. /\ pc' = [pc EXCEPT ![u] = "ended"] /\ result' = [result EXCEPT ![u] = r]
      /\ UNCHANGED <<net, session, applied, list, want>>
      /\ pc \in [Uploads -> Ops \union {"new", "ended", "dead"}]
      /\ result \in [Uploads -> Answers \union {"none"}]
      /\ pc[u] \in Ops
  BY DEF Return, ClientFrame, UploadInv, TypeOK, Calling
<1>2. \A v \in Uploads \ {u} : Phase(v)' = Phase(v)
  BY <1>1, PhaseUnchanged
<1>3. Writing(u)' => Writing(u)
  BY <1>1 DEF Writing
<1>4. phases' = phases \/ (phases[u] = "open" /\ phases' = [phases EXCEPT ![u] = "refused"])
  BY <1>1, <1>2, <1>3 DEF phases, Phase, Ops
<1>5. phases[u] # "new" /\ answers[u] = "none" /\ phases'[u] = Phase(u)'
  BY <1>1 DEF phases, answers, Phase, Ops
<1>6. answers' = [answers EXCEPT ![u] = r]
  BY <1>1 DEF answers
<1>7. r = "ok" => phases'[u] = "applied"
  BY <1>1, <1>5 DEF Phase
<1>8. r \in Atomic!Refusals => phases'[u] = "refused"
  BY <1>1, <1>5 DEF Phase, Writing, Atomic!Refusals
<1>9. r \in Atomic!Refusals \union {"ok", "error"}
  BY DEF Answers, Atomic!Refusals
<1>10. Atomic!Return(u, r)
  BY <1>1, <1>4, <1>5, <1>6, <1>7, <1>8 DEF Atomic!Return
<1>11. QED
  BY <1>9, <1>10 DEF Atomic!Next

(* Sending the next request keeps what is promised; a cancel may give it up. *)
LEMMA SendMaps ==
    ASSUME UploadInv, NEW u \in Uploads, Calling(u), NEW op \in {"chunk", "commit", "cancel"},
           NEW S, Call(op, u, S), ClientFrame, result' = result \/ op = "cancel",
           result' = result \/ \E r : result' = [result EXCEPT ![u] = r],
           op # "cancel" => pc[u] \in {"start", "chunk"}
    PROVE  [Atomic!Next]_(Atomic!vars)
<1>1. /\ pc' = [pc EXCEPT ![u] = op]
      /\ net' = net \union {Request(op, u, S)}
      /\ Request(op, u, S).of = u /\ Request(op, u, S).op = op
      /\ UNCHANGED <<session, applied, list, want>>
      /\ pc \in [Uploads -> Ops \union {"new", "ended", "dead"}]
      /\ result \in [Uploads -> Answers \union {"none"}]
      /\ pc[u] \in Ops
  BY DEF Call, ClientFrame, UploadInv, TypeOK, Calling, Request
<1>2. \A v \in Uploads \ {u} : Phase(v)' = Phase(v)
  BY <1>1, PhaseUnchanged
<1>3. Writing(u)' => Writing(u)
  BY <1>1 DEF Writing
<1>4. Phase(u) # "new" /\ Phase(u)' # "new"
  BY <1>1 DEF Phase, Ops
<1>5. answers' = answers
  BY <1>1 DEF answers, Ops
<1>6. QED
  BY <1>1, <1>2, <1>3, <1>4, <1>5, RefuseMaps

(* upload_users goes on with the Result of its call. *)
LEMMA ContinueMaps ==
    ASSUME UploadInv, NEW u \in Uploads, Calling(u),
           NEW r \in Answers, r = "error" \/ reply[u] = r,
           Continue(u, r), ClientFrame,
           pc[u] = "start" => u \notin applied
    PROVE  [Atomic!Next]_(Atomic!vars)
<1>1. CASE (pc[u] = "put" \/ pc[u] = "start" \/ pc[u] = "commit") /\ Return(u, r)
           /\ (pc[u] = "start" => r # "ok") /\ (pc[u] = "commit" => r = "ok")
  <2>1. r = "ok" => u \in applied
    BY <1>1 DEF UploadInv, Told, Answers
  <2>2. r \notin {"ok", "error"} =>
           u \notin applied /\ \A q \in net : q.of = u => q.op \notin {"put", "commit"}
    <3> SUFFICES ASSUME r \notin {"ok", "error"}
                 PROVE  u \notin applied /\ \A q \in net : q.of = u => q.op \notin {"put", "commit"}
      OBVIOUS
    <3>1. CASE pc[u] = "put"
      BY <3>1 DEF UploadInv, Told, Order, Transport, Answers
    <3>2. CASE pc[u] = "start"
      BY <3>2 DEF UploadInv, Order, Transport, Ops
    <3>3. QED
      BY <1>1, <3>1, <3>2
  <2>3. QED
    BY <1>1, <2>1, <2>2, ReturnMaps
<1>2. CASE /\ pc[u] = "start" \/ pc[u] = "chunk"
           /\ r = "ok" /\ SendNext(u)
  BY <1>2, SendMaps DEF SendNext
<1>3. CASE /\ pc[u] = "chunk" \/ pc[u] = "commit"
           /\ CancelAndReturn(u, r) \/ CancelAndReturn(u, "error")
  BY <1>3, SendMaps DEF CancelAndReturn
<1>4. CASE pc[u] = "cancel" /\ Return(u, result[u])
  <2>1. result[u] \in Answers \ {"ok"}
    BY <1>4 DEF UploadInv, Told
  <2>2. result[u] # "error" =>
           u \notin applied /\ \A q \in net : q.of = u => q.op \notin {"put", "commit"}
    BY <1>4 DEF UploadInv, Told, Transport, Ops
  <2>3. QED
    BY <1>4, <2>1, <2>2, ReturnMaps
<1>5. QED
  BY <1>1, <1>2, <1>3, <1>4 DEF Continue, AfterChunk

(* upload_users begins. *)
LEMMA BeginMaps ==
    ASSUME UploadInv, NEW u \in Uploads, Begin(u)
    PROVE  [Atomic!Next]_(Atomic!vars)
<1>1. \E op \in {"put", "start"} : \E S : Call(op, u, S)
  BY DEF Begin
<1> PICK op \in {"put", "start"} : \E S : Call(op, u, S)
  BY <1>1
<1>2. PICK S : Call(op, u, S)
  OBVIOUS
<1>3. /\ pc' = [pc EXCEPT ![u] = op] /\ pc[u] = "new"
      /\ net' = net \union {Request(op, u, S)}
      /\ Request(op, u, S).of = u /\ Request(op, u, S).op = op
      /\ UNCHANGED <<session, applied, list, want, result>>
      /\ pc \in [Uploads -> Ops \union {"new", "ended", "dead"}]
  BY <1>2 DEF Call, Begin, server, UploadInv, TypeOK, Request
<1>4. \A v \in Uploads \ {u} : Phase(v)' = Phase(v)
  BY <1>3, PhaseUnchanged
<1>5. Phase(u) = "new" /\ Phase(u)' = "open"
  BY <1>3 DEF Phase, Writing, UploadInv, Told
<1>6. phases[u] = "new" /\ phases' = [phases EXCEPT ![u] = "open"]
  BY <1>4, <1>5 DEF phases
<1>7. answers' = answers
  BY <1>3 DEF answers
<1>8. Atomic!Begin(u)
  BY <1>3, <1>6, <1>7 DEF Atomic!Begin
<1>9. QED
  BY <1>8 DEF Atomic!Next

(* A dead process may leave a write behind that is under way. *)
LEMMA CrashMaps ==
    ASSUME UploadInv, NEW u \in Uploads, Crash(u)
    PROVE  [Atomic!Next]_(Atomic!vars)
<1>1. /\ pc' = [pc EXCEPT ![u] = "dead"] /\ pc[u] \in Ops
      /\ UNCHANGED <<net, session, applied, list, want, result>>
      /\ pc \in [Uploads -> Ops \union {"new", "ended", "dead"}]
  BY DEF Crash, server, Calling, UploadInv, TypeOK
<1>2. \A v \in Uploads \ {u} : Phase(v)' = Phase(v)
  BY <1>1, PhaseUnchanged
<1>3. Writing(u)' => Writing(u)
  BY <1>1 DEF Writing
<1>4. Phase(u) # "new" /\ Phase(u)' # "new"
  BY <1>1 DEF Phase, Ops
<1>5. answers' = answers
  BY <1>1 DEF answers, Ops
<1>6. QED
  BY <1>1, <1>2, <1>3, <1>4, <1>5, RefuseMaps

(* A request that is lost, refused or held, and every one that does not write,
   at most ends a promise. *)
LEMMA QuietMaps ==
    ASSUME UploadInv, NEW q \in net,
           \/ Lose(q) \/ ServeRefusal(q) \/ ServeHeld(q) \/ ServeStart(q)
           \/ ServeChunk(q) \/ ServeCancel(q)
    PROVE  [Atomic!Next]_(Atomic!vars)
<1>1. /\ net' = net \ {q} /\ q.of \in Uploads
      /\ UNCHANGED <<pc, applied, list, want, result>>
  BY DEF Lose, ServeRefusal, ServeHeld, ServeStart, ServeChunk, ServeCancel, Answer, client,
         server, UploadInv, TypeOK, Requests
<1>2. /\ \A v \in Uploads \ {q.of} : session'[v] = session[v]
      /\ session'[q.of] = "open" => session[q.of] = "open" \/ q.op = "start"
  BY DEF Lose, ServeRefusal, ServeHeld, ServeStart, ServeChunk, ServeCancel, server,
         UploadInv, TypeOK
<1>3. q.op = "start" => \A p \in net : p.of = q.of => p.op # "commit"
  BY DEF UploadInv, Order
<1>4. \A v \in Uploads \ {q.of} : Phase(v)' = Phase(v)
  BY <1>1, <1>2, PhaseUnchanged
<1>5. Writing(q.of)' => Writing(q.of)
  BY <1>1, <1>2, <1>3 DEF Writing
<1>6. Phase(q.of) # "new" /\ Phase(q.of)' # "new"
  BY <1>1 DEF Phase, UploadInv, Order
<1>7. answers' = answers
  BY <1>1 DEF answers
<1>8. QED
  BY <1>1, <1>4, <1>5, <1>6, <1>7, RefuseMaps

(* PUT /users and the commit swap in the whole list of an upload that was not
   applied before. *)
LEMMA ApplyMaps ==
    ASSUME UploadInv, NEW q \in net, ServePut(q) \/ ServeCommit(q)
    PROVE  [Atomic!Next]_(Atomic!vars)
<1>1. /\ net' = net \ {q} /\ q.of \in Uploads
      /\ UNCHANGED <<pc, want, result>>
      /\ applied' = applied \union {q.of}
  BY DEF ServePut, ServeCommit, Answer, client, UploadInv, TypeOK, Requests
<1>2. \A v \in Uploads \ {q.of} : session'[v] = session[v]
  BY DEF ServePut, ServeCommit, UploadInv, TypeOK
<1>3. list' = want[q.of]
  BY DEF ServePut, ServeCommit, UploadInv, Bodies, Staging
<1>4. \A v \in Uploads \ {q.of} : Phase(v)' = Phase(v)
  BY <1>1, <1>2, PhaseUnchanged
<1>5. Phase(q.of) = "open" /\ Phase(q.of)' = "applied"
  BY <1>1 DEF ServePut, ServeCommit, Phase, Writing, UploadInv, Told, Order
<1>6. phases[q.of] = "open" /\ phases' = [phases EXCEPT ![q.of] = "applied"]
  BY <1>1, <1>4, <1>5 DEF phases
<1>7. answers' = answers
  BY <1>1 DEF answers
<1>8. Atomic!Apply(q.of)
  BY <1>1, <1>3, <1>6, <1>7 DEF Atomic!Apply
<1>9. QED
  BY <1>1, <1>8 DEF Atomic!Next

(* The owner disables or enables the link, or deletes it with its list. *)
LEMMA LinkMaps ==
    ASSUME Toggle \/ Delete
    PROVE  [Atomic!Next]_(Atomic!vars)
<1>1. UNCHANGED <<net, session, applied, pc, want, result>>
  BY DEF Toggle, Delete, client
<1>2. phases' = phases /\ answers' = answers
  BY <1>1 DEF phases, answers, Phase, Writing
<1>3. CASE Toggle
  BY <1>1, <1>2, <1>3 DEF Toggle, Atomic!vars
<1>4. CASE Delete
  BY <1>1, <1>2, <1>4 DEF Delete, Atomic!Clear, Atomic!Next
<1>5. QED
  BY <1>3, <1>4

(* upload_users, over either transport and with whatever is lost, late or refused
   on the way, replaces the list as a whole and at most once, and returns what is
   true: it implements AtomicList. *)
THEOREM UploadsAreAtomic == Spec => ListsAreSwapped
<1>1. Init => Atomic!Init
  BY DEF Init, Atomic!Init, phases, answers, Phase
<1>2. UploadInv /\ [Next]_vars => [Atomic!Next]_(Atomic!vars)
  <2> SUFFICES ASSUME UploadInv, [Next]_vars PROVE [Atomic!Next]_(Atomic!vars)
    OBVIOUS
  <2>1. ASSUME NEW u \in Uploads, Begin(u) PROVE [Atomic!Next]_(Atomic!vars)
    BY <2>1, BeginMaps
  <2>2. ASSUME NEW u \in Uploads, Receive(u) PROVE [Atomic!Next]_(Atomic!vars)
    <3>1. /\ ClientFrame /\ Calling(u) /\ Continue(u, reply[u])
          /\ reply[u] \in Answers /\ (pc[u] = "start" => u \notin applied)
      BY <2>2 DEF Receive, ClientFrame, server, UploadInv, TypeOK, Told
    <3>2. QED
      BY <3>1, ContinueMaps
  <2>3. ASSUME NEW u \in Uploads, Fail(u) PROVE [Atomic!Next]_(Atomic!vars)
    <3>1. /\ ClientFrame /\ Calling(u) /\ Continue(u, "error") /\ "error" \in Answers
          /\ (pc[u] = "start" => u \notin applied)
      BY <2>3 DEF Fail, ClientFrame, server, UploadInv, TypeOK, Told, Answers
    <3>2. QED
      BY <3>1, ContinueMaps
  <2>4. ASSUME NEW u \in Uploads, Crash(u) PROVE [Atomic!Next]_(Atomic!vars)
    BY <2>4, CrashMaps
  <2>5. ASSUME NEW q \in net, Lose(q) \/ Serve(q) PROVE [Atomic!Next]_(Atomic!vars)
    BY <2>5, QuietMaps, ApplyMaps DEF Serve
  <2>6. CASE Toggle \/ Delete
    BY <2>6, LinkMaps
  <2>7. CASE UNCHANGED vars
    BY <2>7 DEF vars, Atomic!vars, phases, answers, Phase, Writing
  <2>8. QED
    BY <2>1, <2>2, <2>3, <2>4, <2>5, <2>6, <2>7 DEF Next
<1>3. QED
  BY <1>1, <1>2, UploadsKeepInv, PTL DEF Spec, ListsAreSwapped, Atomic!Spec

-----------------------------------------------------------------------------
(* No session is left behind.                                              *)

(* As long as every call of an upload is answered, its session is closed by the
   time it returns, and nothing is under way that would open one. *)
SessionInv ==
    \A u \in Uploads \ trouble :
       /\ pc[u] = "ended" => session[u] # "open"
       /\ pc[u] = "start" /\ reply[u] \notin {"none", "ok"} => session[u] # "open"
       /\ pc[u] = "cancel" /\ reply[u] = "ok" => session[u] # "open"
       /\ pc[u] # "start" => \A q \in net : q.of = u => q.op # "start"

(* upload_users: on every path that leaves with an error the session is cancelled. *)
LEMMA ClientKeepsSessions ==
    ASSUME UploadInv, SessionInv, NEW u \in Uploads, Begin(u) \/ Receive(u)
    PROVE  SessionInv'
<1>1. /\ \A v \in Uploads \ {u} : pc'[v] = pc[v] /\ reply'[v] = reply[v]
      /\ \A q \in net' : q.of # u => q \in net
      /\ UNCHANGED session /\ trouble \subseteq trouble'
  BY DEF Begin, Receive, Continue, AfterChunk, SendNext, CancelAndReturn, Return, Call,
         Request, server, UploadInv, TypeOK
<1>2. CASE Begin(u)
  <2>1. pc[u] = "new" /\ (pc'[u] = "put" \/ pc'[u] = "start") /\ reply'[u] = "none"
    BY <1>2 DEF Begin, Call, UploadInv, TypeOK
  <2>2. pc'[u] # "start" => \A q \in net' : q.of = u => q.op # "start"
    BY <1>2 DEF Begin, Call, Request, UploadInv, TypeOK, Order
  <2>3. QED
    BY <1>1, <2>1, <2>2 DEF SessionInv
<1>3. CASE Receive(u)
  <2> SUFFICES ASSUME u \notin trouble'
               PROVE  /\ pc'[u] = "ended" => session[u] # "open"
                      /\ pc'[u] = "start" => reply'[u] = "none"
                      /\ pc'[u] = "cancel" => reply'[u] = "none"
                      /\ pc'[u] # "start" => \A q \in net' : q.of = u => q.op # "start"
    BY <1>1 DEF SessionInv
  <2>1. u \notin trouble /\ reply[u] # "none" /\ Continue(u, reply[u])
        /\ (pc[u] = "cancel" => reply[u] = "ok")
    BY <1>3 DEF Receive
  <2>2. \A q \in net : q.of = u => q.op # "start"
    BY <2>1 DEF SessionInv, UploadInv, Order
  <2>3. CASE Return(u, reply[u]) \/ Return(u, "ok") \/ Return(u, result[u])
    <3>1. pc'[u] = "ended" /\ net' = net
      BY <2>3 DEF Return, UploadInv, TypeOK
    <3>2. session[u] # "open"
      <4>1. CASE pc[u] = "put"
        BY <4>1 DEF UploadInv, Transport
      <4>2. CASE pc[u] = "start" /\ reply[u] # "ok"
        BY <4>2, <2>1 DEF SessionInv
      <4>3. CASE pc[u] = "commit" /\ reply[u] = "ok"
        BY <4>3 DEF UploadInv, Told, Transport, Ops
      <4>4. CASE pc[u] = "cancel"
        BY <4>4, <2>1 DEF SessionInv
      <4>5. pc[u] # "ended" /\ (SendNext(u) => pc'[u] # "ended")
            /\ (\A r : CancelAndReturn(u, r) => pc'[u] # "ended")
        BY <1>3 DEF Receive, Calling, Ops, SendNext, CancelAndReturn, Call, UploadInv, TypeOK
      <4>6. QED
        BY <2>1, <3>1, <4>1, <4>2, <4>3, <4>4, <4>5 DEF Continue, AfterChunk
    <3>3. QED
      BY <2>2, <3>1, <3>2
  <2>4. CASE SendNext(u) \/ \E r : CancelAndReturn(u, r)
    <3> PICK op \in {"chunk", "commit", "cancel"} : \E S : Call(op, u, S)
      BY <2>4 DEF SendNext, CancelAndReturn
    <3>1. PICK S : Call(op, u, S)
      OBVIOUS
    <3>2. /\ pc'[u] = op /\ reply'[u] = "none"
          /\ net' = net \union {Request(op, u, S)} /\ Request(op, u, S).op = op
      BY <3>1 DEF Call, Request, UploadInv, TypeOK
    <3>3. QED
      BY <2>2, <3>2
  <2>5. QED
    BY <2>1, <2>3, <2>4 DEF Continue, AfterChunk
<1>4. QED
  BY <1>2, <1>3

(* Whatever becomes of a request, and of an upload that has a call unanswered. *)
LEMMA NetworkKeepsSessions ==
    ASSUME UploadInv, SessionInv,
           \/ \E u \in Uploads : Fail(u) \/ Crash(u)
           \/ \E q \in net : Lose(q) \/ Serve(q)
           \/ Toggle \/ Delete \/ UNCHANGED vars
    PROVE  SessionInv'
<1>1. ASSUME NEW u \in Uploads, Fail(u) \/ Crash(u) PROVE SessionInv'
  <2>1. /\ \A v \in Uploads \ {u} : pc'[v] = pc[v] /\ reply'[v] = reply[v]
        /\ \A q \in net' : q.of # u => q \in net
        /\ UNCHANGED session /\ trouble' = trouble \union {u}
    BY <1>1 DEF Fail, Crash, Continue, AfterChunk, SendNext, CancelAndReturn, Return, Call,
                Request, server, UploadInv, TypeOK
  <2>2. QED
    BY <2>1 DEF SessionInv
<1>2. ASSUME NEW q \in net, Lose(q) PROVE SessionInv'
  BY <1>2 DEF Lose, client, server, SessionInv
<1>3. ASSUME NEW q \in net, Serve(q) PROVE SessionInv'
  <2>1. /\ net' = net \ {q} /\ q.of \in Uploads /\ UNCHANGED <<pc, trouble>>
        /\ \A v \in Uploads : reply'[v] # reply[v] => v = q.of /\ pc[v] = q.op
    BY <1>3 DEF Serve, ServeRefusal, ServeHeld, ServePut, ServeStart, ServeChunk, ServeCommit,
                ServeCancel, Answer, client, UploadInv, TypeOK, Requests
  <2>2. /\ \A v \in Uploads \ {q.of} : session'[v] = session[v]
        /\ session'[q.of] = "open" => session[q.of] = "open" \/ ServeStart(q)
        /\ ServeStart(q) => q.op = "start" /\ (pc[q.of] = "start" => reply'[q.of] = "ok")
    BY <1>3 DEF Serve, ServeRefusal, ServeHeld, ServePut, ServeStart, ServeChunk, ServeCommit,
                ServeCancel, Answer, UploadInv, TypeOK, Requests
  <2>3. q.op = "cancel" /\ pc[q.of] = "cancel" /\ reply'[q.of] = "ok" => session'[q.of] # "open"
    BY <1>3 DEF Serve, ServeRefusal, ServeHeld, ServePut, ServeStart, ServeChunk, ServeCommit,
                ServeCancel, Answer, UploadInv, TypeOK, Requests
  <2>4. q.op = "start" => session[q.of] = "none"
    BY DEF UploadInv, Order
  <2>5. q.of \notin trouble /\ ServeStart(q) => pc[q.of] = "start"
    BY <2>1, <2>2 DEF SessionInv
  <2>6. QED
    BY <2>1, <2>2, <2>3, <2>4, <2>5 DEF SessionInv
<1>4. CASE Toggle \/ Delete \/ UNCHANGED vars
  BY <1>4 DEF Toggle, Delete, client, vars, SessionInv
<1>5. QED
  BY <1>1, <1>2, <1>3, <1>4

(* upload_users leaves no session behind, except where a call was not answered or
   the cancel itself was refused. *)
THEOREM NoSessionLeft == Spec => []NoStraySession
<1>1. Init => SessionInv
  BY DEF Init, SessionInv
<1>2. UploadInv /\ SessionInv /\ [Next]_vars => SessionInv'
  BY ClientKeepsSessions, NetworkKeepsSessions DEF Next
<1>3. SessionInv => NoStraySession
  BY DEF SessionInv, NoStraySession
<1>4. QED
  BY <1>1, <1>2, <1>3, UploadsKeepInv, PTL DEF Spec
=============================================================================
