----------------------------- MODULE Exchange -----------------------------
(***************************************************************************)
(* One batch after another over the wire: the collector's ingest           *)
(* (receive.rs) and Forwarder (forward.rs), the connection it keeps, and   *)
(* the receiver's guard (api/auth.rs) and handler (api/ingest.rs) behind a *)
(* proxy that accepts every connection. The queue between them is the      *)
(* outbox of CollectorDelivery, the write at the end one batch of          *)
(* StoreWriter. A batch is the post that brought it.                       *)
(***************************************************************************)
EXTENDS Integers, FiniteSets, Sequences

CONSTANTS
  Posts,             \* what the applications post: see Content
  Content,           \* post -> [type, encoding, wire, unzips, inflated, decodes, marks]
  PROTOBUF,          \* the one content type, and
  GZIP, Identity,    \* the two encodings that both ends take
  MAX_BODY, MAX_DECOMPRESSED,
  OutboxCapacity,
  Tokens,            \* the API keys that are ever made, as [id, secret]
  ApiKey,            \* the one the collector is configured with
  Conns,             \* names for connections
  None,
  MaxFaults          \* bounds the faults of a run together

ASSUME CapacityAssumption == OutboxCapacity \in Nat \ {0}
ASSUME NoneAssumption == None \notin Posts \cup Conns
ASSUME KeyAssumption == ApiKey \in Tokens /\ \A j, k \in Tokens : j.id = k.id => j = k
ASSUME FaultsAssumption == MaxFaults \in Nat

VARIABLES
  outbox,            \* corrected batches, oldest first
  offered,           \* history: the posts that were made
  attempt,           \* where Forwarder::send is, on which connection, with which batch
  live,              \* Forwarder.live
  delivered,         \* history: the batches that send returned Ok for
  client,            \* connection -> the collector's end; "ended" is a pump that finished
  server,            \* connection -> the far end; "lost" is a path that swallows everything
  wire,              \* connection -> the batch of a request on its way, or None
  reply,             \* connection -> the answer on its way, or None
  handler,           \* connection -> the request being handled, or None
  up, clear,         \* the receiver runs; the path to it works
  issued, keys,      \* tokens ever issued, and those whose row is there
  stored,            \* the batches the receiver has committed
  faults
collector == <<outbox, offered, attempt, live, delivered>>
receiver == <<up, clear, issued, keys, stored>>
vars == <<collector, client, server, wire, reply, handler, receiver, faults>>

Idle == [at |-> "idle", conn |-> None, batch |-> None]
Sending(at, c, b) == [at |-> at, conn |-> c, batch |-> b]
Handling(at, b, status, late) == [at |-> at, batch |-> b, status |-> status, late |-> late]
---------------------------------------------------------------------------
\* What either end says of a request before it stores anything: 0 is no objection.
Zipped(r) == r.encoding = GZIP
Refusal(r) ==
  IF r.type # PROTOBUF \/ r.encoding \notin {Identity, GZIP} THEN 415
  ELSE IF r.wire > MAX_BODY THEN 413
  ELSE IF Zipped(r) /\ ~r.unzips THEN 400
  ELSE IF Zipped(r) /\ r.inflated > MAX_DECOMPRESSED THEN 413
  ELSE IF ~r.decodes THEN 400 ELSE 0
\* The batch as it is sent on: corrected, and as it comes out of encode_to_vec.
Request(p) ==
  LET r == Content[p]
  IN [r EXCEPT !.encoding = Identity,
               !.wire = (IF Zipped(r) THEN r.inflated ELSE r.wire) + r.marks]

\* A token is looked up by its id; a secret is its own hash.
secret_hash(id) ==
  LET found == {k \in keys : k.id = id}
  IN IF found = {} THEN None ELSE (CHOOSE k \in found : TRUE).secret
evaluate ==
  LET hash == secret_hash(ApiKey.id)
  IN IF hash = None THEN "unknown id"
     ELSE IF hash = ApiKey.secret THEN "valid" ELSE "wrong secret"
refuse(outcome) == IF outcome = "unavailable" THEN 503 ELSE 401

\* What the bound of the outbox leaves of it.
Newest(s) ==
  IF Len(s) > OutboxCapacity THEN SubSeq(s, Len(s) - OutboxCapacity + 1, Len(s)) ELSE s
---------------------------------------------------------------------------
Init ==
  /\ outbox = <<>> /\ offered = {} /\ attempt = Idle /\ live = None /\ delivered = {}
  /\ client = [c \in Conns |-> "none"] /\ server = [c \in Conns |-> "none"]
  /\ wire = [c \in Conns |-> None] /\ reply = [c \in Conns |-> None]
  /\ handler = [c \in Conns |-> None]
  /\ up = TRUE /\ clear = TRUE
  /\ issued = {} /\ keys = {} /\ stored = {} /\ faults = 0

\* The collector's own ingest, and the flush cycle that ends with the outbox cut to
\* its bound. While a send is under way the flush task takes nothing in. The collector
\* is started with a key that was made for it.
Accept(p) ==
  /\ attempt = Idle /\ ApiKey \in issued
  /\ p \notin offered /\ Refusal(Content[p]) = 0
  /\ offered' = offered \cup {p}
  /\ outbox' = Newest(Append(outbox, p))
  /\ UNCHANGED <<attempt, live, delivered, client, server, wire, reply, handler, receiver, faults>>

\* send, up to the connection: the kept one, unless its end has been seen.
TakeLive ==
  /\ attempt = Idle /\ outbox # <<>>
  /\ live' = None
  /\ IF live # None /\ client[live] = "open"
     THEN attempt' = Sending("ready", live, Head(outbox)) /\ UNCHANGED client
     ELSE /\ attempt' = Sending("connect", None, Head(outbox))
          /\ client' = [c \in Conns |-> IF c = live THEN "none" ELSE client[c]]
  /\ UNCHANGED <<outbox, offered, delivered, server, wire, reply, handler, receiver, faults>>
\* The proxy accepts whether or not its far end is there.
Free(c) == client[c] = "none" /\ wire[c] = None /\ handler[c] = None
Connect(c) ==
  /\ attempt.at = "connect" /\ Free(c)
  /\ attempt' = Sending("ready", c, attempt.batch)
  /\ client' = [client EXCEPT ![c] = "open"]
  /\ server' = [server EXCEPT ![c] = IF up /\ clear THEN "open" ELSE "lost"]
  /\ UNCHANGED <<outbox, offered, live, delivered, wire, reply, handler, receiver, faults>>
SendRequest ==
  /\ attempt.at = "ready" /\ client[attempt.conn] = "open"
  /\ attempt' = [attempt EXCEPT !.at = "awaiting"]
  /\ wire' = [wire EXCEPT ![attempt.conn] = attempt.batch]
  /\ UNCHANGED <<outbox, offered, live, delivered, client, server, reply, handler, receiver, faults>>

Answered == attempt.at = "awaiting" /\ reply[attempt.conn] # None
\* A 2xx, read to its end: the batch leaves the outbox, the connection is kept.
\* An announced close is recorded as the response is parsed.
Succeed ==
  /\ Answered /\ reply[attempt.conn].status = 200
  /\ attempt' = Idle /\ live' = attempt.conn
  /\ delivered' = delivered \cup {attempt.batch} /\ outbox' = Tail(outbox)
  /\ client' = [client EXCEPT ![attempt.conn] = IF reply[attempt.conn].last THEN "ended" ELSE "open"]
  /\ reply' = [reply EXCEPT ![attempt.conn] = None]
  /\ UNCHANGED <<offered, server, wire, handler, receiver, faults>>

\* Mutation of Abandon: the connection is cached although the attempt failed.
AbandonAndKeep ==
  /\ attempt' = Idle
  /\ live' = attempt.conn
  /\ UNCHANGED <<outbox, offered, delivered, client, reply>>
\* The attempt is over and its connection, if it had one, is dropped. What was
\* written to it may still arrive.
Abandon ==
  /\ attempt' = Idle
  /\ client' = [c \in Conns |-> IF c = attempt.conn THEN "none" ELSE client[c]]
  /\ reply' = [c \in Conns |-> IF c = attempt.conn THEN None ELSE reply[c]]
  /\ UNCHANGED <<outbox, offered, live, delivered>>
Refused == /\ Answered /\ reply[attempt.conn].status # 200
           /\ Abandon /\ UNCHANGED <<server, wire, handler, receiver, faults>>
Broken == /\ attempt.at \in {"ready", "awaiting"} /\ ~Answered
          /\ client[attempt.conn] = "ended"
          /\ Abandon /\ UNCHANGED <<server, wire, reply, handler, receiver, faults>>
\* Mutation of TimesOut: only the connect is bounded.
TimesOutConnecting(early) ==
  /\ attempt.at = "connect" /\ early
\* The one timeout over connect and exchange. It is early where an answer could still come.
TimesOut(early) ==
  /\ attempt.at # "idle"
  /\ early <=> (attempt.conn = None \/ server[attempt.conn] # "lost")
Timeout ==
  \E early \in BOOLEAN :
    /\ TimesOut(early)
    /\ early => faults < MaxFaults
    /\ faults' = IF early THEN faults + 1 ELSE faults
    /\ Abandon /\ UNCHANGED <<server, wire, handler, receiver>>

\* The pump observes that the peer closed, behind whatever the peer had sent before.
Notice(c) ==
  /\ client[c] = "open" /\ server[c] = "closed" /\ reply[c] = None
  /\ client' = [client EXCEPT ![c] = "ended"]
  /\ UNCHANGED <<collector, server, wire, reply, handler, receiver, faults>>
---------------------------------------------------------------------------
Arrive(c) ==
  /\ wire[c] # None /\ server[c] = "open" /\ up /\ handler[c] = None
  /\ handler' = [handler EXCEPT ![c] = Handling("guard", wire[c], 0, ApiKey \notin keys)]
  /\ wire' = [wire EXCEPT ![c] = None]
  /\ UNCHANGED <<collector, client, server, reply, receiver, faults>>
\* Nobody is left to read what a dropped connection still carried.
Vanish(c) ==
  /\ wire[c] # None /\ client[c] = "none"
  /\ wire' = [wire EXCEPT ![c] = None]
  /\ UNCHANGED <<collector, client, server, reply, handler, receiver, faults>>

At(c, at) == handler[c] # None /\ handler[c].at = at
Moves(c, at, status) ==
  handler' = [handler EXCEPT ![c] = Handling(at, @.batch, status, @.late)]
\* Mutation of Guard: what it finds is reported, and the request goes on, as in the
\* release before keys were demanded.
GuardReportsOnly(c) ==
  /\ At(c, "guard")
  /\ Moves(c, "body", 0)
  /\ UNCHANGED <<collector, client, server, wire, reply, receiver, faults>>
Guard(c) ==
  /\ At(c, "guard")
  /\ IF evaluate = "valid" THEN Moves(c, "body", 0) ELSE Moves(c, "answer", refuse(evaluate))
  /\ UNCHANGED <<collector, client, server, wire, reply, receiver, faults>>
GuardUnavailable(c) ==
  /\ At(c, "guard") /\ faults < MaxFaults
  /\ Moves(c, "answer", refuse("unavailable"))
  /\ faults' = faults + 1
  /\ UNCHANGED <<collector, client, server, wire, reply, receiver>>
Check(c) ==
  /\ At(c, "body")
  /\ LET status == Refusal(Request(handler[c].batch))
     IN IF status = 0 THEN Moves(c, "write", 0) ELSE Moves(c, "answer", status)
  /\ UNCHANGED <<collector, client, server, wire, reply, receiver, faults>>
Write(c) ==
  /\ At(c, "write")
  /\ stored' = stored \cup {handler[c].batch}
  /\ Moves(c, "answer", 200)
  /\ UNCHANGED <<collector, client, server, wire, reply, up, clear, issued, keys, faults>>
WriteFails(c) ==
  /\ At(c, "write") /\ faults < MaxFaults
  /\ Moves(c, "answer", 503)
  /\ faults' = faults + 1
  /\ UNCHANGED <<collector, client, server, wire, reply, receiver>>
\* The response, which may announce that the connection ends with it.
AnswerWith(c, last) ==
  /\ At(c, "answer")
  /\ last => faults < MaxFaults
  /\ handler' = [handler EXCEPT ![c] = None]
  /\ reply' = [reply EXCEPT ![c] =
       IF server[c] = "open" /\ client[c] # "none"
       THEN [batch |-> handler[c].batch, status |-> handler[c].status, last |-> last]
       ELSE None]
  /\ server' = [server EXCEPT ![c] = IF last THEN "closed" ELSE @]
  /\ faults' = IF last THEN faults + 1 ELSE faults
  /\ UNCHANGED <<collector, client, wire, receiver>>
Answer(c) == \E last \in BOOLEAN : AnswerWith(c, last)
\* hyper drops the handler of a client that is gone, unless the writer has the batch.
Disconnect(c) ==
  /\ client[c] = "none" /\ handler[c] # None /\ handler[c].at # "answer"
  /\ handler' = [handler EXCEPT ![c] = None]
  /\ UNCHANGED <<collector, client, server, wire, reply, receiver, faults>>
\* An idle connection is closed, whatever may be on its way.
Reap(c) ==
  /\ client[c] = "open" /\ server[c] = "open" /\ handler[c] = None /\ faults < MaxFaults
  /\ server' = [server EXCEPT ![c] = "closed"]
  /\ faults' = faults + 1
  /\ UNCHANGED <<collector, client, wire, reply, handler, receiver>>

Crash ==
  /\ up /\ faults < MaxFaults
  /\ up' = FALSE /\ faults' = faults + 1
  /\ handler' = [c \in Conns |-> None]
  /\ server' = [c \in Conns |-> IF server[c] = "open" THEN "closed" ELSE server[c]]
  /\ UNCHANGED <<collector, client, wire, reply, clear, issued, keys, stored>>
Restart ==
  /\ ~up /\ up' = TRUE
  /\ UNCHANGED <<collector, client, server, wire, reply, handler, clear, issued, keys, stored, faults>>
\* The proxy loses its far end without a word, and finds it again for new connections.
Stall ==
  /\ clear /\ faults < MaxFaults
  /\ clear' = FALSE /\ faults' = faults + 1
  /\ server' = [c \in Conns |-> IF server[c] = "open" THEN "lost" ELSE server[c]]
  /\ reply' = [c \in Conns |-> IF server[c] = "open" THEN None ELSE reply[c]]
  /\ UNCHANGED <<collector, client, wire, handler, up, issued, keys, stored>>
Recover ==
  /\ ~clear /\ clear' = TRUE
  /\ UNCHANGED <<collector, client, server, wire, reply, handler, up, issued, keys, stored, faults>>

\* A key's row comes and goes in a statement each. Ids are drawn once: a token that was
\* revoked does not come back.
InsertKey(k) ==
  /\ k \in Tokens \ issued
  /\ issued' = issued \cup {k} /\ keys' = keys \cup {k}
  /\ UNCHANGED <<collector, client, server, wire, reply, handler, up, clear, stored, faults>>
DeleteKey(k) ==
  /\ k \in keys
  /\ keys' = keys \ {k}
  /\ UNCHANGED <<collector, client, server, wire, reply, handler, up, clear, issued, stored, faults>>

\* The page of the keys; the command makes one as the page does. A blank label makes
\* none, and the id of no row deletes none.
create_key == \E k \in Tokens : InsertKey(k)
delete_key == \E k \in keys : DeleteKey(k)

Forward == TakeLive \/ SendRequest \/ Succeed \/ Refused \/ Broken \/ Timeout
Serve(c) == Arrive(c) \/ Guard(c) \/ Check(c) \/ Write(c) \/ Answer(c)
Next ==
  \/ Forward \/ Crash \/ Restart \/ Stall \/ Recover
  \/ \E p \in Posts : Accept(p)
  \/ \E c \in Conns : \/ Connect(c) \/ Notice(c) \/ Serve(c) \/ Vanish(c) \/ Disconnect(c)
                      \/ GuardUnavailable(c) \/ WriteFails(c) \/ Reap(c)
  \/ create_key \/ delete_key
Spec == Init /\ [][Next]_vars

\* The flush task, the pumps, the runtime of the receiver and time itself go on.
Fairness ==
  /\ WF_vars(Forward) /\ WF_vars(\E c \in Conns : Connect(c) \/ Notice(c) \/ Vanish(c))
  /\ WF_vars(\E c \in Conns : Serve(c))
FairSpec == Spec /\ Fairness
---------------------------------------------------------------------------
Statuses == {200, 400, 401, 413, 415, 503}
TypeOK ==
  /\ outbox \in Seq(Posts) /\ Len(outbox) <= OutboxCapacity
  /\ offered \subseteq Posts /\ delivered \subseteq Posts /\ stored \subseteq Posts
  /\ live \in Conns \cup {None}
  /\ attempt \in [at : {"connect"}, conn : {None}, batch : Posts]
                 \cup [at : {"ready", "awaiting"}, conn : Conns, batch : Posts] \cup {Idle}
  /\ client \in [Conns -> {"none", "open", "ended"}]
  /\ server \in [Conns -> {"none", "open", "closed", "lost"}]
  /\ wire \in [Conns -> Posts \cup {None}]
  /\ reply \in [Conns -> [batch : Posts, status : Statuses, last : BOOLEAN] \cup {None}]
  /\ handler \in [Conns -> [at : {"guard", "body", "write", "answer"}, batch : Posts,
                            status : Statuses \cup {0}, late : BOOLEAN] \cup {None}]
  /\ up \in BOOLEAN /\ clear \in BOOLEAN
  /\ keys \subseteq issued /\ issued \subseteq Tokens /\ faults \in 0..MaxFaults

\* What send returned Ok for is at the receiver. A connection carries one batch after
\* another, and no answer to one is ever taken for the answer to the next, though
\* attempts are abandoned with their answers under way and the head of the outbox may
\* be another one by then.
OkMeansStored == delivered \subseteq stored

\* Nothing of a request that arrived after its key was revoked is stored, on a
\* connection of before the revocation either.
RevokedStaysOut ==
  [][stored' # stored =>
       \E c \in Conns : /\ At(c, "write") /\ ~handler[c].late
                        /\ stored' = stored \cup {handler[c].batch}]_vars

\* Whatever the faults left of the kept connection, the batch at the head goes through
\* once they end, unless the collector's key is gone; so no batch is stuck in the outbox.
Outstanding(p) == \E i \in DOMAIN outbox : outbox[i] = p
EventuallyDelivered ==
  <>[](up /\ clear) =>
    \A p \in {q \in Posts : Refusal(Content[q]) = 0} :
      Outstanding(p) ~> (~Outstanding(p) \/ ApiKey \notin keys)

\* "Body limits and decompression mirror monitoring_platform::api::ingest, because an
\* application must be able to point at either this or the receiver unchanged": what
\* the collector took is not refused for its form when it gets to the receiver.
AcceptedIsAcceptable ==
  \A c \in Conns : At(c, "answer") => handler[c].status \notin {400, 413, 415}
=============================================================================
