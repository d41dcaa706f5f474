--------------------------- MODULE ExchangeProofs ---------------------------
(***************************************************************************)
(* What holds of the exchange for any posts, limits, keys, connections and *)
(* faults: the types, that an Ok means stored, and that a revoked key      *)
(* stores nothing. The inductive invariant follows one request through its *)
(* connection: it is on the wire, in the handler or in the answer, never   *)
(* in two of them, and a connection is only ever taken up without one.     *)
(***************************************************************************)
EXTENDS Exchange, TLAPS

Quiet(c) == wire[c] = None /\ handler[c] = None /\ reply[c] = None
OneAtATime ==
  \A c \in Conns : /\ wire[c] # None => handler[c] = None /\ reply[c] = None
                   /\ handler[c] # None => reply[c] = None
TakenUpQuiet ==
  \A c \in Conns : c = live \/ (attempt.at = "ready" /\ attempt.conn = c) => Quiet(c)
OneHolder == attempt.at # "idle" => live = None /\ outbox # <<>>
DroppedIsSilent == \A c \in Conns : client[c] = "none" => reply[c] = None
OwnAnswer ==
  attempt.at = "awaiting" =>
    /\ wire[attempt.conn] \in {None, attempt.batch}
    /\ handler[attempt.conn] # None => handler[attempt.conn].batch = attempt.batch
    /\ reply[attempt.conn] # None => reply[attempt.conn].batch = attempt.batch
Line == OneAtATime /\ TakenUpQuiet /\ OneHolder /\ DroppedIsSilent /\ OwnAnswer

AnswerKnown == \A c \in Conns : At(c, "answer") => handler[c].status \in Statuses
OkIsStored ==
  /\ delivered \subseteq stored
  /\ \A c \in Conns : /\ At(c, "answer") /\ handler[c].status = 200 => handler[c].batch \in stored
                      /\ reply[c] # None /\ reply[c].status = 200 => reply[c].batch \in stored
KeyWasMade ==
  ApiKey \notin issued =>
    outbox = <<>> /\ attempt = Idle /\ \A c \in Conns : wire[c] = None /\ handler[c] = None
LateIsOut ==
  \A c \in Conns : handler[c] # None =>
    /\ handler[c].late => ApiKey \notin keys /\ ApiKey \in issued
    /\ handler[c].at \in {"body", "write"} => ~handler[c].late
IInv == TypeOK /\ Line /\ AnswerKnown /\ OkIsStored /\ KeyWasMade /\ LateIsOut
---------------------------------------------------------------------------
\* What a body is refused with, at either end.
LEMMA RefusalKnown == ASSUME NEW r PROVE Refusal(r) \in {0, 400, 413, 415}
BY DEF Refusal


\* The types are kept: the outbox is cut to its bound, a status is set before it is sent.
LEMMA Types == IInv /\ [Next]_vars => TypeOK'
<1> SUFFICES ASSUME IInv, [Next]_vars PROVE TypeOK'
  OBVIOUS
<1> USE NoneAssumption, CapacityAssumption, KeyAssumption, FaultsAssumption
       DEF IInv, collector, receiver, Idle, TypeOK
<1>1. CASE TakeLive
  BY <1>1 DEF Line, OneHolder, AnswerKnown, At, Statuses, TakeLive, Sending
<1>2. CASE SendRequest
  BY <1>2 DEF Line, OneHolder, AnswerKnown, At, Statuses, SendRequest
<1>3. CASE Succeed
  BY <1>3 DEF Line, OneHolder, AnswerKnown, At, Statuses, Succeed, Answered
<1>4. CASE Refused
  BY <1>4 DEF Line, OneHolder, AnswerKnown, At, Statuses, Refused, Abandon, Answered
<1>5. CASE Broken
  BY <1>5 DEF Line, OneHolder, AnswerKnown, At, Statuses, Broken, Abandon, Answered
<1>6. CASE Timeout
  BY <1>6 DEF Line, OneHolder, AnswerKnown, At, Statuses, Timeout, Abandon, TimesOut
<1>7. CASE Crash
  <2>1. server' \in [Conns -> {"none", "open", "closed", "lost"}]
    BY <1>7 DEF Crash
  <2>2. handler' \in [Conns -> [at : {"guard", "body", "write", "answer"}, batch : Posts,
                                 status : Statuses \cup {0}, late : BOOLEAN] \cup {None}]
    BY <1>7 DEF Crash
  <2>3. faults' \in 0..MaxFaults
    BY <1>7 DEF Crash
  <2>4. up' = FALSE
    BY <1>7 DEF Crash
  <2>5. UNCHANGED <<outbox, offered, attempt, live, delivered, client, wire, reply, clear, issued, keys, stored>>
    BY <1>7 DEF Crash
  <2> QED
    BY <2>1, <2>2, <2>3, <2>4, <2>5 DEF Statuses
<1>8. CASE Restart
  BY <1>8 DEF Line, OneHolder, AnswerKnown, At, Statuses, Restart
<1>9. CASE Stall
  <2>1. server' \in [Conns -> {"none", "open", "closed", "lost"}]
    BY <1>9 DEF Stall
  <2>2. reply' \in [Conns -> [batch : Posts, status : Statuses, last : BOOLEAN] \cup {None}]
    BY <1>9 DEF Stall
  <2>3. faults' \in 0..MaxFaults
    BY <1>9 DEF Stall
  <2>4. clear' = FALSE
    BY <1>9 DEF Stall
  <2>5. UNCHANGED <<outbox, offered, attempt, live, delivered, client, wire, handler, up, issued, keys, stored>>
    BY <1>9 DEF Stall
  <2> QED
    BY <2>1, <2>2, <2>3, <2>4, <2>5 DEF Statuses
<1>10. CASE Recover
  BY <1>10 DEF Line, OneHolder, AnswerKnown, At, Statuses, Recover
<1>11. ASSUME NEW p \in Posts, Accept(p) PROVE TypeOK'
  BY <1>11 DEF Line, OneHolder, AnswerKnown, At, Statuses, Accept, Newest
<1>12. ASSUME NEW c \in Conns, Connect(c) PROVE TypeOK'
  BY <1>12 DEF Line, OneHolder, AnswerKnown, At, Statuses, Connect, Free, Sending
<1>13. ASSUME NEW c \in Conns, Notice(c) PROVE TypeOK'
  BY <1>13 DEF Line, OneHolder, AnswerKnown, At, Statuses, Notice
<1>14. ASSUME NEW c \in Conns, Arrive(c) PROVE TypeOK'
  BY <1>14 DEF Line, OneHolder, AnswerKnown, At, Statuses, Arrive, Handling
<1>15. ASSUME NEW c \in Conns, Guard(c) PROVE TypeOK'
  BY <1>15 DEF Line, OneHolder, AnswerKnown, At, Statuses, Guard, Moves, Handling, refuse, evaluate, secret_hash
<1>16. ASSUME NEW c \in Conns, Check(c) PROVE TypeOK'
  <2>1. Refusal(Request(handler[c].batch)) \in {0, 400, 413, 415}
    BY RefusalKnown
  <2> QED
    BY <1>16, <2>1 DEF Check, Moves, Handling, At, Line, Statuses
<1>17. ASSUME NEW c \in Conns, Write(c) PROVE TypeOK'
  BY <1>17 DEF Line, OneHolder, AnswerKnown, At, Statuses, Write, Moves, Handling
<1>18. ASSUME NEW c \in Conns, Answer(c) PROVE TypeOK'
  <2>1. handler[c].batch \in Posts /\ handler[c].status \in Statuses
    BY <1>18 DEF Answer, AnswerWith, At, AnswerKnown
  <2>2. PICK last \in BOOLEAN : AnswerWith(c, last)
    BY <1>18 DEF Answer
  <2>3. reply' \in [Conns -> [batch : Posts, status : Statuses, last : BOOLEAN] \cup {None}]
    BY <2>1, <2>2 DEF AnswerWith
  <2>4. server' \in [Conns -> {"none", "open", "closed", "lost"}] /\ faults' \in 0..MaxFaults
    BY <2>2 DEF AnswerWith
  <2> QED
    BY <1>18, <2>2, <2>3, <2>4 DEF AnswerWith, Statuses
<1>19. ASSUME NEW c \in Conns, Vanish(c) PROVE TypeOK'
  BY <1>19 DEF Line, OneHolder, AnswerKnown, At, Statuses, Vanish
<1>20. ASSUME NEW c \in Conns, Disconnect(c) PROVE TypeOK'
  BY <1>20 DEF Line, OneHolder, AnswerKnown, At, Statuses, Disconnect
<1>21. ASSUME NEW c \in Conns, GuardUnavailable(c) PROVE TypeOK'
  BY <1>21 DEF Line, OneHolder, AnswerKnown, At, Statuses, GuardUnavailable, Moves, Handling, refuse
<1>22. ASSUME NEW c \in Conns, WriteFails(c) PROVE TypeOK'
  BY <1>22 DEF Line, OneHolder, AnswerKnown, At, Statuses, WriteFails, Moves, Handling
<1>23. ASSUME NEW c \in Conns, Reap(c) PROVE TypeOK'
  BY <1>23 DEF Line, OneHolder, AnswerKnown, At, Statuses, Reap
<1>24. ASSUME NEW k \in Tokens, InsertKey(k) PROVE TypeOK'
  BY <1>24 DEF Line, OneHolder, AnswerKnown, At, Statuses, InsertKey
<1>25. ASSUME NEW k \in Tokens, DeleteKey(k) PROVE TypeOK'
  BY <1>25 DEF Line, OneHolder, AnswerKnown, At, Statuses, DeleteKey
<1>26. CASE UNCHANGED vars
  BY <1>26 DEF Line, OneHolder, AnswerKnown, At, Statuses, vars
<1> QED
  BY <1>1, <1>2, <1>3, <1>4, <1>5, <1>6, <1>7, <1>8, <1>9, <1>10, <1>11, <1>12, <1>13, <1>14, <1>15, <1>16,
     <1>17, <1>18, <1>19, <1>20, <1>21, <1>22, <1>23, <1>24, <1>25, <1>26
     DEF Next, Forward, Serve, create_key, delete_key

\* One request at a time: whatever takes up a connection finds nothing on it, and what is
\* on it from then on is about the batch of the attempt.
LEMMA OneRequestPerConnection == IInv /\ [Next]_vars => Line'
<1> SUFFICES ASSUME IInv, [Next]_vars PROVE Line'
  OBVIOUS
<1> USE NoneAssumption, CapacityAssumption, KeyAssumption, FaultsAssumption
       DEF IInv, collector, receiver, Idle, TypeOK
<1>1. CASE TakeLive
  BY <1>1 DEF Line, OneAtATime, TakenUpQuiet, Quiet, OneHolder, DroppedIsSilent, OwnAnswer, At, TakeLive, Sending
<1>2. CASE SendRequest
  BY <1>2 DEF Line, OneAtATime, TakenUpQuiet, Quiet, OneHolder, DroppedIsSilent, OwnAnswer, At, SendRequest
<1>3. CASE Succeed
  BY <1>3 DEF Line, OneAtATime, TakenUpQuiet, Quiet, OneHolder, DroppedIsSilent, OwnAnswer, At, Succeed, Answered
<1>4. CASE Refused
  BY <1>4 DEF Line, OneAtATime, TakenUpQuiet, Quiet, OneHolder, DroppedIsSilent, OwnAnswer, At, Refused, Abandon, Answered
<1>5. CASE Broken
  BY <1>5 DEF Line, OneAtATime, TakenUpQuiet, Quiet, OneHolder, DroppedIsSilent, OwnAnswer, At, Broken, Abandon, Answered
<1>6. CASE Timeout
  BY <1>6 DEF Line, OneAtATime, TakenUpQuiet, Quiet, OneHolder, DroppedIsSilent, OwnAnswer, At, Timeout, Abandon, TimesOut
<1>7. CASE Crash
  BY <1>7 DEF Line, OneAtATime, TakenUpQuiet, Quiet, OneHolder, DroppedIsSilent, OwnAnswer, At, Crash
<1>8. CASE Restart
  BY <1>8 DEF Line, OneAtATime, TakenUpQuiet, Quiet, OneHolder, DroppedIsSilent, OwnAnswer, At, Restart
<1>9. CASE Stall
  BY <1>9 DEF Line, OneAtATime, TakenUpQuiet, Quiet, OneHolder, DroppedIsSilent, OwnAnswer, At, Stall
<1>10. CASE Recover
  BY <1>10 DEF Line, OneAtATime, TakenUpQuiet, Quiet, OneHolder, DroppedIsSilent, OwnAnswer, At, Recover
<1>11. ASSUME NEW p \in Posts, Accept(p) PROVE Line'
  BY <1>11 DEF Line, OneAtATime, TakenUpQuiet, Quiet, OneHolder, DroppedIsSilent, OwnAnswer, At, Accept, Newest
<1>12. ASSUME NEW c \in Conns, Connect(c) PROVE Line'
  BY <1>12 DEF Line, OneAtATime, TakenUpQuiet, Quiet, OneHolder, DroppedIsSilent, OwnAnswer, At, Connect, Free, Sending
<1>13. ASSUME NEW c \in Conns, Notice(c) PROVE Line'
  BY <1>13 DEF Line, OneAtATime, TakenUpQuiet, Quiet, OneHolder, DroppedIsSilent, OwnAnswer, At, Notice
<1>14. ASSUME NEW c \in Conns, Arrive(c) PROVE Line'
  BY <1>14 DEF Line, OneAtATime, TakenUpQuiet, Quiet, OneHolder, DroppedIsSilent, OwnAnswer, At, Arrive, Handling
<1>15. ASSUME NEW c \in Conns, Guard(c) PROVE Line'
  BY <1>15 DEF Line, OneAtATime, TakenUpQuiet, Quiet, OneHolder, DroppedIsSilent, OwnAnswer, At, Guard, Moves, Handling, refuse, evaluate, secret_hash
<1>16. ASSUME NEW c \in Conns, Check(c) PROVE Line'
  BY <1>16 DEF Line, OneAtATime, TakenUpQuiet, Quiet, OneHolder, DroppedIsSilent, OwnAnswer, At, Check, Moves, Handling
<1>17. ASSUME NEW c \in Conns, Write(c) PROVE Line'
  BY <1>17 DEF Line, OneAtATime, TakenUpQuiet, Quiet, OneHolder, DroppedIsSilent, OwnAnswer, At, Write, Moves, Handling
<1>18. ASSUME NEW c \in Conns, Answer(c) PROVE Line'
  BY <1>18 DEF Line, OneAtATime, TakenUpQuiet, Quiet, OneHolder, DroppedIsSilent, OwnAnswer, At, Answer, AnswerWith
<1>19. ASSUME NEW c \in Conns, Vanish(c) PROVE Line'
  BY <1>19 DEF Line, OneAtATime, TakenUpQuiet, Quiet, OneHolder, DroppedIsSilent, OwnAnswer, At, Vanish
<1>20. ASSUME NEW c \in Conns, Disconnect(c) PROVE Line'
  BY <1>20 DEF Line, OneAtATime, TakenUpQuiet, Quiet, OneHolder, DroppedIsSilent, OwnAnswer, At, Disconnect
<1>21. ASSUME NEW c \in Conns, GuardUnavailable(c) PROVE Line'
  BY <1>21 DEF Line, OneAtATime, TakenUpQuiet, Quiet, OneHolder, DroppedIsSilent, OwnAnswer, At, GuardUnavailable, Moves, Handling, refuse
<1>22. ASSUME NEW c \in Conns, WriteFails(c) PROVE Line'
  BY <1>22 DEF Line, OneAtATime, TakenUpQuiet, Quiet, OneHolder, DroppedIsSilent, OwnAnswer, At, WriteFails, Moves, Handling
<1>23. ASSUME NEW c \in Conns, Reap(c) PROVE Line'
  BY <1>23 DEF Line, OneAtATime, TakenUpQuiet, Quiet, OneHolder, DroppedIsSilent, OwnAnswer, At, Reap
<1>24. ASSUME NEW k \in Tokens, InsertKey(k) PROVE Line'
  BY <1>24 DEF Line, OneAtATime, TakenUpQuiet, Quiet, OneHolder, DroppedIsSilent, OwnAnswer, At, InsertKey
<1>25. ASSUME NEW k \in Tokens, DeleteKey(k) PROVE Line'
  BY <1>25 DEF Line, OneAtATime, TakenUpQuiet, Quiet, OneHolder, DroppedIsSilent, OwnAnswer, At, DeleteKey
<1>26. CASE UNCHANGED vars
  BY <1>26 DEF Line, OneAtATime, TakenUpQuiet, Quiet, OneHolder, DroppedIsSilent, OwnAnswer, At, vars
<1> QED
  BY <1>1, <1>2, <1>3, <1>4, <1>5, <1>6, <1>7, <1>8, <1>9, <1>10, <1>11, <1>12, <1>13, <1>14, <1>15, <1>16,
     <1>17, <1>18, <1>19, <1>20, <1>21, <1>22, <1>23, <1>24, <1>25, <1>26
     DEF Next, Forward, Serve, create_key, delete_key

\* A handler that goes on to its answer has set the status.
LEMMA AnswersHaveAStatus == IInv /\ [Next]_vars => AnswerKnown'
<1> SUFFICES ASSUME IInv, [Next]_vars PROVE AnswerKnown'
  OBVIOUS
<1> USE NoneAssumption, CapacityAssumption, KeyAssumption, FaultsAssumption
       DEF IInv, collector, receiver, Idle, TypeOK
<1>1. CASE TakeLive
  BY <1>1 DEF AnswerKnown, At, Statuses, TakeLive, Sending
<1>2. CASE SendRequest
  BY <1>2 DEF AnswerKnown, At, Statuses, SendRequest
<1>3. CASE Succeed
  BY <1>3 DEF AnswerKnown, At, Statuses, Succeed, Answered
<1>4. CASE Refused
  BY <1>4 DEF AnswerKnown, At, Statuses, Refused, Abandon, Answered
<1>5. CASE Broken
  BY <1>5 DEF AnswerKnown, At, Statuses, Broken, Abandon, Answered
<1>6. CASE Timeout
  BY <1>6 DEF AnswerKnown, At, Statuses, Timeout, Abandon, TimesOut
<1>7. CASE Crash
  BY <1>7 DEF AnswerKnown, At, Statuses, Crash
<1>8. CASE Restart
  BY <1>8 DEF AnswerKnown, At, Statuses, Restart
<1>9. CASE Stall
  BY <1>9 DEF AnswerKnown, At, Statuses, Stall
<1>10. CASE Recover
  BY <1>10 DEF AnswerKnown, At, Statuses, Recover
<1>11. ASSUME NEW p \in Posts, Accept(p) PROVE AnswerKnown'
  BY <1>11 DEF AnswerKnown, At, Statuses, Accept, Newest
<1>12. ASSUME NEW c \in Conns, Connect(c) PROVE AnswerKnown'
  BY <1>12 DEF AnswerKnown, At, Statuses, Connect, Free, Sending
<1>13. ASSUME NEW c \in Conns, Notice(c) PROVE AnswerKnown'
  BY <1>13 DEF AnswerKnown, At, Statuses, Notice
<1>14. ASSUME NEW c \in Conns, Arrive(c) PROVE AnswerKnown'
  BY <1>14 DEF AnswerKnown, At, Statuses, Arrive, Handling
<1>15. ASSUME NEW c \in Conns, Guard(c) PROVE AnswerKnown'
  BY <1>15 DEF AnswerKnown, At, Statuses, Guard, Moves, Handling, refuse, evaluate, secret_hash
<1>16. ASSUME NEW c \in Conns, Check(c) PROVE AnswerKnown'
  <2>1. Refusal(Request(handler[c].batch)) \in {0, 400, 413, 415}
    BY RefusalKnown
  <2> QED
    BY <1>16, <2>1 DEF Check, Moves, Handling, At, AnswerKnown, Statuses
<1>17. ASSUME NEW c \in Conns, Write(c) PROVE AnswerKnown'
  BY <1>17 DEF AnswerKnown, At, Statuses, Write, Moves, Handling
<1>18. ASSUME NEW c \in Conns, Answer(c) PROVE AnswerKnown'
  BY <1>18 DEF AnswerKnown, At, Statuses, Answer, AnswerWith
<1>19. ASSUME NEW c \in Conns, Vanish(c) PROVE AnswerKnown'
  BY <1>19 DEF AnswerKnown, At, Statuses, Vanish
<1>20. ASSUME NEW c \in Conns, Disconnect(c) PROVE AnswerKnown'
  BY <1>20 DEF AnswerKnown, At, Statuses, Disconnect
<1>21. ASSUME NEW c \in Conns, GuardUnavailable(c) PROVE AnswerKnown'
  BY <1>21 DEF AnswerKnown, At, Statuses, GuardUnavailable, Moves, Handling, refuse
<1>22. ASSUME NEW c \in Conns, WriteFails(c) PROVE AnswerKnown'
  BY <1>22 DEF AnswerKnown, At, Statuses, WriteFails, Moves, Handling
<1>23. ASSUME NEW c \in Conns, Reap(c) PROVE AnswerKnown'
  BY <1>23 DEF AnswerKnown, At, Statuses, Reap
<1>24. ASSUME NEW k \in Tokens, InsertKey(k) PROVE AnswerKnown'
  BY <1>24 DEF AnswerKnown, At, Statuses, InsertKey
<1>25. ASSUME NEW k \in Tokens, DeleteKey(k) PROVE AnswerKnown'
  BY <1>25 DEF AnswerKnown, At, Statuses, DeleteKey
<1>26. CASE UNCHANGED vars
  BY <1>26 DEF AnswerKnown, At, Statuses, vars
<1> QED
  BY <1>1, <1>2, <1>3, <1>4, <1>5, <1>6, <1>7, <1>8, <1>9, <1>10, <1>11, <1>12, <1>13, <1>14, <1>15, <1>16,
     <1>17, <1>18, <1>19, <1>20, <1>21, <1>22, <1>23, <1>24, <1>25, <1>26
     DEF Next, Forward, Serve, create_key, delete_key

\* A 200 is behind the write of its batch from the handler to the collector.
LEMMA OkAfterTheWrite == IInv /\ [Next]_vars => OkIsStored'
<1> SUFFICES ASSUME IInv, [Next]_vars PROVE OkIsStored'
  OBVIOUS
<1> USE NoneAssumption, CapacityAssumption, KeyAssumption, FaultsAssumption
       DEF IInv, collector, receiver, Idle, TypeOK
<1>1. CASE TakeLive
  BY <1>1 DEF OkIsStored, Line, OwnAnswer, At, TakeLive, Sending
<1>2. CASE SendRequest
  BY <1>2 DEF OkIsStored, Line, OwnAnswer, At, SendRequest
<1>3. CASE Succeed
  BY <1>3 DEF OkIsStored, Line, OwnAnswer, At, Succeed, Answered
<1>4. CASE Refused
  BY <1>4 DEF OkIsStored, Line, OwnAnswer, At, Refused, Abandon, Answered
<1>5. CASE Broken
  BY <1>5 DEF OkIsStored, Line, OwnAnswer, At, Broken, Abandon, Answered
<1>6. CASE Timeout
  BY <1>6 DEF OkIsStored, Line, OwnAnswer, At, Timeout, Abandon, TimesOut
<1>7. CASE Crash
  BY <1>7 DEF OkIsStored, Line, OwnAnswer, At, Crash
<1>8. CASE Restart
  BY <1>8 DEF OkIsStored, Line, OwnAnswer, At, Restart
<1>9. CASE Stall
  BY <1>9 DEF OkIsStored, Line, OwnAnswer, At, Stall
<1>10. CASE Recover
  BY <1>10 DEF OkIsStored, Line, OwnAnswer, At, Recover
<1>11. ASSUME NEW p \in Posts, Accept(p) PROVE OkIsStored'
  BY <1>11 DEF OkIsStored, Line, OwnAnswer, At, Accept, Newest
<1>12. ASSUME NEW c \in Conns, Connect(c) PROVE OkIsStored'
  BY <1>12 DEF OkIsStored, Line, OwnAnswer, At, Connect, Free, Sending
<1>13. ASSUME NEW c \in Conns, Notice(c) PROVE OkIsStored'
  BY <1>13 DEF OkIsStored, Line, OwnAnswer, At, Notice
<1>14. ASSUME NEW c \in Conns, Arrive(c) PROVE OkIsStored'
  BY <1>14 DEF OkIsStored, Line, OwnAnswer, At, Arrive, Handling
<1>15. ASSUME NEW c \in Conns, Guard(c) PROVE OkIsStored'
  BY <1>15 DEF OkIsStored, Line, OwnAnswer, At, Guard, Moves, Handling, refuse, evaluate, secret_hash
<1>16. ASSUME NEW c \in Conns, Check(c) PROVE OkIsStored'
  <2>1. Refusal(Request(handler[c].batch)) \in {0, 400, 413, 415}
    BY RefusalKnown
  <2> QED
    BY <1>16, <2>1 DEF Check, Moves, Handling, At, OkIsStored, Statuses
<1>17. ASSUME NEW c \in Conns, Write(c) PROVE OkIsStored'
  BY <1>17 DEF OkIsStored, Line, OwnAnswer, At, Write, Moves, Handling
<1>18. ASSUME NEW c \in Conns, Answer(c) PROVE OkIsStored'
  BY <1>18 DEF OkIsStored, Line, OwnAnswer, At, Answer, AnswerWith
<1>19. ASSUME NEW c \in Conns, Vanish(c) PROVE OkIsStored'
  BY <1>19 DEF OkIsStored, Line, OwnAnswer, At, Vanish
<1>20. ASSUME NEW c \in Conns, Disconnect(c) PROVE OkIsStored'
  BY <1>20 DEF OkIsStored, Line, OwnAnswer, At, Disconnect
<1>21. ASSUME NEW c \in Conns, GuardUnavailable(c) PROVE OkIsStored'
  BY <1>21 DEF OkIsStored, Line, OwnAnswer, At, GuardUnavailable, Moves, Handling, refuse
<1>22. ASSUME NEW c \in Conns, WriteFails(c) PROVE OkIsStored'
  BY <1>22 DEF OkIsStored, Line, OwnAnswer, At, WriteFails, Moves, Handling
<1>23. ASSUME NEW c \in Conns, Reap(c) PROVE OkIsStored'
  BY <1>23 DEF OkIsStored, Line, OwnAnswer, At, Reap
<1>24. ASSUME NEW k \in Tokens, InsertKey(k) PROVE OkIsStored'
  BY <1>24 DEF OkIsStored, Line, OwnAnswer, At, InsertKey
<1>25. ASSUME NEW k \in Tokens, DeleteKey(k) PROVE OkIsStored'
  BY <1>25 DEF OkIsStored, Line, OwnAnswer, At, DeleteKey
<1>26. CASE UNCHANGED vars
  BY <1>26 DEF OkIsStored, Line, OwnAnswer, At, vars
<1> QED
  BY <1>1, <1>2, <1>3, <1>4, <1>5, <1>6, <1>7, <1>8, <1>9, <1>10, <1>11, <1>12, <1>13, <1>14, <1>15, <1>16,
     <1>17, <1>18, <1>19, <1>20, <1>21, <1>22, <1>23, <1>24, <1>25, <1>26
     DEF Next, Forward, Serve, create_key, delete_key

\* Nothing is sent with a key that was never made.
LEMMA NothingBeforeTheKey == IInv /\ [Next]_vars => KeyWasMade'
<1> SUFFICES ASSUME IInv, [Next]_vars PROVE KeyWasMade'
  OBVIOUS
<1> USE NoneAssumption, CapacityAssumption, KeyAssumption, FaultsAssumption
       DEF IInv, collector, receiver, Idle, TypeOK
<1>1. CASE TakeLive
  BY <1>1 DEF KeyWasMade, At, TakeLive, Sending
<1>2. CASE SendRequest
  BY <1>2 DEF KeyWasMade, At, SendRequest
<1>3. CASE Succeed
  BY <1>3 DEF KeyWasMade, At, Succeed, Answered
<1>4. CASE Refused
  BY <1>4 DEF KeyWasMade, At, Refused, Abandon, Answered
<1>5. CASE Broken
  BY <1>5 DEF KeyWasMade, At, Broken, Abandon, Answered
<1>6. CASE Timeout
  BY <1>6 DEF KeyWasMade, At, Timeout, Abandon, TimesOut
<1>7. CASE Crash
  BY <1>7 DEF KeyWasMade, At, Crash
<1>8. CASE Restart
  BY <1>8 DEF KeyWasMade, At, Restart
<1>9. CASE Stall
  BY <1>9 DEF KeyWasMade, At, Stall
<1>10. CASE Recover
  BY <1>10 DEF KeyWasMade, At, Recover
<1>11. ASSUME NEW p \in Posts, Accept(p) PROVE KeyWasMade'
  BY <1>11 DEF KeyWasMade, At, Accept, Newest
<1>12. ASSUME NEW c \in Conns, Connect(c) PROVE KeyWasMade'
  BY <1>12 DEF KeyWasMade, At, Connect, Free, Sending
<1>13. ASSUME NEW c \in Conns, Notice(c) PROVE KeyWasMade'
  BY <1>13 DEF KeyWasMade, At, Notice
<1>14. ASSUME NEW c \in Conns, Arrive(c) PROVE KeyWasMade'
  BY <1>14 DEF KeyWasMade, At, Arrive, Handling
<1>15. ASSUME NEW c \in Conns, Guard(c) PROVE KeyWasMade'
  BY <1>15 DEF KeyWasMade, At, Guard, Moves, Handling, refuse, evaluate, secret_hash
<1>16. ASSUME NEW c \in Conns, Check(c) PROVE KeyWasMade'
  BY <1>16 DEF KeyWasMade, At, Check, Moves, Handling
<1>17. ASSUME NEW c \in Conns, Write(c) PROVE KeyWasMade'
  BY <1>17 DEF KeyWasMade, At, Write, Moves, Handling
<1>18. ASSUME NEW c \in Conns, Answer(c) PROVE KeyWasMade'
  BY <1>18 DEF KeyWasMade, At, Answer, AnswerWith
<1>19. ASSUME NEW c \in Conns, Vanish(c) PROVE KeyWasMade'
  BY <1>19 DEF KeyWasMade, At, Vanish
<1>20. ASSUME NEW c \in Conns, Disconnect(c) PROVE KeyWasMade'
  BY <1>20 DEF KeyWasMade, At, Disconnect
<1>21. ASSUME NEW c \in Conns, GuardUnavailable(c) PROVE KeyWasMade'
  BY <1>21 DEF KeyWasMade, At, GuardUnavailable, Moves, Handling, refuse
<1>22. ASSUME NEW c \in Conns, WriteFails(c) PROVE KeyWasMade'
  BY <1>22 DEF KeyWasMade, At, WriteFails, Moves, Handling
<1>23. ASSUME NEW c \in Conns, Reap(c) PROVE KeyWasMade'
  BY <1>23 DEF KeyWasMade, At, Reap
<1>24. ASSUME NEW k \in Tokens, InsertKey(k) PROVE KeyWasMade'
  BY <1>24 DEF KeyWasMade, At, InsertKey
<1>25. ASSUME NEW k \in Tokens, DeleteKey(k) PROVE KeyWasMade'
  BY <1>25 DEF KeyWasMade, At, DeleteKey
<1>26. CASE UNCHANGED vars
  BY <1>26 DEF KeyWasMade, At, vars
<1> QED
  BY <1>1, <1>2, <1>3, <1>4, <1>5, <1>6, <1>7, <1>8, <1>9, <1>10, <1>11, <1>12, <1>13, <1>14, <1>15, <1>16,
     <1>17, <1>18, <1>19, <1>20, <1>21, <1>22, <1>23, <1>24, <1>25, <1>26
     DEF Next, Forward, Serve, create_key, delete_key

\* The guard's look-up is behind every request that gets to its body.
LEMMA LateNeverEnters == IInv /\ [Next]_vars => LateIsOut'
<1> SUFFICES ASSUME IInv, [Next]_vars PROVE LateIsOut'
  OBVIOUS
<1> USE NoneAssumption, CapacityAssumption, KeyAssumption, FaultsAssumption
       DEF IInv, collector, receiver, Idle, TypeOK
<1>1. CASE TakeLive
  BY <1>1 DEF LateIsOut, KeyWasMade, At, TakeLive, Sending
<1>2. CASE SendRequest
  BY <1>2 DEF LateIsOut, KeyWasMade, At, SendRequest
<1>3. CASE Succeed
  BY <1>3 DEF LateIsOut, KeyWasMade, At, Succeed, Answered
<1>4. CASE Refused
  BY <1>4 DEF LateIsOut, KeyWasMade, At, Refused, Abandon, Answered
<1>5. CASE Broken
  BY <1>5 DEF LateIsOut, KeyWasMade, At, Broken, Abandon, Answered
<1>6. CASE Timeout
  BY <1>6 DEF LateIsOut, KeyWasMade, At, Timeout, Abandon, TimesOut
<1>7. CASE Crash
  BY <1>7 DEF LateIsOut, KeyWasMade, At, Crash
<1>8. CASE Restart
  BY <1>8 DEF LateIsOut, KeyWasMade, At, Restart
<1>9. CASE Stall
  BY <1>9 DEF LateIsOut, KeyWasMade, At, Stall
<1>10. CASE Recover
  BY <1>10 DEF LateIsOut, KeyWasMade, At, Recover
<1>11. ASSUME NEW p \in Posts, Accept(p) PROVE LateIsOut'
  BY <1>11 DEF LateIsOut, KeyWasMade, At, Accept, Newest
<1>12. ASSUME NEW c \in Conns, Connect(c) PROVE LateIsOut'
  BY <1>12 DEF LateIsOut, KeyWasMade, At, Connect, Free, Sending
<1>13. ASSUME NEW c \in Conns, Notice(c) PROVE LateIsOut'
  BY <1>13 DEF LateIsOut, KeyWasMade, At, Notice
<1>14. ASSUME NEW c \in Conns, Arrive(c) PROVE LateIsOut'
  BY <1>14 DEF LateIsOut, KeyWasMade, At, Arrive, Handling
<1>15. ASSUME NEW c \in Conns, Guard(c) PROVE LateIsOut'
  BY <1>15 DEF LateIsOut, KeyWasMade, At, Guard, Moves, Handling, refuse, evaluate, secret_hash
<1>16. ASSUME NEW c \in Conns, Check(c) PROVE LateIsOut'
  BY <1>16 DEF LateIsOut, KeyWasMade, At, Check, Moves, Handling
<1>17. ASSUME NEW c \in Conns, Write(c) PROVE LateIsOut'
  BY <1>17 DEF LateIsOut, KeyWasMade, At, Write, Moves, Handling
<1>18. ASSUME NEW c \in Conns, Answer(c) PROVE LateIsOut'
  BY <1>18 DEF LateIsOut, KeyWasMade, At, Answer, AnswerWith
<1>19. ASSUME NEW c \in Conns, Vanish(c) PROVE LateIsOut'
  BY <1>19 DEF LateIsOut, KeyWasMade, At, Vanish
<1>20. ASSUME NEW c \in Conns, Disconnect(c) PROVE LateIsOut'
  BY <1>20 DEF LateIsOut, KeyWasMade, At, Disconnect
<1>21. ASSUME NEW c \in Conns, GuardUnavailable(c) PROVE LateIsOut'
  BY <1>21 DEF LateIsOut, KeyWasMade, At, GuardUnavailable, Moves, Handling, refuse
<1>22. ASSUME NEW c \in Conns, WriteFails(c) PROVE LateIsOut'
  BY <1>22 DEF LateIsOut, KeyWasMade, At, WriteFails, Moves, Handling
<1>23. ASSUME NEW c \in Conns, Reap(c) PROVE LateIsOut'
  BY <1>23 DEF LateIsOut, KeyWasMade, At, Reap
<1>24. ASSUME NEW k \in Tokens, InsertKey(k) PROVE LateIsOut'
  BY <1>24 DEF LateIsOut, KeyWasMade, At, InsertKey
<1>25. ASSUME NEW k \in Tokens, DeleteKey(k) PROVE LateIsOut'
  BY <1>25 DEF LateIsOut, KeyWasMade, At, DeleteKey
<1>26. CASE UNCHANGED vars
  BY <1>26 DEF LateIsOut, KeyWasMade, At, vars
<1> QED
  BY <1>1, <1>2, <1>3, <1>4, <1>5, <1>6, <1>7, <1>8, <1>9, <1>10, <1>11, <1>12, <1>13, <1>14, <1>15, <1>16,
     <1>17, <1>18, <1>19, <1>20, <1>21, <1>22, <1>23, <1>24, <1>25, <1>26
     DEF Next, Forward, Serve, create_key, delete_key

---------------------------------------------------------------------------
THEOREM ExchangeInvariant == Spec => []IInv
<1>1. Init => IInv
  BY NoneAssumption, CapacityAssumption, FaultsAssumption
     DEF Init, IInv, TypeOK, Line, OneAtATime, TakenUpQuiet, Quiet, OneHolder, DroppedIsSilent,
         OwnAnswer, AnswerKnown, At, OkIsStored, KeyWasMade, LateIsOut, Idle
<1>2. IInv /\ [Next]_vars => IInv'
  BY Types, OneRequestPerConnection, AnswersHaveAStatus, OkAfterTheWrite, NothingBeforeTheKey,
     LateNeverEnters DEF IInv
<1> QED
  BY <1>1, <1>2, PTL DEF Spec

\* For any posts, limits, keys, connections and faults: the types are kept, and the
\* outbox stays within its bound.
THEOREM ExchangeTypeCorrect == Spec => []TypeOK
<1>1. IInv => TypeOK
  BY DEF IInv
<1> QED
  BY <1>1, ExchangeInvariant, PTL

\* What send returned Ok for has been committed by the receiver.
THEOREM ExchangeOkMeansStored == Spec => []OkMeansStored
<1>1. IInv => OkMeansStored
  BY DEF IInv, OkIsStored, OkMeansStored
<1> QED
  BY <1>1, ExchangeInvariant, PTL

\* No step stores a batch of a request that arrived after its key was revoked.
THEOREM ExchangeRevokedStaysOut == Spec => RevokedStaysOut
<1>1. IInv /\ [Next]_vars
      => [stored' # stored =>
            \E c \in Conns : /\ At(c, "write") /\ ~handler[c].late
                             /\ stored' = stored \cup {handler[c].batch}]_vars
  <2> SUFFICES ASSUME IInv, [Next]_vars, stored' # stored
               PROVE  \E c \in Conns : /\ At(c, "write") /\ ~handler[c].late
                                       /\ stored' = stored \cup {handler[c].batch}
    OBVIOUS
  <2>1. PICK c \in Conns : Write(c)
    BY DEF Next, vars, collector, receiver, Forward, Serve, create_key, delete_key, TakeLive,
           SendRequest, Succeed, Refused, Broken, Timeout, Abandon, Crash, Restart, Stall, Recover,
           Accept, Connect, Notice, Arrive, Guard, Check, Answer, AnswerWith, Vanish, Disconnect,
           GuardUnavailable, WriteFails, Reap, InsertKey, DeleteKey
  <2>2. ~handler[c].late
    BY <2>1 DEF Write, At, IInv, LateIsOut
  <2> QED
    BY <2>1, <2>2 DEF Write
<1> QED
  BY <1>1, ExchangeInvariant, PTL DEF Spec, RevokedStaysOut

=============================================================================
