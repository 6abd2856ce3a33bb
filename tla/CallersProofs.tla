--------------------------- MODULE CallersProofs ---------------------------
(***************************************************************************)
(* What callers of models and of tools promise whatever models and tools   *)
(* answer.  First agents and calls of Predict, for any number of either,   *)
(* of turns, repairs and calls: each tool call is answered before the      *)
(* model is asked again, the ledger of a run adds up and the summary of    *)
(* its trace tells what it returned, and the last reply decides a call of  *)
(* Predict.  Then tool calls through nested sessions, for any sessions,    *)
(* policies, calls and nesting of step executions: mutexes are owned,      *)
(* limits are exact, records are complete, no locks are waited for in a    *)
(* circle, and caches serve only what stands.                              *)
(***************************************************************************)
EXTENDS ModelCallers, ToolSession, ProofLemmas, FiniteSetTheorems

-----------------------------------------------------------------------------
(* The inductive invariant.  Types first: what messages, events, spans and  *)
(* results are.                                                              *)

MessageRecords == [role : {"none", "user", "assistant", "tool"}, calls : Seq(Nat), answers : Nat, repairs : Nat]

Kinds ==
  {"run_start", "turn_start", "llm_request", "llm_response", "tool_call_start", "tool_call_end", "turn_end", "run_end"}

Stops == {"", "complete", "length", "content_filter", "max_turns", "tool_error"}

EventRecords ==
  [kind : Kinds, turn : Nat, usage : Nat, calls : Seq(Nat), tool : Nat, stop : Stops, err : BOOLEAN]

SpanRecords == [kind : {"llm", "tool", "run"}, budgeted : Nat, unbudgeted : Nat]

LedgerRecords == [models : Nat, tools : Nat, turns : Nat, usage : Nat]

ResultRecords ==
  [turns : Nat, budgeted : Nat, unbudgeted : Nat, ledger : LedgerRecords, spans : Seq(SpanRecords),
   tools : Seq(Nat), stop : Stops, final : MessageRecords, failed : BOOLEAN]

AgentPlaces == {"start", "turn", "chat", "calling", "tools", "tool", "done"}

AgentTyped ==
  /\ pc \in [Runs -> AgentPlaces]
  /\ turn \in [Runs -> 0..MaxTurns]
  /\ transcript \in [Runs -> Seq(MessageRecords)]
  /\ todo \in [Runs -> Seq(Nat)]
  /\ result \in [Runs -> ResultRecords]
  /\ traces \in [Runs -> Seq(EventRecords)]

PredictPlaces == {"begin", "ask", "asking", "check", "tool", "returned"}

PredictTyped ==
  /\ accepts \in SUBSET Predicts
  /\ place \in [Predicts -> PredictPlaces]
  /\ sends \in [Predicts -> Seq(MessageRecords)]
  /\ answered \in [Predicts -> Seq(Answers)]
  /\ repairs \in [Predicts -> Seq(Nat)]
  /\ turns \in [Predicts -> 0..MaxToolTurns]
  /\ calls \in [Predicts -> Seq(Nat)]
  /\ out \in [Predicts -> Nat]
  /\ outcome \in [Predicts -> [prediction : Nat, failed : BOOLEAN]]

AdmittedTyped == admitted \in 0..CallLimit

\* Only the assistant calls tools.  The messages after its latest reply answer its calls in order,
\* and due are those that are left.
Owed(messages, due) ==
  /\ \A i \in DOMAIN messages : messages[i].calls # <<>> => messages[i].role = "assistant"
  /\ \A i \in DOMAIN messages : \A j \in DOMAIN messages[i].calls :
       IF i + j <= Len(messages)
       THEN messages[i + j] = Tool(messages[i].calls[j])
       ELSE i + j - Len(messages) \in DOMAIN due /\ due[i + j - Len(messages)] = messages[i].calls[j]
  /\ \A i \in DOMAIN messages :
       messages[i].role = "tool" => \E k \in 1..(i - 1) : i - k \in DOMAIN messages[k].calls
  /\ \A t \in DOMAIN due : \E k \in DOMAIN messages : Len(messages) + t - k \in DOMAIN messages[k].calls

\* Of the spans, n are of the kind, and they have used u.
OfKind(spans, kind) == {i \in DOMAIN spans : spans[i].kind = kind}

Costs(spans) == [i \in DOMAIN spans |-> Usage(spans[i])]

Booked(spans, kind, n, u) ==
  /\ IsFiniteSet(OfKind(spans, kind)) /\ Cardinality(OfKind(spans, kind)) = n
  /\ Finite(OfKind(spans, kind), Costs(spans)) /\ SumOf(OfKind(spans, kind), Costs(spans)) = u

\* The ledger counts the spans of chats and of tool calls, and what they used; the run has none yet.
Books(res) ==
  /\ \E u, v \in Nat :
       /\ Booked(res.spans, "llm", res.ledger.models, u)
       /\ Booked(res.spans, "tool", res.ledger.tools, v)
       /\ res.ledger.usage = u + v
  /\ Booked(res.spans, "run", 0, 0)

\* What a run that has not ended has spent.
Balanced(res) ==
  /\ Books(res)
  /\ Usage(res) = res.ledger.usage /\ res.ledger.models = res.turns
  /\ res.stop = "" /\ ~res.failed

\* A trace up to turn n tells the tool calls so far, and no end of the run ...
TellsCalls(trace, n, tools) ==
  /\ \A i \in DOMAIN trace : trace[i].turn <= n
  /\ Events(trace, "run_end") = <<>>
  /\ Len(Events(trace, "tool_call_end")) = Len(tools)
  /\ \A i \in DOMAIN tools : Events(trace, "tool_call_end")[i].tool = tools[i]

\* ... and no error.
Tells(trace, n, tools) == TellsCalls(trace, n, tools) /\ Errors(trace) = <<>>

\* A run at place p in turn n, with transcript m, calls due to run, result res and trace t.  It owes
\* answers only while it runs the tools of a reply, or when one failed.
RunTyped(p, n, m, due, res, t) ==
  /\ p \in AgentPlaces /\ n \in 0..MaxTurns /\ m \in Seq(MessageRecords) /\ m # <<>> /\ due \in Seq(Nat)
  /\ res \in ResultRecords /\ t \in Seq(EventRecords)

RunOwes(p, m, due, failed) ==
  /\ Owed(m, due)
  /\ p \in {"tools", "tool"} => due # <<>>
  /\ p \in {"start", "turn", "chat", "calling"} => due = <<>>
  /\ p = "done" /\ ~failed => due = <<>>

\* Some event of the trace is of turn n.
Reaches(trace, n) == \E i \in DOMAIN trace : trace[i].turn = n

RunGoesOn(p, n, res, t) ==
  /\ Balanced(res)
  /\ res.turns = IF p \in {"chat", "calling"} THEN n - 1 ELSE n
  /\ p \in {"start", "turn"} \/ n >= 1
  /\ p = "start" => n = 0
  /\ Tells(t, n, res.tools)
  /\ p # "start" => Reaches(t, n)

RunFits(p, n, m, due, res, t) ==
  /\ RunTyped(p, n, m, due, res, t)
  /\ RunOwes(p, m, due, res.failed)
  /\ p # "done" => RunGoesOn(p, n, res, t)
  /\ p = "done" => AddsUp(res, "done") /\ SummaryTells(t, res)

AgentInv ==
  /\ AgentTyped
  /\ \A r \in Runs : RunFits(pc[r], turn[r], transcript[r], todo[r], result[r], traces[r])

\* The replies of a call were usable, and its repairs and its tool turns are counted.
PredictKeeps(p) ==
  /\ \A k \in DOMAIN answered[p] :
       answered[p][k].finish # "filter" /\ (answered[p][k].finish = "length" => p \in accepts)
  /\ Len(repairs[p]) <= Len(answered[p])
  /\ place[p] = "check" => Len(answered[p]) = Len(repairs[p]) + 1
  /\ place[p] \in {"begin", "ask", "asking", "tool"} => Len(answered[p]) = Len(repairs[p])
  /\ place[p] = "check" /\ p \in Chats => Len(sends[p]) >= 1 /\ sends[p][Len(sends[p])] = Assistant(<<>>)
  /\ place[p] # "returned" => outcome[p] = [prediction |-> 0, failed |-> FALSE]
  /\ outcome[p].prediction <= Len(answered[p]) /\ out[p] <= Len(answered[p])

\* The messages of a call that call tools.
Calling(messages) == {i \in DOMAIN messages : messages[i].calls # <<>>}

PredictOwes(p) ==
  /\ Owed(sends[p], calls[p])
  /\ place[p] = "tool" => calls[p] # <<>>
  /\ place[p] \in {"begin", "ask", "asking", "check"} => calls[p] = <<>>
  /\ IsFiniteSet(Calling(sends[p])) /\ Cardinality(Calling(sends[p])) = turns[p]
  /\ p \notin Chats => turns[p] = 0

PredictInv ==
  /\ PredictTyped
  /\ \A p \in Predicts : PredictKeeps(p) /\ PredictOwes(p) /\ ReturnsLastReply(p) /\ RepairsLatest(p)

CallersInv == AdmittedTyped /\ AgentInv /\ PredictInv

-----------------------------------------------------------------------------
(* Messages. *)

\* What a message is.
LEMMA MessagesAre ==
  /\ User \in MessageRecords /\ User.role = "user" /\ User.calls = <<>> /\ NoMessage \in MessageRecords
  /\ \A n \in Nat : Repair(n) \in MessageRecords /\ Repair(n).role = "user" /\ Repair(n).calls = <<>>
  /\ \A c \in Seq(Nat) :
       Assistant(c) \in MessageRecords /\ Assistant(c).role = "assistant" /\ Assistant(c).calls = c
  /\ \A c \in Nat : Tool(c) \in MessageRecords /\ Tool(c).role = "tool" /\ Tool(c).calls = <<>>
<1>1. <<>> \in Seq(Nat)
  OBVIOUS
<1>. QED
  BY <1>1 DEF User, Repair, Assistant, Tool, NoMessage, MessageRecords

\* The calls of a message are a sequence.
LEMMA CallsOfMessages ==
  ASSUME NEW m \in Seq(MessageRecords)
  PROVE  \A i \in DOMAIN m : m[i] \in MessageRecords /\ m[i].calls \in Seq(Nat)
<1>1. \A i \in DOMAIN m : m[i] \in MessageRecords
  OBVIOUS
<1>2. \A e \in MessageRecords : e.calls \in Seq(Nat)
  BY DEF MessageRecords
<1>. QED
  BY <1>1, <1>2

\* Someone speaks when no answer is due: then the answers to what it calls are due.
LEMMA OwedSpeaks ==
  ASSUME NEW m \in Seq(MessageRecords), NEW e \in MessageRecords, Owed(m, <<>>), e.role # "tool",
         e.calls # <<>> => e.role = "assistant"
  PROVE  Owed(Append(m, e), e.calls)
<1>. DEFINE t == Append(m, e)
            L == Len(m)
<1>1. /\ L \in Nat /\ Len(t) = L + 1 /\ DOMAIN t = 1..(L + 1) /\ DOMAIN m = 1..L
      /\ t[L + 1] = e /\ \A i \in 1..L : t[i] = m[i]
  BY AppendIs
<1>2. \A i \in 1..L : m[i] \in MessageRecords /\ m[i].calls \in Seq(Nat)
  BY <1>1, CallsOfMessages
<1>3. e.calls \in Seq(Nat)
  BY DEF MessageRecords
<1>. HIDE DEF t, L
<1>4. ASSUME NEW i \in 1..L, NEW j \in DOMAIN m[i].calls
      PROVE  j \in Nat /\ j >= 1 /\ i + j <= L /\ m[i + j] = Tool(m[i].calls[j])
  <2>1. IF i + j <= L THEN m[i + j] = Tool(m[i].calls[j]) ELSE i + j - L \in DOMAIN <<>>
    BY <1>1 DEF Owed, L
  <2>2. DOMAIN <<>> = {} /\ j \in Nat /\ j >= 1
    BY <1>2
  <2>. QED
    BY <2>1, <2>2
<1>5. \A i \in DOMAIN t : t[i].calls # <<>> => t[i].role = "assistant"
  BY <1>1 DEF Owed
<1>6. ASSUME NEW i \in DOMAIN t, NEW j \in DOMAIN t[i].calls
      PROVE  IF i + j <= Len(t)
             THEN t[i + j] = Tool(t[i].calls[j])
             ELSE i + j - Len(t) \in DOMAIN e.calls /\ e.calls[i + j - Len(t)] = t[i].calls[j]
  <2>1. CASE i \in 1..L
    <3>1. j \in DOMAIN m[i].calls /\ t[i] = m[i]
      BY <1>1, <2>1
    <3>2. i + j \in 1..L /\ m[i + j] = Tool(m[i].calls[j])
      BY <1>1, <1>4, <2>1, <3>1
    <3>. QED
      BY <1>1, <3>1, <3>2
  <2>2. CASE i = L + 1
    <3>1. j \in DOMAIN e.calls /\ j \in Nat /\ j >= 1 /\ t[i] = e
      BY <1>1, <1>3, <2>2
    <3>2. ~(i + j <= Len(t)) /\ i + j - Len(t) = j
      BY <1>1, <2>2, <3>1
    <3>. QED
      BY <3>1, <3>2
  <2>. QED
    BY <1>1, <2>1, <2>2
<1>7. ASSUME NEW i \in DOMAIN t, t[i].role = "tool"
      PROVE  \E k \in 1..(i - 1) : i - k \in DOMAIN t[k].calls
  <2>1. i \in 1..L /\ m[i].role = "tool"
    BY <1>1, <1>7
  <2>2. PICK k \in 1..(i - 1) : i - k \in DOMAIN m[k].calls
    BY <1>1, <2>1 DEF Owed
  <2>3. t[k] = m[k]
    BY <1>1, <2>1, <2>2
  <2>. QED
    BY <2>2, <2>3
<1>8. ASSUME NEW j \in DOMAIN e.calls
      PROVE  \E k \in DOMAIN t : Len(t) + j - k \in DOMAIN t[k].calls
  <2>1. j \in Nat /\ Len(t) + j - (L + 1) = j /\ L + 1 \in DOMAIN t
    BY <1>1, <1>3
  <2>. QED
    BY <1>1, <2>1
<1>. QED
  BY <1>5, <1>6, <1>7, <1>8 DEF Owed, t

\* The first of the calls that are due is answered.
LEMMA OwedAnswers ==
  ASSUME NEW m \in Seq(MessageRecords), NEW due \in Seq(Nat), Owed(m, due), due # <<>>
  PROVE  Owed(Append(m, Tool(Head(due))), Tail(due))
<1>. DEFINE e == Tool(Head(due))
            t == Append(m, e)
            L == Len(m)
            rest == Tail(due)
<1>0. /\ Head(due) = due[1] /\ due[1] \in Nat /\ rest \in Seq(Nat) /\ Len(due) \in Nat /\ Len(due) # 0
      /\ Len(rest) = Len(due) - 1 /\ \A k \in 1..(Len(due) - 1) : rest[k] = due[k + 1]
  OBVIOUS
<1>0a. /\ e \in MessageRecords /\ e.role = "tool" /\ e.calls = <<>> /\ e = Tool(due[1])
  BY <1>0, MessagesAre
<1>. HIDE DEF e, rest
<1>1. /\ L \in Nat /\ Len(t) = L + 1 /\ DOMAIN t = 1..(L + 1) /\ DOMAIN m = 1..L
      /\ t[L + 1] = e /\ \A i \in 1..L : t[i] = m[i]
  BY <1>0a, AppendIs
<1>2. \A i \in 1..L : m[i] \in MessageRecords /\ m[i].calls \in Seq(Nat)
  BY <1>1, CallsOfMessages
<1>. HIDE DEF t, L
<1>3. DOMAIN <<>> = {} /\ DOMAIN e.calls = {} /\ DOMAIN rest = 1..(Len(due) - 1) /\ DOMAIN due = 1..Len(due)
  BY <1>0, <1>0a
<1>5. \A i \in DOMAIN t : t[i].calls # <<>> => t[i].role = "assistant"
  BY <1>0a, <1>1 DEF Owed
<1>6. ASSUME NEW i \in DOMAIN t, NEW j \in DOMAIN t[i].calls
      PROVE  IF i + j <= Len(t)
             THEN t[i + j] = Tool(t[i].calls[j])
             ELSE i + j - Len(t) \in DOMAIN rest /\ rest[i + j - Len(t)] = t[i].calls[j]
  <2>1. i \in 1..L /\ t[i] = m[i] /\ j \in DOMAIN m[i].calls
    BY <1>1, <1>3
  <2>2. j \in Nat /\ j >= 1
    BY <1>2, <2>1
  <2>3. IF i + j <= L
        THEN m[i + j] = Tool(m[i].calls[j])
        ELSE i + j - L \in DOMAIN due /\ due[i + j - L] = m[i].calls[j]
    BY <1>1, <2>1 DEF Owed, L
  <2>4. CASE i + j <= L
    BY <1>1, <2>1, <2>2, <2>3, <2>4
  <2>5. CASE i + j = L + 1
    <3>1. i + j - L = 1 /\ ~(i + j <= L)
      BY <1>1, <2>1, <2>2, <2>5
    <3>2. m[i].calls[j] = due[1]
      BY <2>3, <3>1
    <3>. QED
      BY <1>0a, <1>1, <2>1, <2>5, <3>2
  <2>6. CASE i + j > L + 1
    <3>. DEFINE q == i + j - (L + 1)
    <3>1. q \in Int /\ i + j - L = q + 1 /\ q >= 1 /\ ~(i + j <= L) /\ ~(i + j <= L + 1) /\ i + j - Len(t) = q
      BY <1>1, <2>1, <2>2, <2>6
    <3>. HIDE DEF q
    <3>2. q + 1 \in 1..Len(due) /\ due[q + 1] = m[i].calls[j]
      BY <1>3, <2>3, <3>1
    <3>3. q \in 1..(Len(due) - 1) /\ rest[q] = due[q + 1]
      BY <1>0, <3>1, <3>2
    <3>. QED
      BY <1>1, <1>3, <2>1, <3>1, <3>2, <3>3
  <2>. QED
    BY <1>1, <2>1, <2>2, <2>4, <2>5, <2>6
<1>7. ASSUME NEW i \in DOMAIN t, t[i].role = "tool"
      PROVE  \E k \in 1..(i - 1) : i - k \in DOMAIN t[k].calls
  <2>1. CASE i \in 1..L
    <3>1. m[i].role = "tool"
      BY <1>1, <1>7, <2>1
    <3>2. PICK k \in 1..(i - 1) : i - k \in DOMAIN m[k].calls
      BY <1>1, <2>1, <3>1 DEF Owed
    <3>3. t[k] = m[k]
      BY <1>1, <2>1, <3>2
    <3>. QED
      BY <3>2, <3>3
  <2>2. CASE i = L + 1
    <3>1. 1 \in DOMAIN due
      BY <1>0, <1>3
    <3>2. PICK k \in 1..L : L + 1 - k \in DOMAIN m[k].calls
      BY <1>1, <3>1 DEF Owed, L
    <3>3. t[k] = m[k] /\ k \in 1..(i - 1) /\ i - k = L + 1 - k
      BY <1>1, <2>2, <3>2
    <3>. QED
      BY <3>2, <3>3
  <2>. QED
    BY <1>1, <2>1, <2>2
<1>8. ASSUME NEW j \in DOMAIN rest
      PROVE  \E k \in DOMAIN t : Len(t) + j - k \in DOMAIN t[k].calls
  <2>1. j + 1 \in DOMAIN due /\ j \in Int
    BY <1>0, <1>3, SMTT(20)
  <2>2. PICK k \in 1..L : L + (j + 1) - k \in DOMAIN m[k].calls
    BY <1>1, <2>1 DEF Owed, L
  <2>3. t[k] = m[k] /\ k \in DOMAIN t /\ Len(t) + j - k = L + (j + 1) - k
    BY <1>1, <2>1, <2>2
  <2>. QED
    BY <2>2, <2>3
<1>. QED
  BY <1>5, <1>6, <1>7, <1>8 DEF Owed, t, e, rest

\* When no answer is due, each call has been answered.
LEMMA OwedNone ==
  ASSUME NEW m \in Seq(MessageRecords), Owed(m, <<>>)
  PROVE  EachAnswered(m)
<1>1. DOMAIN <<>> = {} /\ Len(m) \in Nat /\ DOMAIN m = 1..Len(m)
  OBVIOUS
<1>2. \A i \in DOMAIN m : m[i].calls \in Seq(Nat)
  BY CallsOfMessages
<1>3. ASSUME NEW i \in DOMAIN m, NEW j \in DOMAIN m[i].calls
      PROVE  i + j \in DOMAIN m /\ m[i + j] = Tool(m[i].calls[j])
  <2>1. j \in Nat
    BY <1>2
  <2>2. i + j <= Len(m) /\ m[i + j] = Tool(m[i].calls[j])
    BY <1>1 DEF Owed
  <2>. QED
    BY <1>1, <2>1, <2>2
<1>. QED
  BY <1>3 DEF Owed, EachAnswered

\* A single request owes nothing.
LEMMA OwedFirst ==
  ASSUME NEW e \in MessageRecords, e.role # "tool", e.calls = <<>>
  PROVE  <<e>> \in Seq(MessageRecords) /\ Owed(<<e>>, <<>>)
<1>1. DOMAIN <<>> = {} /\ DOMAIN <<e>> = {1} /\ <<e>>[1] = e
  OBVIOUS
<1>. QED
  BY <1>1 DEF Owed

-----------------------------------------------------------------------------
(* Spans. *)

\* A span that is appended is booked.
LEMMA BookAppends ==
  ASSUME NEW s \in Seq(SpanRecords), NEW e \in SpanRecords, NEW kind, NEW n \in Nat, NEW u \in Nat,
         Booked(s, kind, n, u)
  PROVE  /\ e.kind = kind => Booked(Append(s, e), kind, n + 1, u + Usage(e))
         /\ e.kind # kind => Booked(Append(s, e), kind, n, u)
<1>. DEFINE t == Append(s, e)
            L == Len(s)
            A == OfKind(s, kind)
            f == Costs(s)
            g == Costs(t)
<1>1. /\ L \in Nat /\ DOMAIN t = 1..(L + 1) /\ DOMAIN s = 1..L
      /\ t[L + 1] = e /\ \A i \in 1..L : t[i] = s[i]
  BY AppendIs
<1>2. IsFiniteSet(A) /\ Cardinality(A) = n /\ Finite(A, f) /\ SumOf(A, f) = u
  BY DEF Booked
<1>3. A \subseteq 1..L /\ L + 1 \notin A
  BY <1>1 DEF OfKind
<1>4. (\A i \in A : g[i] = f[i]) /\ g[L + 1] = Usage(e)
  BY <1>1, <1>3 DEF Costs
<1>5. Usage(e) \in Nat
  BY DEF Usage, SpanRecords
<1>6. ASSUME e.kind = kind
      PROVE  OfKind(t, kind) = A \union {L + 1}
  BY <1>1, <1>6 DEF OfKind
<1>7. ASSUME e.kind # kind
      PROVE  OfKind(t, kind) = A
  BY <1>1, <1>7 DEF OfKind
<1>. HIDE DEF t, L, A, f, g
<1>8. Finite(A, g) /\ SumOf(A, g) = u
  <2>1. Dots(A, g) = Dots(A, f)
    BY <1>4, SumSame
  <2>. QED
    BY <1>2, <2>1 DEF Finite, SumOf
<1>9. ASSUME e.kind = kind
      PROVE  Booked(t, kind, n + 1, u + Usage(e))
  <2>. DEFINE x == L + 1
  <2>1. x \notin A /\ g[x] = Usage(e) /\ g[x] \in Nat
    BY <1>3, <1>4, <1>5
  <2>. HIDE DEF x
  <2>2. IsFiniteSet(A \union {x}) /\ Cardinality(A \union {x}) = n + 1
    BY <1>2, <2>1, FS_AddElement
  <2>3. Finite(A \union {x}, g) /\ SumOf(A \union {x}, g) = u + Usage(e)
    <3>1. Finite(A \union {x}, g) /\ SumOf(A \union {x}, g) = SumOf(A, g) + g[x]
      BY <1>8, <2>1, SumTakes
    <3>. QED
      BY <1>8, <2>1, <3>1
  <2>. QED
    BY <1>6, <1>9, <2>2, <2>3 DEF Booked, x, g
<1>10. ASSUME e.kind # kind
       PROVE  Booked(t, kind, n, u)
  BY <1>2, <1>7, <1>8, <1>10 DEF Booked, g
<1>. QED
  BY <1>9, <1>10 DEF t

\* What is booked is what LedgerAddsUp counts and sums.
LEMMA BookedAddsUp ==
  ASSUME NEW s \in Seq(SpanRecords), NEW kind, NEW n, NEW u, Booked(s, kind, n, u)
  PROVE  MapThenSumSet(LAMBDA i : Usage(s[i]), OfKind(s, kind)) = u
<1>. DEFINE A == OfKind(s, kind)
            g == [i \in A |-> Usage(s[i])]
            Step(f) == [x \in SUBSET A |-> IF x = {} THEN 0 ELSE Usage(s[Some(x)]) + f[x \ {Some(x)}]]
            iter == CHOOSE f : f = Step(f)
<1>0. A \subseteq DOMAIN s /\ \A i \in A : s[i] \in SpanRecords
  BY DEF OfKind
<1>1. g \in [A -> Nat] /\ \A i \in A : g[i] = Costs(s)[i]
  BY <1>0 DEF Costs, Usage, SpanRecords
<1>1a. IsFiniteSet(A) /\ SumOf(A, Costs(s)) = u
  BY DEF Booked
<1>2. \A f : f = Step(f) <=> IsFold(A, g, f)
  <2>1. ASSUME NEW f, NEW x \in SUBSET A
        PROVE  FoldBody(g, f, x) = IF x = {} THEN 0 ELSE Usage(s[Some(x)]) + f[x \ {Some(x)}]
    <3>1. x # {} => Some(x) \in A
      BY DEF Some
    <3>2. x # {} => g[Some(x)] = Usage(s[Some(x)])
      BY <3>1
    <3>. HIDE DEF g
    <3>. QED
      BY <3>2 DEF FoldBody
  <2>. HIDE DEF g
  <2>. QED
    BY <2>1 DEF IsFold
<1>. HIDE DEF A
<1>3. IsFold(A, g, iter)
  <2>1. g \in [A -> Int]
    BY <1>1
  <2>2. \E f : IsFold(A, g, f)
    <3>. HIDE DEF g
    <3>. QED
      BY <1>1a, <2>1, FoldExists
  <2>3. \E f : f = Step(f)
    <3>. HIDE DEF g, Step
    <3>. QED
      BY <1>2, <2>2
  <2>4. iter = Step(iter)
    <3>. HIDE DEF g, Step
    <3>. QED
      BY <2>3
  <2>. HIDE DEF g, Step, iter
  <2>. QED
    BY <1>2, <2>4
<1>4. iter[A] = SumOf(A, g)
  <2>. HIDE DEF g, iter
  <2>. QED
    BY <1>1, <1>1a, <1>3, FoldIsSum
<1>5. SumOf(A, g) = u
  <2>. HIDE DEF g
  <2>1. Dots(A, g) = Dots(A, Costs(s))
    BY <1>1, SumSame
  <2>. QED
    BY <1>1a, <2>1 DEF SumOf
<1>6. MapThenSumSet(LAMBDA i : Usage(s[i]), A) = iter[A]
  BY DEF MapThenSumSet, MapThenFoldSet, Some
<1>. QED
  BY <1>4, <1>5, <1>6 DEF A

-----------------------------------------------------------------------------
(* Traces. *)

\* An event that is appended is the last of its kind.
LEMMA EventsAppend ==
  ASSUME NEW t \in Seq(EventRecords), NEW e \in EventRecords, NEW kind
  PROVE  /\ Events(t, kind) \in Seq(EventRecords)
         /\ e.kind = kind => Events(Append(t, e), kind) = Append(Events(t, kind), e)
         /\ e.kind # kind => Events(Append(t, e), kind) = Events(t, kind)
<1>. DEFINE S(q) == [i \in DOMAIN q |-> IF q[i].kind = kind THEN <<q[i]>> ELSE <<>>]
            one == IF e.kind = kind THEN <<e>> ELSE <<>>
            p == FlattenSeq(S(t))
<1>1. S(t) \in Seq(Seq(EventRecords)) /\ one \in Seq(EventRecords)
  <2>1. \A i \in DOMAIN t : t[i] \in EventRecords /\ <<t[i]>> \in Seq(EventRecords)
    OBVIOUS
  <2>2. \A i \in DOMAIN t : S(t)[i] \in Seq(EventRecords)
    BY <2>1
  <2>3. DOMAIN S(t) = 1..Len(t) /\ Len(t) \in Nat
    OBVIOUS
  <2>. QED
    BY <2>2, <2>3
<1>2. S(Append(t, e)) = Append(S(t), one)
  <2>. DEFINE u == Append(t, e)
              L == Len(t)
  <2>1. /\ L \in Nat /\ DOMAIN u = 1..(L + 1) /\ DOMAIN t = 1..L
        /\ u[L + 1] = e /\ \A i \in 1..L : u[i] = t[i]
    BY AppendIs
  <2>. HIDE DEF u, L
  <2>2. /\ S(u) = [i \in 1..(L + 1) |-> IF i = L + 1 THEN one ELSE S(t)[i]]
        /\ DOMAIN S(t) = 1..L
    BY <2>1
  <2>. HIDE DEF S, one
  <2>3. Append(S(t), one) = [i \in 1..(L + 1) |-> IF i = L + 1 THEN one ELSE S(t)[i]]
    <3>1. \A T : \A a \in Seq(T) : \A b \in T :
            Append(a, b) = [i \in 1..(Len(a) + 1) |-> IF i = Len(a) + 1 THEN b ELSE a[i]]
      BY AppendShape
    <3>2. Len(S(t)) = L
      BY <1>1, <2>1, <2>2
    <3>. QED
      BY <1>1, <3>1, <3>2
  <2>. QED
    BY <2>2, <2>3 DEF u
<1>3. p \in Seq(EventRecords) /\ FlattenSeq(S(Append(t, e))) = p \o one
  <2>. HIDE DEF S, one
  <2>. QED
    BY <1>1, <1>2, FlattenAppends
<1>4. p = Events(t, kind) /\ FlattenSeq(S(Append(t, e))) = Events(Append(t, e), kind)
  BY DEF Events
<1>. HIDE DEF p
<1>5. /\ e.kind = kind => p \o one = Append(p, e)
      /\ e.kind # kind => p \o one = p
  BY <1>3
<1>. HIDE DEF S, one
<1>. QED
  BY <1>3, <1>4, <1>5

\* An event that is appended tells its error, if any, last.
LEMMA ErrorsAppend ==
  ASSUME NEW t \in Seq(EventRecords), NEW e \in EventRecords
  PROVE  /\ Errors(t) \in Seq(Kinds)
         /\ e.err => Errors(Append(t, e)) = Append(Errors(t), e.kind)
         /\ ~e.err => Errors(Append(t, e)) = Errors(t)
<1>. DEFINE S(q) == [i \in DOMAIN q |-> IF q[i].err THEN <<q[i].kind>> ELSE <<>>]
            one == IF e.err THEN <<e.kind>> ELSE <<>>
            p == FlattenSeq(S(t))
<1>1. S(t) \in Seq(Seq(Kinds)) /\ one \in Seq(Kinds)
  <2>0. \A k \in Kinds : <<k>> \in Seq(Kinds)
    OBVIOUS
  <2>1. (\A i \in DOMAIN t : t[i].kind \in Kinds) /\ e.kind \in Kinds /\ <<>> \in Seq(Kinds)
    <3>1. \A i \in DOMAIN t : t[i] \in EventRecords
      OBVIOUS
    <3>. QED
      BY <3>1 DEF EventRecords
  <2>2. (\A i \in DOMAIN t : S(t)[i] \in Seq(Kinds)) /\ one \in Seq(Kinds)
    BY <2>0, <2>1
  <2>3. DOMAIN S(t) = 1..Len(t) /\ Len(t) \in Nat
    OBVIOUS
  <2>. QED
    BY <2>2, <2>3
<1>2. S(Append(t, e)) = Append(S(t), one)
  <2>. DEFINE u == Append(t, e)
              L == Len(t)
  <2>1. /\ L \in Nat /\ DOMAIN u = 1..(L + 1) /\ DOMAIN t = 1..L
        /\ u[L + 1] = e /\ \A i \in 1..L : u[i] = t[i]
    BY AppendIs
  <2>. HIDE DEF u, L
  <2>2. /\ S(u) = [i \in 1..(L + 1) |-> IF i = L + 1 THEN one ELSE S(t)[i]]
        /\ DOMAIN S(t) = 1..L
    BY <2>1
  <2>. HIDE DEF S, one
  <2>3. Append(S(t), one) = [i \in 1..(L + 1) |-> IF i = L + 1 THEN one ELSE S(t)[i]]
    <3>1. \A T : \A a \in Seq(T) : \A b \in T :
            Append(a, b) = [i \in 1..(Len(a) + 1) |-> IF i = Len(a) + 1 THEN b ELSE a[i]]
      BY AppendShape
    <3>2. Len(S(t)) = L
      BY <1>1, <2>1, <2>2
    <3>. QED
      BY <1>1, <3>1, <3>2
  <2>. QED
    BY <2>2, <2>3 DEF u
<1>3. p \in Seq(Kinds) /\ FlattenSeq(S(Append(t, e))) = p \o one
  <2>. HIDE DEF S, one
  <2>. QED
    BY <1>1, <1>2, FlattenAppends
<1>4. p = Errors(t) /\ FlattenSeq(S(Append(t, e))) = Errors(Append(t, e))
  BY DEF Errors
<1>. HIDE DEF p
<1>5. /\ e.err => p \o one = Append(p, e.kind)
      /\ ~e.err => p \o one = p
  <2>1. e.kind \in Kinds
    BY DEF EventRecords
  <2>. QED
    BY <1>3, <2>1
<1>. HIDE DEF S, one
<1>. QED
  BY <1>3, <1>4, <1>5

-----------------------------------------------------------------------------
(* Results. *)

\* The result of a run that has done nothing balances.
LEMMA NewBalances == NewResult \in ResultRecords /\ Balanced(NewResult)
<1>1. NewResult \in ResultRecords
  <2>1. <<>> \in Seq(SpanRecords) /\ <<>> \in Seq(Nat)
    OBVIOUS
  <2>2. NoMessage \in MessageRecords
    BY MessagesAre
  <2>3. [models |-> 0, tools |-> 0, turns |-> 0, usage |-> 0] \in LedgerRecords
    BY DEF LedgerRecords
  <2>. QED
    BY <2>1, <2>2, <2>3 DEF NewResult, ResultRecords, Stops
<1>2. ASSUME NEW kind
      PROVE  Booked(<<>>, kind, 0, 0)
  <2>1. OfKind(<<>>, kind) = {}
    BY DEF OfKind
  <2>2. Finite({}, Costs(<<>>)) /\ SumOf({}, Costs(<<>>)) = 0
    BY SumOfZeros
  <2>. QED
    BY <2>1, <2>2, FS_EmptySet DEF Booked
<1>3. Books(NewResult)
  BY <1>2 DEF Books, NewResult
<1>4. NewResult.budgeted = 0 /\ NewResult.unbudgeted = 0
  BY DEF NewResult
<1>5. /\ NewResult.ledger.usage = 0
      /\ NewResult.ledger.models = 0 /\ NewResult.turns = 0 /\ NewResult.stop = "" /\ NewResult.failed = FALSE
  BY DEF NewResult
<1>. QED
  <2>1. Usage(NewResult) = 0
    BY <1>4 DEF Usage
  <2>2. NewResult.stop = "" /\ ~NewResult.failed
    BY <1>5
  <2>. QED
    BY <1>1, <1>3, <1>5, <2>1, <2>2 DEF Balanced

\* x is res with one more chat on its books, of usage u.
OneChatMore(x, res, u) ==
  /\ x \in ResultRecords
  /\ x.turns = res.turns /\ x.budgeted = res.budgeted /\ x.unbudgeted = res.unbudgeted
  /\ x.ledger.models = res.ledger.models + 1 /\ x.ledger.tools = res.ledger.tools
  /\ x.ledger.turns = res.ledger.turns /\ x.ledger.usage = res.ledger.usage + u
  /\ x.spans = Append(res.spans, Span("llm", u, 0)) /\ Span("llm", u, 0) \in SpanRecords
  /\ x.tools = res.tools /\ x.stop = res.stop /\ x.failed = res.failed

\* What recording a chat changes.
LEMMA ChatSpentIs ==
  ASSUME NEW res \in ResultRecords, NEW u \in Nat, NEW failed
  PROVE  OneChatMore(ChatSpent(res, u, failed), res, u)
<1>1. Span("llm", u, 0) \in SpanRecords
  BY DEF Span, SpanRecords
<1>2. res.spans \in Seq(SpanRecords) /\ res.ledger \in LedgerRecords
  BY DEF ResultRecords
<1>3. Append(res.spans, Span("llm", u, 0)) \in Seq(SpanRecords)
  BY <1>1, <1>2, AppendIs
<1>. DEFINE l == [res.ledger EXCEPT !.models = @ + 1, !.usage = @ + u]
            s == Append(res.spans, Span("llm", u, 0))
            x == [res EXCEPT !.ledger = l, !.spans = s]
<1>4. l \in LedgerRecords /\ l.models = res.ledger.models + 1 /\ l.tools = res.ledger.tools
      /\ l.turns = res.ledger.turns /\ l.usage = res.ledger.usage + u
  <2>. DEFINE a == res.ledger.models + 1
              b == res.ledger.usage + u
  <2>1. l = [res.ledger EXCEPT !.models = a, !.usage = b]
    OBVIOUS
  <2>2. a \in Nat /\ b \in Nat
    BY <1>2 DEF LedgerRecords
  <2>. HIDE DEF l, a, b
  <2>3. /\ l \in LedgerRecords /\ l.models = a /\ l.tools = res.ledger.tools
        /\ l.turns = res.ledger.turns /\ l.usage = b
    BY <1>2, <2>1, <2>2 DEF LedgerRecords
  <2>. QED
    BY <2>3 DEF a, b
<1>5. ChatSpent(res, u, failed) = x
  BY DEF ChatSpent, ResultRecords
<1>. HIDE DEF l, s
<1>6. /\ x \in ResultRecords /\ x.ledger = l /\ x.spans = s
      /\ x.turns = res.turns /\ x.budgeted = res.budgeted /\ x.unbudgeted = res.unbudgeted
      /\ x.tools = res.tools /\ x.stop = res.stop /\ x.failed = res.failed
  BY <1>3, <1>4 DEF ResultRecords, s
<1>. HIDE DEF x
<1>. QED
  BY <1>1, <1>4, <1>5, <1>6 DEF s, OneChatMore

\* A chat's span is booked in the ledger.
LEMMA ChatBooked ==
  ASSUME NEW res \in ResultRecords, Books(res), NEW u \in Nat, NEW x \in ResultRecords,
         x.spans = Append(res.spans, Span("llm", u, 0)), x.ledger.models = res.ledger.models + 1,
         x.ledger.tools = res.ledger.tools, x.ledger.usage = res.ledger.usage + u
  PROVE  Books(x)
<1>. DEFINE e == Span("llm", u, 0)
<1>1. e \in SpanRecords /\ e.kind = "llm" /\ Usage(e) = u
  BY DEF Span, SpanRecords, Usage
<1>2. /\ res.spans \in Seq(SpanRecords) /\ res.ledger.models \in Nat /\ res.ledger.tools \in Nat
  BY DEF ResultRecords, LedgerRecords
<1>3. PICK a, b \in Nat :
        /\ Booked(res.spans, "llm", res.ledger.models, a)
        /\ Booked(res.spans, "tool", res.ledger.tools, b)
        /\ res.ledger.usage = a + b
  BY DEF Books
<1>4. Booked(res.spans, "run", 0, 0)
  BY DEF Books
<1>. HIDE DEF e
<1>5. /\ Booked(Append(res.spans, e), "llm", res.ledger.models + 1, a + u)
      /\ Booked(Append(res.spans, e), "tool", res.ledger.tools, b)
      /\ Booked(Append(res.spans, e), "run", 0, 0)
  BY <1>1, <1>2, <1>3, <1>4, BookAppends
<1>6. a + u \in Nat /\ res.ledger.usage + u = (a + u) + b
  BY <1>3
<1>7. /\ Booked(x.spans, "llm", x.ledger.models, a + u)
      /\ Booked(x.spans, "tool", x.ledger.tools, b)
      /\ x.ledger.usage = (a + u) + b
      /\ Booked(x.spans, "run", 0, 0)
  BY <1>5, <1>6 DEF e
<1>. QED
  BY <1>6, <1>7 DEF Books

\* A tool call's span is booked in the ledger.
LEMMA ToolBooked ==
  ASSUME NEW res \in ResultRecords, Books(res), NEW a \in Nat, NEW b \in Nat, NEW x \in ResultRecords,
         x.spans = Append(res.spans, Span("tool", a, b)), x.ledger.models = res.ledger.models,
         x.ledger.tools = res.ledger.tools + 1, x.ledger.usage = res.ledger.usage + a + b
  PROVE  Books(x)
<1>. DEFINE e == Span("tool", a, b)
<1>1. e \in SpanRecords /\ e.kind = "tool" /\ Usage(e) = a + b
  BY DEF Span, SpanRecords, Usage
<1>2. /\ res.spans \in Seq(SpanRecords) /\ res.ledger.models \in Nat /\ res.ledger.tools \in Nat
  BY DEF ResultRecords, LedgerRecords
<1>3. PICK u, v \in Nat :
        /\ Booked(res.spans, "llm", res.ledger.models, u)
        /\ Booked(res.spans, "tool", res.ledger.tools, v)
        /\ res.ledger.usage = u + v
  BY DEF Books
<1>4. Booked(res.spans, "run", 0, 0)
  BY DEF Books
<1>. HIDE DEF e
<1>5. /\ Booked(Append(res.spans, e), "llm", res.ledger.models, u)
      /\ Booked(Append(res.spans, e), "tool", res.ledger.tools + 1, v + (a + b))
      /\ Booked(Append(res.spans, e), "run", 0, 0)
  BY <1>1, <1>2, <1>3, <1>4, BookAppends
<1>6. v + (a + b) \in Nat /\ res.ledger.usage + a + b = u + (v + (a + b))
  BY <1>3
<1>7. /\ Booked(x.spans, "llm", x.ledger.models, u)
      /\ Booked(x.spans, "tool", x.ledger.tools, v + (a + b))
      /\ x.ledger.usage = u + (v + (a + b))
      /\ Booked(x.spans, "run", 0, 0)
  BY <1>5, <1>6 DEF e
<1>. QED
  BY <1>3, <1>6, <1>7 DEF Books

\* What ending a run changes.
LEMMA FinishRunIs ==
  ASSUME NEW res \in ResultRecords, NEW failed \in BOOLEAN
  PROVE  LET z == FinishRun(res, failed)
         IN /\ z \in ResultRecords
            /\ z.turns = res.turns /\ z.budgeted = res.budgeted /\ z.unbudgeted = res.unbudgeted
            /\ z.ledger.models = res.ledger.models /\ z.ledger.tools = res.ledger.tools
            /\ z.ledger.usage = res.ledger.usage
            /\ z.spans = Append(res.spans, Span("run", res.budgeted, res.unbudgeted))
            /\ Span("run", res.budgeted, res.unbudgeted) \in SpanRecords
            /\ z.tools = res.tools /\ z.stop = res.stop /\ z.failed = failed
<1>1. Span("run", res.budgeted, res.unbudgeted) \in SpanRecords
  BY DEF Span, SpanRecords, ResultRecords
<1>2. res.spans \in Seq(SpanRecords) /\ res.ledger \in LedgerRecords
  BY DEF ResultRecords
<1>. DEFINE l == [res.ledger EXCEPT !.turns = res.turns]
            s == Append(res.spans, Span("run", res.budgeted, res.unbudgeted))
            z == [res EXCEPT !.ledger = l, !.spans = s, !.failed = failed]
<1>3. s \in Seq(SpanRecords)
  BY <1>1, <1>2, AppendIs
<1>4. l \in LedgerRecords /\ l.models = res.ledger.models /\ l.tools = res.ledger.tools
      /\ l.usage = res.ledger.usage
  <2>1. res.turns \in Nat
    BY DEF ResultRecords
  <2>. QED
    BY <1>2, <2>1 DEF LedgerRecords
<1>5. FinishRun(res, failed) = z
  BY DEF FinishRun, ResultRecords
<1>. HIDE DEF l, s
<1>6. /\ z \in ResultRecords /\ z.ledger = l /\ z.spans = s
      /\ z.turns = res.turns /\ z.budgeted = res.budgeted /\ z.unbudgeted = res.unbudgeted
      /\ z.tools = res.tools /\ z.stop = res.stop /\ z.failed = failed
  BY <1>3, <1>4 DEF ResultRecords
<1>. HIDE DEF z
<1>. QED
  BY <1>1, <1>4, <1>5, <1>6 DEF s

\* The greatest element of a set is the one that bounds it.
LEMMA MaxIs ==
  ASSUME NEW S \in SUBSET Int, NEW x \in S, \A y \in S : y <= x
  PROVE  Max(S) = x
<1>1. \A y \in S : (\A z \in S : y >= z) => y = x
  OBVIOUS
<1>2. \A z \in S : x >= z
  OBVIOUS
<1>. QED
  BY <1>1, <1>2 DEF Max

\* The run pays for what its ledger counts but for the chat that failed last, if any.
Paid(res, failed) ==
  \/ Usage(res) = res.ledger.usage /\ res.ledger.models = res.turns
  \/ /\ failed /\ res.ledger.models > res.turns
     /\ res.spans # <<>> /\ res.spans[Len(res.spans)].kind = "llm"
     /\ Usage(res) = res.ledger.usage - Usage(res.spans[Len(res.spans)])

\* A run whose books are kept and that has paid ends with results that add up.
LEMMA FinishAddsUp ==
  ASSUME NEW res \in ResultRecords, NEW failed \in BOOLEAN, Books(res), Paid(res, failed)
  PROVE  AddsUp(FinishRun(res, failed), "done")
<1>. DEFINE z == FinishRun(res, failed)
            e == Span("run", res.budgeted, res.unbudgeted)
            L == Len(res.spans)
<1>1. /\ z \in ResultRecords
      /\ z.turns = res.turns /\ z.budgeted = res.budgeted /\ z.unbudgeted = res.unbudgeted
      /\ z.ledger.models = res.ledger.models /\ z.ledger.tools = res.ledger.tools
      /\ z.ledger.usage = res.ledger.usage
      /\ z.spans = Append(res.spans, e) /\ z.failed = failed
  BY FinishRunIs
<1>2. e \in SpanRecords /\ e.kind = "run" /\ Usage(e) = Usage(res) /\ Usage(z) = Usage(res) /\ Usage(res) \in Nat
  BY <1>1 DEF Span, SpanRecords, Usage, ResultRecords
<1>3. /\ res.spans \in Seq(SpanRecords) /\ res.ledger.models \in Nat /\ res.ledger.tools \in Nat
      /\ z.spans \in Seq(SpanRecords)
  BY <1>1 DEF ResultRecords, LedgerRecords
<1>4. PICK u, v \in Nat :
        /\ Booked(res.spans, "llm", res.ledger.models, u)
        /\ Booked(res.spans, "tool", res.ledger.tools, v)
        /\ res.ledger.usage = u + v
  BY DEF Books
<1>5. Booked(res.spans, "run", 0, 0)
  BY DEF Books
<1>. HIDE DEF e, z
<1>6. /\ Booked(z.spans, "llm", z.ledger.models, u)
      /\ Booked(z.spans, "tool", z.ledger.tools, v)
      /\ Booked(z.spans, "run", 0 + 1, 0 + Usage(e))
  BY <1>1, <1>2, <1>3, <1>4, <1>5, BookAppends
<1>7. /\ MapThenSumSet(LAMBDA i : Usage(z.spans[i]), OfKind(z.spans, "llm")) = u
      /\ MapThenSumSet(LAMBDA i : Usage(z.spans[i]), OfKind(z.spans, "tool")) = v
      /\ MapThenSumSet(LAMBDA i : Usage(z.spans[i]), OfKind(z.spans, "run")) = 0 + Usage(e)
  <2>. DEFINE s == z.spans
  <2>1. s \in Seq(SpanRecords)
    BY <1>3
  <2>2. /\ Booked(s, "llm", z.ledger.models, u)
        /\ Booked(s, "tool", z.ledger.tools, v)
        /\ Booked(s, "run", 0 + 1, 0 + Usage(e))
    BY <1>6
  <2>. HIDE DEF s
  <2>3. MapThenSumSet(LAMBDA i : Usage(s[i]), OfKind(s, "llm")) = u
    BY <2>1, <2>2, BookedAddsUp
  <2>4. MapThenSumSet(LAMBDA i : Usage(s[i]), OfKind(s, "tool")) = v
    BY <2>1, <2>2, BookedAddsUp
  <2>5. MapThenSumSet(LAMBDA i : Usage(s[i]), OfKind(s, "run")) = 0 + Usage(e)
    BY <2>1, <2>2, BookedAddsUp
  <2>. QED
    BY <2>3, <2>4, <2>5 DEF s
<1>8. Usage(z) = z.ledger.usage - (IF z.failed /\ z.ledger.models > z.turns
                                   THEN Usage(z.spans[Max(OfKind(z.spans, "llm"))]) ELSE 0)
  <2>1. CASE Usage(res) = res.ledger.usage /\ res.ledger.models = res.turns
    <3>1. ~(z.ledger.models > z.turns)
      BY <1>1, <1>3, <2>1
    <3>. QED
      BY <1>1, <1>2, <2>1, <3>1
  <2>2. CASE /\ failed /\ res.ledger.models > res.turns
             /\ res.spans # <<>> /\ res.spans[L].kind = "llm"
             /\ Usage(res) = res.ledger.usage - Usage(res.spans[L])
    <3>1. /\ L \in Nat /\ L >= 1 /\ DOMAIN z.spans = 1..(L + 1) /\ z.spans[L + 1] = e
          /\ z.spans[L] = res.spans[L]
      BY <1>1, <1>2, <1>3, <2>2, AppendIs
    <3>. HIDE DEF L
    <3>2. L \in OfKind(z.spans, "llm") /\ L + 1 \notin OfKind(z.spans, "llm") /\ OfKind(z.spans, "llm") \subseteq 1..(L + 1)
      BY <1>2, <2>2, <3>1 DEF OfKind
    <3>3. \A y \in OfKind(z.spans, "llm") : y <= L
      BY <3>1, <3>2
    <3>4. Max(OfKind(z.spans, "llm")) = L
      <4>. DEFINE S == OfKind(z.spans, "llm")
      <4>1. S \in SUBSET Int /\ L \in S /\ \A y \in S : y <= L
        BY <3>1, <3>2, <3>3
      <4>. HIDE DEF S
      <4>2. Max(S) = L
        BY <4>1, MaxIs
      <4>. QED
        BY <4>2 DEF S
    <3>. QED
      BY <1>1, <1>2, <2>2, <3>1, <3>4
  <2>. QED
    BY <2>1, <2>2 DEF Paid
<1>9. z.ledger.usage = u + v
  BY <1>1, <1>4
<1>10. z.ledger.models = Cardinality(OfKind(z.spans, "llm")) /\ z.ledger.tools = Cardinality(OfKind(z.spans, "tool"))
  BY <1>6 DEF Booked
<1>11. 0 + Usage(e) = Usage(z)
  BY <1>2
<1>12. Cardinality(OfKind(z.spans, "run")) = 1
  BY <1>6 DEF Booked
<1>. QED
  BY <1>7, <1>8, <1>9, <1>10, <1>11, <1>12 DEF AddsUp, OfKind, z

\* What a run that goes on has spent adds up.
LEMMA BalancedAddsUp ==
  ASSUME NEW res \in ResultRecords, Balanced(res), NEW p, p # "done"
  PROVE  AddsUp(res, p)
<1>. DEFINE s == res.spans
<1>1. s \in Seq(SpanRecords) /\ Usage(res) \in Nat
  BY DEF ResultRecords, Usage
<1>2. PICK u, v \in Nat :
        /\ Booked(s, "llm", res.ledger.models, u)
        /\ Booked(s, "tool", res.ledger.tools, v)
        /\ res.ledger.usage = u + v
  BY DEF Balanced, Books
<1>3. Booked(s, "run", 0, 0) /\ Usage(res) = res.ledger.usage /\ ~res.failed
  BY DEF Balanced, Books
<1>. HIDE DEF s
<1>4. MapThenSumSet(LAMBDA i : Usage(s[i]), OfKind(s, "llm")) = u
  BY <1>1, <1>2, BookedAddsUp
<1>5. MapThenSumSet(LAMBDA i : Usage(s[i]), OfKind(s, "tool")) = v
  BY <1>1, <1>2, BookedAddsUp
<1>6. MapThenSumSet(LAMBDA i : Usage(s[i]), OfKind(s, "run")) = 0
  BY <1>1, <1>3, BookedAddsUp
<1>7. /\ res.ledger.models = Cardinality(OfKind(s, "llm")) /\ res.ledger.tools = Cardinality(OfKind(s, "tool"))
      /\ Cardinality(OfKind(s, "run")) = 0
  BY <1>2, <1>3 DEF Booked
<1>8. Usage(res) = res.ledger.usage - 0
  BY <1>1, <1>3
<1>. QED
  BY <1>2, <1>3, <1>4, <1>5, <1>6, <1>7, <1>8 DEF AddsUp, OfKind, s

-----------------------------------------------------------------------------
(* Events that are recorded. *)

\* What an event is.
LEMMA EventIs ==
  ASSUME NEW kind \in Kinds, NEW n \in Nat, NEW res \in ResultRecords
  PROVE  /\ Event(kind, n, res) \in EventRecords /\ Event(kind, n, res).kind = kind
         /\ Event(kind, n, res).turn = n /\ Event(kind, n, res).usage = Usage(res)
         /\ ~Event(kind, n, res).err
<1>1. Usage(res) \in Nat
  BY DEF Usage, ResultRecords
<1>2. <<>> \in Seq(Nat) /\ "" \in Stops
  BY DEF Stops
<1>. QED
  BY <1>1, <1>2 DEF Event, EventRecords

\* What the event of a run's end is.
LEMMA RunEndIs ==
  ASSUME NEW n \in Nat, NEW res \in ResultRecords
  PROVE  LET e == RunEnd(n, res)
         IN /\ e \in EventRecords /\ e.kind = "run_end" /\ e.turn = n /\ e.usage = Usage(res)
            /\ e.stop = res.stop /\ (e.err <=> res.failed)
<1>. DEFINE a == Event("run_end", n, res)
<1>1. a \in EventRecords /\ a.kind = "run_end" /\ a.turn = n /\ a.usage = Usage(res)
  BY EventIs DEF Kinds
<1>2. res.stop \in Stops /\ res.failed \in BOOLEAN
  BY DEF ResultRecords
<1>3. RunEnd(n, res) = [a EXCEPT !.stop = res.stop, !.err = res.failed]
  BY DEF RunEnd
<1>. HIDE DEF a
<1>. QED
  BY <1>1, <1>2, <1>3 DEF EventRecords

\* An event without an error that ends neither the run nor a tool call tells nothing more.
LEMMA TellsMore ==
  ASSUME NEW t \in Seq(EventRecords), NEW e \in EventRecords, NEW n \in Nat, NEW k \in Nat, NEW tools,
         Tells(t, n, tools), n <= k, e.turn <= k, e.kind # "run_end", e.kind # "tool_call_end", ~e.err
  PROVE  Append(t, e) \in Seq(EventRecords) /\ Tells(Append(t, e), k, tools)
<1>. DEFINE u == Append(t, e)
            L == Len(t)
<1>1. /\ u \in Seq(EventRecords) /\ L \in Nat /\ DOMAIN u = 1..(L + 1) /\ DOMAIN t = 1..L
      /\ u[L + 1] = e /\ \A i \in 1..L : u[i] = t[i]
  BY AppendIs
<1>2. /\ Events(u, "run_end") = Events(t, "run_end") /\ Events(u, "tool_call_end") = Events(t, "tool_call_end")
      /\ Errors(u) = Errors(t)
  BY EventsAppend, ErrorsAppend
<1>. HIDE DEF u, L
<1>3. \A i \in 1..L : t[i].turn \in Nat /\ t[i].turn <= n
  <2>1. \A i \in 1..L : t[i] \in EventRecords
    BY <1>1
  <2>. QED
    BY <1>1, <2>1 DEF Tells, TellsCalls, EventRecords
<1>4. \A i \in DOMAIN u : u[i].turn <= k
  BY <1>1, <1>3
<1>. QED
  BY <1>1, <1>2, <1>4 DEF Tells, TellsCalls, u

\* The end of a tool call tells one more.
LEMMA TellsCall ==
  ASSUME NEW t \in Seq(EventRecords), NEW e \in EventRecords, NEW n \in Nat, NEW tools \in Seq(Nat), NEW c \in Nat,
         Tells(t, n, tools), e.turn <= n, e.kind = "tool_call_end", e.tool = c
  PROVE  /\ Append(t, e) \in Seq(EventRecords) /\ TellsCalls(Append(t, e), n, Append(tools, c))
         /\ ~e.err => Tells(Append(t, e), n, Append(tools, c))
<1>. DEFINE u == Append(t, e)
            L == Len(t)
            E == Events(t, "tool_call_end")
            F == Events(u, "tool_call_end")
            q == Append(tools, c)
            K == Len(tools)
<1>1. /\ u \in Seq(EventRecords) /\ L \in Nat /\ DOMAIN u = 1..(L + 1) /\ DOMAIN t = 1..L
      /\ u[L + 1] = e /\ \A i \in 1..L : u[i] = t[i]
  BY AppendIs
<1>2. /\ Events(u, "run_end") = Events(t, "run_end") /\ E \in Seq(EventRecords) /\ F = Append(E, e)
      /\ ~e.err => Errors(u) = Errors(t)
  BY EventsAppend, ErrorsAppend
<1>3. /\ K \in Nat /\ Len(q) = K + 1 /\ DOMAIN q = 1..(K + 1) /\ DOMAIN tools = 1..K
      /\ q[K + 1] = c /\ \A i \in 1..K : q[i] = tools[i]
  BY AppendIs
<1>4. Events(t, "run_end") = <<>> /\ Errors(t) = <<>> /\ Len(E) = K /\ \A i \in 1..K : E[i].tool = tools[i]
  BY <1>3 DEF Tells, TellsCalls
<1>. HIDE DEF u, L, E, q, K, F
<1>5. Len(F) = K + 1 /\ F[K + 1] = e /\ \A i \in 1..K : F[i] = E[i]
  <2>1. Len(F) = Len(E) + 1 /\ F[Len(E) + 1] = e /\ \A i \in 1..Len(E) : F[i] = E[i]
    BY <1>2, AppendIs
  <2>. QED
    BY <1>4, <2>1
<1>6. \A i \in 1..(K + 1) : F[i].tool = q[i]
  BY <1>3, <1>4, <1>5
<1>7. \A i \in DOMAIN u : u[i].turn <= n
  BY <1>1 DEF Tells, TellsCalls
<1>8. TellsCalls(u, n, q)
  BY <1>2, <1>3, <1>4, <1>5, <1>6, <1>7 DEF TellsCalls, F
<1>9. ~e.err => Tells(u, n, q)
  BY <1>2, <1>4, <1>8 DEF Tells
<1>. QED
  BY <1>1, <1>8, <1>9 DEF u, q

\* A trace that is longer reaches no less.
LEMMA ReachesMore ==
  ASSUME NEW t \in Seq(EventRecords), NEW e \in EventRecords, NEW n, Reaches(t, n) \/ e.turn = n
  PROVE  Reaches(Append(t, e), n)
<1>1. /\ Len(t) \in Nat /\ DOMAIN Append(t, e) = 1..(Len(t) + 1) /\ DOMAIN t = 1..Len(t)
      /\ Append(t, e)[Len(t) + 1] = e /\ \A i \in 1..Len(t) : Append(t, e)[i] = t[i]
  BY AppendIs
<1>. QED
  BY <1>1 DEF Reaches

\* The turns a run reports: its last chat may not have answered.
Reported(res) == IF res.failed /\ res.stop # "tool_error" THEN res.turns + 1 ELSE res.turns

\* A trace that has come to the end of the run.
Complete(t, n, res) ==
  /\ \A i \in DOMAIN t : t[i].turn <= n
  /\ Reaches(t, n) /\ n = Reported(res)
  /\ t[Len(t)].usage = Usage(res)
  /\ Len(Events(t, "tool_call_end")) = Len(res.tools)
  /\ \A i \in DOMAIN res.tools : Events(t, "tool_call_end")[i].tool = res.tools[i]
  /\ Errors(t) = ErrorsTold(res)
  /\ \E e : Events(t, "run_end") = <<e>> /\ e.stop = res.stop

\* The summary of such a trace tells what the run returned.
LEMMA CompleteTells ==
  ASSUME NEW t \in Seq(EventRecords), NEW n \in Nat, NEW res \in ResultRecords, Complete(t, n, res)
  PROVE  SummaryTells(t, res)
<1>. DEFINE seen == {t[i].turn : i \in DOMAIN t}
            ends == Events(t, "tool_call_end")
            last == Events(t, "run_end")
<1>1. n \in seen /\ \A m \in seen : m <= n
  BY DEF Complete, Reaches
<1>2. seen \in SUBSET Nat
  <2>1. \A i \in DOMAIN t : t[i] \in EventRecords
    OBVIOUS
  <2>. QED
    BY <2>1 DEF EventRecords
<1>. HIDE DEF seen
<1>3. (CHOOSE k \in seen : \A m \in seen : m <= k) = n
  <2>1. \A k \in seen : (\A m \in seen : m <= k) => k = n
    BY <1>1, <1>2
  <2>. QED
    BY <1>1, <2>1
<1>4. [i \in DOMAIN ends |-> ends[i].tool] = res.tools
  <2>1. res.tools \in Seq(Nat) /\ ends \in Seq(EventRecords)
    <3>1. ends \in Seq(EventRecords)
      <4>1. \E e : e \in EventRecords
        <5>1. 0 \in Nat /\ NewResult \in ResultRecords /\ "run_start" \in Kinds
          BY NewBalances DEF Kinds
        <5>. QED
          BY <5>1, EventIs
      <4>. QED
        BY <4>1, EventsAppend
    <3>. QED
      BY <3>1 DEF ResultRecords
  <2>2. Len(ends) = Len(res.tools) /\ \A i \in DOMAIN res.tools : ends[i].tool = res.tools[i]
    BY DEF Complete
  <2>. DEFINE q == res.tools
  <2>. HIDE DEF ends, q
  <2>3. q \in Seq(Nat) /\ DOMAIN ends = 1..Len(q) /\ DOMAIN q = 1..Len(q) /\ \A i \in 1..Len(q) : ends[i].tool = q[i]
    BY <2>1, <2>2 DEF q
  <2>4. q = [i \in DOMAIN q |-> q[i]]
    <3>1. q \in [1..Len(q) -> Nat]
      BY <2>3
    <3>2. \A f \in [1..Len(q) -> Nat] : f = [i \in DOMAIN f |-> f[i]]
      OBVIOUS
    <3>. QED
      BY <3>1, <3>2
  <2>5. [i \in DOMAIN ends |-> ends[i].tool] = [i \in DOMAIN q |-> q[i]]
    BY <2>3
  <2>. QED
    BY <2>4, <2>5 DEF q
<1>5. (IF last = <<>> THEN "" ELSE Last(last).stop) = res.stop
  <2>1. PICK e : last = <<e>> /\ e.stop = res.stop
    BY DEF Complete
  <2>2. last # <<>> /\ Last(last) = e
    <3>1. <<e>> # <<>> /\ Len(<<e>>) = 1 /\ <<e>>[1] = e
      OBVIOUS
    <3>. HIDE DEF last
    <3>. QED
      BY <2>1, <3>1 DEF Last
  <2>. QED
    BY <2>1, <2>2
<1>6. Last(t).usage = Usage(res) /\ Errors(t) = ErrorsTold(res)
  BY DEF Complete, Last
<1>7. Summary(t) = [turns |-> n, tokens |-> Usage(res), tools |-> res.tools, errors |-> ErrorsTold(res), stop |-> res.stop]
  BY <1>3, <1>4, <1>5, <1>6 DEF Summary, seen
<1>8. n = IF res.failed /\ res.stop # "tool_error" THEN res.turns + 1 ELSE res.turns
  BY DEF Complete, Reported
<1>. QED
  BY <1>7, <1>8 DEF SummaryTells

\* What is recorded at once is recorded one by one.
LEMMA RecordedOneByOne ==
  ASSUME NEW T, NEW t \in Seq(T), NEW a \in T, NEW b \in T, NEW c \in T
  PROVE  /\ t \o <<a>> = Append(t, a)
         /\ t \o <<a, b>> = Append(Append(t, a), b)
         /\ t \o <<a, b, c>> = Append(Append(Append(t, a), b), c)
<1>. DEFINE L == Len(t)
            p == <<a, b>>
            q == <<a, b, c>>
            x == Append(t, a)
            y == Append(x, b)
            z == Append(y, c)
<1>1. L \in Nat /\ x \in Seq(T) /\ Len(x) = L + 1 /\ x[L + 1] = a /\ \A i \in 1..L : x[i] = t[i]
  BY AppendIs
<1>. HIDE DEF x
<1>2. y \in Seq(T) /\ Len(y) = L + 2 /\ y[L + 2] = b /\ \A i \in 1..(L + 1) : y[i] = x[i]
  <2>1. y \in Seq(T) /\ Len(y) = Len(x) + 1 /\ y[Len(x) + 1] = b /\ \A i \in 1..Len(x) : y[i] = x[i]
    BY <1>1, AppendIs
  <2>2. Len(x) + 1 = L + 2
    BY <1>1
  <2>. QED
    BY <1>1, <2>1, <2>2
<1>. HIDE DEF y
<1>3. z \in Seq(T) /\ Len(z) = L + 3 /\ z[L + 3] = c /\ \A i \in 1..(L + 2) : z[i] = y[i]
  <2>1. z \in Seq(T) /\ Len(z) = Len(y) + 1 /\ z[Len(y) + 1] = c /\ \A i \in 1..Len(y) : z[i] = y[i]
    BY <1>2, AppendIs
  <2>2. Len(y) + 1 = L + 3
    BY <1>1, <1>2
  <2>. QED
    BY <1>2, <2>1, <2>2
<1>. HIDE DEF z
<1>4. t \o <<a>> = x
  BY DEF x
<1>5. p \in Seq(T) /\ Len(p) = 2 /\ p[1] = a /\ p[2] = b
  OBVIOUS
<1>6. q \in Seq(T) /\ Len(q) = 3 /\ q[1] = a /\ q[2] = b /\ q[3] = c
  OBVIOUS
<1>. HIDE DEF p, q, L
<1>7. t \o p = y
  <2>1. /\ t \o p \in Seq(T) /\ Len(t \o p) = L + 2
        /\ \A i \in 1..L : (t \o p)[i] = t[i]
        /\ \A i \in 1..2 : (t \o p)[L + i] = p[i]
    <3>1. /\ t \o p \in Seq(T) /\ Len(t \o p) = Len(t) + Len(p)
          /\ \A i \in 1..Len(t) : (t \o p)[i] = t[i]
          /\ \A i \in 1..Len(p) : (t \o p)[Len(t) + i] = p[i]
      <4>1. p \in Seq(T)
        BY <1>5
      <4>. QED
        BY <4>1, ConcatIs
    <3>. QED
      BY <1>5, <3>1 DEF L
  <2>2. 1 \in 1..2 /\ 2 \in 1..2
    OBVIOUS
  <2>. DEFINE w == t \o p
  <2>. HIDE DEF w
  <2>3. w[L + 1] = a /\ w[L + 2] = b
    BY <1>5, <2>1, <2>2 DEF w
  <2>4. \A i \in 1..(L + 2) : w[i] = y[i]
    <3>1. \A i \in 1..(L + 2) : i \in 1..L \/ i = L + 1 \/ i = L + 2
      BY <1>1
    <3>2. \A i \in 1..L : w[i] = y[i]
      BY <1>1, <1>2, <2>1 DEF w
    <3>. QED
      BY <1>1, <1>2, <2>3, <3>1, <3>2
  <2>5. w \in Seq(T) /\ Len(w) = L + 2
    BY <2>1 DEF w
  <2>6. w = y
    BY <1>1, <1>2, <2>4, <2>5, SameSequence
  <2>. QED
    BY <2>6 DEF w
<1>8. t \o q = z
  <2>1. /\ t \o q \in Seq(T) /\ Len(t \o q) = L + 3
        /\ \A i \in 1..L : (t \o q)[i] = t[i]
        /\ \A i \in 1..3 : (t \o q)[L + i] = q[i]
    <3>1. /\ t \o q \in Seq(T) /\ Len(t \o q) = Len(t) + Len(q)
          /\ \A i \in 1..Len(t) : (t \o q)[i] = t[i]
          /\ \A i \in 1..Len(q) : (t \o q)[Len(t) + i] = q[i]
      <4>1. q \in Seq(T)
        BY <1>6
      <4>. QED
        BY <4>1, ConcatIs
    <3>. QED
      BY <1>6, <3>1 DEF L
  <2>2. 1 \in 1..3 /\ 2 \in 1..3 /\ 3 \in 1..3
    OBVIOUS
  <2>. DEFINE w == t \o q
  <2>. HIDE DEF w
  <2>3. w[L + 1] = a /\ w[L + 2] = b /\ w[L + 3] = c
    BY <1>6, <2>1, <2>2 DEF w
  <2>4. \A i \in 1..(L + 3) : w[i] = z[i]
    <3>1. \A i \in 1..(L + 3) : i \in 1..L \/ i = L + 1 \/ i = L + 2 \/ i = L + 3
      BY <1>1
    <3>2. \A i \in 1..L : w[i] = z[i]
      BY <1>1, <1>2, <1>3, <2>1 DEF w
    <3>. QED
      BY <1>1, <1>2, <1>3, <2>3, <3>1, <3>2
  <2>5. w \in Seq(T) /\ Len(w) = L + 3
    BY <2>1 DEF w
  <2>6. w = z
    BY <1>1, <1>2, <1>3, <2>4, <2>5, SameSequence
  <2>. QED
    BY <2>6 DEF w
<1>. QED
  BY <1>4, <1>7, <1>8 DEF p, q, x, y, z

\* The event of the run's end completes the trace.
LEMMA EndCompletes ==
  ASSUME NEW t \in Seq(EventRecords), NEW e \in EventRecords, NEW n \in Nat, NEW res \in ResultRecords,
         Tells(t, n, res.tools), Reaches(t, n), n = Reported(res), e.kind = "run_end", e.turn <= n,
         e.usage = Usage(res), e.stop = res.stop, (e.err <=> res.failed), res.stop # "tool_error"
  PROVE  Append(t, e) \in Seq(EventRecords) /\ Complete(Append(t, e), n, res)
<1>. DEFINE u == Append(t, e)
            L == Len(t)
<1>1. /\ u \in Seq(EventRecords) /\ L \in Nat /\ DOMAIN u = 1..(L + 1) /\ DOMAIN t = 1..L /\ Len(u) = L + 1
      /\ u[L + 1] = e /\ \A i \in 1..L : u[i] = t[i]
  BY AppendIs
<1>2. /\ Events(u, "run_end") = Append(Events(t, "run_end"), e) /\ Events(u, "tool_call_end") = Events(t, "tool_call_end")
      /\ e.err => Errors(u) = Append(Errors(t), e.kind)
      /\ ~e.err => Errors(u) = Errors(t)
  BY EventsAppend, ErrorsAppend
<1>3. Reaches(u, n)
  BY ReachesMore
<1>. HIDE DEF u, L
<1>4. Events(u, "run_end") = <<e>>
  BY <1>2, AppendToNone DEF Tells, TellsCalls
<1>5. \A i \in DOMAIN u : u[i].turn <= n
  BY <1>1 DEF Tells, TellsCalls
<1>6. u[Len(u)].usage = Usage(res)
  BY <1>1
<1>7. /\ Len(Events(u, "tool_call_end")) = Len(res.tools)
      /\ \A i \in DOMAIN res.tools : Events(u, "tool_call_end")[i].tool = res.tools[i]
  BY <1>2 DEF Tells, TellsCalls
<1>8. Errors(u) = ErrorsTold(res)
  <2>1. Errors(t) = <<>> /\ Append(<<>>, "run_end") = <<"run_end">>
    BY AppendToNone DEF Tells, TellsCalls
  <2>2. CASE res.failed = TRUE
    BY <1>2, <2>1, <2>2 DEF ErrorsTold
  <2>3. CASE res.failed = FALSE
    BY <1>2, <2>1, <2>3 DEF ErrorsTold
  <2>4. res.failed \in BOOLEAN
    BY DEF ResultRecords
  <2>. QED
    BY <2>2, <2>3, <2>4
<1>. QED
  BY <1>1, <1>3, <1>4, <1>5, <1>6, <1>7, <1>8 DEF Complete, u

\* So do the event of the run's end and then that of the call that failed.
LEMMA EndThenCallCompletes ==
  ASSUME NEW t \in Seq(EventRecords), NEW e \in EventRecords, NEW f \in EventRecords, NEW n \in Nat,
         NEW res \in ResultRecords, NEW tools \in Seq(Nat), NEW c \in Nat, res.tools = Append(tools, c),
         Tells(t, n, tools), Reaches(t, n), n = Reported(res), e.kind = "run_end", e.turn <= n, e.stop = res.stop,
         f.kind = "tool_call_end", f.turn <= n, f.tool = c, f.usage = Usage(res),
         e.err, f.err, res.failed = TRUE, res.stop = "tool_error"
  PROVE  /\ Append(Append(t, e), f) \in Seq(EventRecords)
         /\ Complete(Append(Append(t, e), f), n, res)
<1>. DEFINE s == Append(t, f)
            v == Append(t, e)
            u == Append(v, f)
            L == Len(t)
<1>1. TellsCalls(s, n, res.tools)
  BY TellsCall
<1>2. /\ v \in Seq(EventRecords) /\ L \in Nat /\ DOMAIN v = 1..(L + 1) /\ DOMAIN t = 1..L /\ Len(v) = L + 1
      /\ v[L + 1] = e /\ \A i \in 1..L : v[i] = t[i]
  BY AppendIs
<1>3. /\ Events(s, "tool_call_end") = Append(Events(t, "tool_call_end"), f)
      /\ Events(v, "tool_call_end") = Events(t, "tool_call_end")
      /\ Events(v, "run_end") = Append(Events(t, "run_end"), e)
      /\ Errors(v) = Append(Errors(t), e.kind)
  BY EventsAppend, ErrorsAppend
<1>4. Reaches(v, n)
  BY ReachesMore
<1>. HIDE DEF v, L, s
<1>5. /\ u \in Seq(EventRecords) /\ DOMAIN u = 1..(L + 2) /\ Len(u) = L + 2
      /\ u[L + 2] = f /\ \A i \in 1..(L + 1) : u[i] = v[i]
  <2>1. /\ u \in Seq(EventRecords) /\ Len(u) = Len(v) + 1
        /\ u[Len(v) + 1] = f /\ \A i \in 1..Len(v) : u[i] = v[i]
    BY <1>2, AppendIs
  <2>2. Len(v) + 1 = L + 2
    BY <1>2
  <2>. HIDE DEF u
  <2>. QED
    BY <1>2, <2>1, <2>2
<1>6. /\ Events(u, "tool_call_end") = Append(Events(v, "tool_call_end"), f)
      /\ Events(u, "run_end") = Events(v, "run_end")
      /\ Errors(u) = Append(Errors(v), f.kind)
  BY <1>2, EventsAppend, ErrorsAppend
<1>7. Reaches(u, n)
  BY <1>2, <1>4, ReachesMore
<1>. HIDE DEF u
<1>8. Events(u, "tool_call_end") = Events(s, "tool_call_end") /\ Events(u, "run_end") = <<e>>
  BY <1>3, <1>6, AppendToNone DEF Tells, TellsCalls
<1>9. \A i \in DOMAIN u : u[i].turn <= n
  BY <1>2, <1>5, SMTT(20) DEF Tells, TellsCalls
<1>10. u[Len(u)].usage = Usage(res)
  BY <1>5
<1>11. /\ Len(Events(u, "tool_call_end")) = Len(res.tools)
       /\ \A i \in DOMAIN res.tools : Events(u, "tool_call_end")[i].tool = res.tools[i]
  BY <1>1, <1>8 DEF Tells, TellsCalls
<1>12. Errors(u) = ErrorsTold(res)
  <2>1. Errors(t) = <<>>
    BY DEF Tells
  <2>2. Errors(v) = <<"run_end">>
    BY <1>3, <2>1, AppendToNone
  <2>3. Errors(u) = <<"run_end", "tool_call_end">>
    BY <1>6, <2>2, AppendToOne
  <2>. QED
    BY <2>3 DEF ErrorsTold
<1>13. Complete(u, n, res)
  BY <1>7, <1>8, <1>9, <1>10, <1>11, <1>12 DEF Complete
<1>. QED
  BY <1>5, <1>13 DEF u, v

-----------------------------------------------------------------------------
(* The steps of a run. *)

\* A run moves to another place, turn, transcript, calls due, result and trace.
RunMoves(r, p, n, m, due, res, t) ==
  /\ pc' = [pc EXCEPT ![r] = p] /\ turn' = [turn EXCEPT ![r] = n]
  /\ transcript' = [transcript EXCEPT ![r] = m] /\ todo' = [todo EXCEPT ![r] = due]
  /\ result' = [result EXCEPT ![r] = res] /\ traces' = [traces EXCEPT ![r] = t]

\* A run that moves to where it fits keeps the invariant.
LEMMA MovesKeep ==
  ASSUME AgentInv, NEW r \in Runs, NEW p, NEW n, NEW m, NEW due, NEW res, NEW t,
         RunFits(p, n, m, due, res, t), RunMoves(r, p, n, m, due, res, t)
  PROVE  AgentInv'
<1>1. RunTyped(p, n, m, due, res, t)
  BY DEF RunFits
<1>2. AgentTyped'
  BY <1>1 DEF AgentInv, AgentTyped, RunMoves, RunTyped
<1>3. ASSUME NEW s \in Runs
      PROVE  RunFits(pc'[s], turn'[s], transcript'[s], todo'[s], result'[s], traces'[s])
  <2>1. CASE s = r
    <3>1. /\ pc'[s] = p /\ turn'[s] = n /\ transcript'[s] = m /\ todo'[s] = due
          /\ result'[s] = res /\ traces'[s] = t
      BY <2>1 DEF AgentInv, AgentTyped, RunMoves
    <3>. QED
      BY <3>1
  <2>2. CASE s # r
    <3>1. /\ pc'[s] = pc[s] /\ turn'[s] = turn[s] /\ transcript'[s] = transcript[s] /\ todo'[s] = todo[s]
          /\ result'[s] = result[s] /\ traces'[s] = traces[s]
      BY <2>2 DEF AgentInv, AgentTyped, RunMoves
    <3>2. RunFits(pc[s], turn[s], transcript[s], todo[s], result[s], traces[s])
      BY DEF AgentInv
    <3>. QED
      BY <3>1, <3>2
  <2>. QED
    BY <2>1, <2>2
<1>. QED
  BY <1>2, <1>3 DEF AgentInv

\* What does not change is what it is.
LEMMA RunAsItIs ==
  ASSUME AgentTyped, NEW r \in Runs
  PROVE  /\ pc = [pc EXCEPT ![r] = pc[r]] /\ turn = [turn EXCEPT ![r] = turn[r]]
         /\ transcript = [transcript EXCEPT ![r] = transcript[r]] /\ todo = [todo EXCEPT ![r] = todo[r]]
         /\ result = [result EXCEPT ![r] = result[r]] /\ traces = [traces EXCEPT ![r] = traces[r]]
  BY DEF AgentTyped

\* What the invariant says of a run.
LEMMA RunIs ==
  ASSUME AgentInv, NEW r \in Runs
  PROVE  /\ RunTyped(pc[r], turn[r], transcript[r], todo[r], result[r], traces[r])
         /\ RunOwes(pc[r], transcript[r], todo[r], result[r].failed)
         /\ pc[r] # "done" => RunGoesOn(pc[r], turn[r], result[r], traces[r])
         /\ turn[r] \in Nat
  BY RunAssumption DEF AgentInv, RunFits, RunTyped

\* The run starts, or begins a turn, or sends a request, or starts a tool call: an event is recorded.
LEMMA RecordKeeps ==
  ASSUME AgentInv, NEW r \in Runs, NEW p \in {"turn", "chat", "calling", "tool"}, NEW n \in 0..MaxTurns,
         NEW e \in EventRecords, pc[r] # "done", e.turn <= n, turn[r] <= n, e.kind # "run_end", e.kind # "tool_call_end",
         ~e.err,
         e.turn = n \/ (pc[r] # "start" /\ n = turn[r]),
         result[r].turns = IF p \in {"chat", "calling"} THEN n - 1 ELSE n, p = "turn" \/ n >= 1,
         IF p = "tool" THEN todo[r] # <<>> ELSE todo[r] = <<>>
  PROVE  RunFits(p, n, transcript[r], todo[r], result[r], Append(traces[r], e))
<1>1. /\ RunTyped(pc[r], turn[r], transcript[r], todo[r], result[r], traces[r])
      /\ RunOwes(pc[r], transcript[r], todo[r], result[r].failed)
      /\ RunGoesOn(pc[r], turn[r], result[r], traces[r]) /\ turn[r] \in Nat
  BY RunIs
<1>2. n \in Nat
  BY RunAssumption
<1>3. traces[r] \in Seq(EventRecords) /\ Tells(traces[r], turn[r], result[r].tools)
  BY <1>1 DEF RunTyped, RunGoesOn
<1>4. Append(traces[r], e) \in Seq(EventRecords) /\ Tells(Append(traces[r], e), n, result[r].tools)
  BY <1>1, <1>2, <1>3, TellsMore
<1>5. Reaches(Append(traces[r], e), n)
  <2>1. Reaches(traces[r], n) \/ e.turn = n
    BY <1>1 DEF RunGoesOn
  <2>. QED
    BY <1>3, <2>1, ReachesMore
<1>6. RunTyped(p, n, transcript[r], todo[r], result[r], Append(traces[r], e))
  BY <1>1, <1>4 DEF RunTyped, AgentPlaces
<1>7. RunOwes(p, transcript[r], todo[r], result[r].failed)
  BY <1>1 DEF RunOwes
<1>8. RunGoesOn(p, n, result[r], Append(traces[r], e))
  BY <1>1, <1>4, <1>5 DEF RunGoesOn
<1>. QED
  BY <1>6, <1>7, <1>8 DEF RunFits

\* An event that is recorded for a run is the last of its trace.
LEMMA FireOne ==
  ASSUME AgentTyped, NEW r \in Runs, NEW res, NEW e \in EventRecords, Fire(r, res, <<e>>)
  PROVE  result' = [result EXCEPT ![r] = res] /\ traces' = [traces EXCEPT ![r] = Append(traces[r], e)]
<1>1. traces[r] \in Seq(EventRecords)
  BY DEF AgentTyped
<1>2. traces[r] \o <<e>> = Append(traces[r], e)
  BY <1>1, RecordedOneByOne
<1>. QED
  BY <1>2 DEF Fire

\* The start of a run keeps the invariant.
LEMMA BeginRunKeeps ==
  ASSUME AgentInv, NEW r \in Runs, BeginRun(r)
  PROVE  AgentInv'
<1>. DEFINE e == Event("run_start", 0, result[r])
<1>1. AgentTyped /\ result[r] \in ResultRecords /\ turn[r] \in 0..MaxTurns /\ pc[r] = "start"
  BY DEF AgentInv, AgentTyped, BeginRun
<1>2. e \in EventRecords /\ e.kind = "run_start" /\ e.turn = 0 /\ ~e.err
  <2>. DEFINE kind == "run_start"
              zero == 0
              res  == result[r]
  <2>1. zero \in Nat /\ kind \in Kinds /\ res \in ResultRecords
    BY <1>1 DEF Kinds
  <2>2. e = Event(kind, zero, res)
    OBVIOUS
  <2>. HIDE DEF kind, zero, res, e
  <2>3. e \in EventRecords /\ e.kind = kind /\ e.turn = zero /\ ~e.err
    BY <2>1, <2>2, EventIs
  <2>. QED
    BY <2>3 DEF kind, zero
<1>3. turn[r] = 0 /\ result[r].turns = turn[r] /\ todo[r] = <<>>
  BY <1>1, RunIs DEF RunGoesOn, RunOwes
<1>4. Fire(r, result[r], <<e>>) /\ Goto(r, "turn") /\ UNCHANGED <<turn, transcript, todo, admitted>>
  BY DEF BeginRun
<1>. HIDE DEF e
<1>5. RunFits("turn", turn[r], transcript[r], todo[r], result[r], Append(traces[r], e))
  <2>. DEFINE p == "turn"
              n == turn[r]
  <2>1. /\ p \in {"turn", "chat", "calling", "tool"} /\ n \in 0..MaxTurns /\ pc[r] # "done" /\ e.turn <= n /\ turn[r] <= n
        /\ e.kind # "run_end" /\ e.kind # "tool_call_end" /\ e.turn = n
        /\ result[r].turns = (IF p \in {"chat", "calling"} THEN n - 1 ELSE n) /\ p = "turn"
        /\ IF p = "tool" THEN todo[r] # <<>> ELSE todo[r] = <<>>
    BY <1>1, <1>2, <1>3
  <2>. HIDE DEF p, n
  <2>2. RunFits(p, n, transcript[r], todo[r], result[r], Append(traces[r], e))
    BY <1>2, <2>1, RecordKeeps
  <2>. QED
    BY <2>2 DEF p, n
<1>6. RunMoves(r, "turn", turn[r], transcript[r], todo[r], result[r], Append(traces[r], e))
  BY <1>1, <1>2, <1>4, FireOne, RunAsItIs DEF RunMoves, Goto
<1>. QED
  BY <1>5, <1>6, MovesKeep

\* The start of a turn keeps the invariant.
LEMMA BeginTurnKeeps ==
  ASSUME AgentInv, NEW r \in Runs, BeginTurn(r)
  PROVE  AgentInv'
<1>. DEFINE e == Event("turn_start", turn[r] + 1, result[r])
            k == turn[r] + 1
<1>1. AgentTyped /\ result[r] \in ResultRecords /\ turn[r] \in 0..MaxTurns /\ pc[r] = "turn" /\ turn[r] < MaxTurns
  BY DEF AgentInv, AgentTyped, BeginTurn
<1>2. k \in 0..MaxTurns /\ k \in Nat /\ k >= 1 /\ turn[r] <= k /\ k - 1 = turn[r]
  BY <1>1, RunAssumption
<1>3. e \in EventRecords /\ e.kind = "turn_start" /\ e.turn = k /\ ~e.err
  BY <1>1, <1>2, EventIs DEF Kinds
<1>4. result[r].turns = turn[r] /\ todo[r] = <<>>
  BY <1>1, RunIs DEF RunGoesOn, RunOwes
<1>5. /\ Fire(r, result[r], <<e>>) /\ Goto(r, "chat") /\ UNCHANGED <<transcript, todo, admitted>>
      /\ turn' = [turn EXCEPT ![r] = k]
  BY DEF BeginTurn
<1>. HIDE DEF e, k
<1>6. RunFits("chat", k, transcript[r], todo[r], result[r], Append(traces[r], e))
  <2>. DEFINE p == "chat"
  <2>1. /\ p \in {"turn", "chat", "calling", "tool"} /\ pc[r] # "done" /\ e.turn <= k
        /\ e.kind # "run_end" /\ e.kind # "tool_call_end"
        /\ result[r].turns = (IF p \in {"chat", "calling"} THEN k - 1 ELSE k)
        /\ IF p = "tool" THEN todo[r] # <<>> ELSE todo[r] = <<>>
    BY <1>1, <1>2, <1>3, <1>4
  <2>. HIDE DEF p
  <2>2. RunFits(p, k, transcript[r], todo[r], result[r], Append(traces[r], e))
    BY <1>2, <1>3, <2>1, RecordKeeps
  <2>. QED
    BY <2>2 DEF p
<1>7. RunMoves(r, "chat", k, transcript[r], todo[r], result[r], Append(traces[r], e))
  BY <1>1, <1>3, <1>5, FireOne, RunAsItIs DEF RunMoves, Goto
<1>. QED
  BY <1>6, <1>7, MovesKeep

\* A run that ends with books in order, and with a trace that told its tool calls, fits.
LEMMA EndFits ==
  ASSUME AgentInv, NEW r \in Runs, NEW n \in 0..MaxTurns, NEW m \in Seq(MessageRecords), m # <<>>, NEW due \in Seq(Nat),
         NEW res \in ResultRecords, NEW failed \in BOOLEAN, NEW t, Books(res), Paid(res, failed),
         Complete(t, n, FinishRun(res, failed)), t \in Seq(EventRecords), Owed(m, due), failed \/ due = <<>>
  PROVE  RunFits("done", n, m, due, FinishRun(res, failed), t)
<1>. DEFINE z == FinishRun(res, failed)
<1>1. z \in ResultRecords /\ z.failed = failed /\ AddsUp(z, "done")
  BY FinishRunIs, FinishAddsUp
<1>2. n \in Nat
  BY RunAssumption
<1>. HIDE DEF z
<1>3. SummaryTells(t, z)
  BY <1>1, <1>2, CompleteTells DEF z
<1>4. RunTyped("done", n, m, due, z, t) /\ RunOwes("done", m, due, z.failed)
  BY <1>1 DEF RunTyped, RunOwes, AgentPlaces
<1>. QED
  BY <1>1, <1>3, <1>4 DEF RunFits, z

\* The turns of the run are used up.
LEMMA FinishMaxTurnsKeeps ==
  ASSUME AgentInv, NEW r \in Runs, FinishMaxTurns(r)
  PROVE  AgentInv'
<1>. DEFINE last == Last(transcript[r])
            q == IF last.role = "assistant" THEN last ELSE result[r].final
            x == [result[r] EXCEPT !.stop = "max_turns", !.final = q]
            z == FinishRun(x, FALSE)
            e == RunEnd(z.turns, z)
            n == turn[r]
<1>1. /\ AgentTyped /\ result[r] \in ResultRecords /\ n \in 0..MaxTurns /\ pc[r] = "turn" /\ n \in Nat
      /\ transcript[r] \in Seq(MessageRecords) /\ transcript[r] # <<>> /\ traces[r] \in Seq(EventRecords)
      /\ todo[r] \in Seq(Nat)
  BY RunIs DEF AgentInv, AgentTyped, FinishMaxTurns, RunTyped
<1>2. /\ Owed(transcript[r], todo[r]) /\ todo[r] = <<>>
      /\ Balanced(result[r]) /\ result[r].turns = n
      /\ Tells(traces[r], n, result[r].tools) /\ Reaches(traces[r], n)
  BY <1>1, RunIs DEF RunGoesOn, RunOwes
<1>3. q \in MessageRecords
  <2>1. last \in MessageRecords
    BY <1>1 DEF Last
  <2>2. result[r].final \in MessageRecords
    BY <1>1 DEF ResultRecords
  <2>. QED
    BY <2>1, <2>2
<1>4. /\ Fire(r, z, <<e>>) /\ Goto(r, "done") /\ UNCHANGED <<turn, transcript, todo, admitted>>
  BY DEF FinishMaxTurns
<1>. HIDE DEF q
<1>5. /\ x \in ResultRecords /\ x.stop = "max_turns" /\ x.turns = result[r].turns /\ x.spans = result[r].spans
      /\ x.ledger = result[r].ledger /\ x.tools = result[r].tools
      /\ x.budgeted = result[r].budgeted /\ x.unbudgeted = result[r].unbudgeted
  BY <1>1, <1>3 DEF ResultRecords, Stops
<1>. HIDE DEF x
<1>6. Books(x) /\ Paid(x, FALSE)
  BY <1>2, <1>5 DEF Balanced, Books, Paid, Usage
<1>7. /\ z \in ResultRecords /\ z.turns = n /\ z.tools = result[r].tools /\ z.stop = "max_turns" /\ z.failed = FALSE
  BY <1>2, <1>5, FinishRunIs
<1>. HIDE DEF z
<1>8. e \in EventRecords /\ e.kind = "run_end" /\ e.turn = n /\ e.usage = Usage(z) /\ e.stop = z.stop /\ (e.err <=> z.failed)
  BY <1>1, <1>7, RunEndIs
<1>. HIDE DEF e, n
<1>9. Append(traces[r], e) \in Seq(EventRecords) /\ Complete(Append(traces[r], e), n, z)
  <2>1. n = Reported(z) /\ Tells(traces[r], n, z.tools) /\ e.turn <= n
    BY <1>1, <1>2, <1>7, <1>8 DEF Reported
  <2>. QED
    BY <1>1, <1>2, <1>7, <1>8, <2>1, EndCompletes
<1>10. RunFits("done", n, transcript[r], todo[r], z, Append(traces[r], e))
  BY <1>1, <1>2, <1>5, <1>6, <1>9, EndFits DEF z
<1>11. RunMoves(r, "done", n, transcript[r], todo[r], z, Append(traces[r], e))
  BY <1>1, <1>4, <1>8, FireOne, RunAsItIs DEF RunMoves, Goto, n
<1>. QED
  BY <1>10, <1>11, MovesKeep

\* What the invariant says of a run that chats.
LEMMA ChattingIs ==
  ASSUME AgentInv, NEW r \in Runs, pc[r] \in {"chat", "calling"}
  PROVE  /\ AgentTyped /\ result[r] \in ResultRecords /\ turn[r] \in 0..MaxTurns /\ turn[r] \in Nat /\ turn[r] >= 1
         /\ transcript[r] \in Seq(MessageRecords) /\ transcript[r] # <<>> /\ traces[r] \in Seq(EventRecords)
         /\ todo[r] \in Seq(Nat) /\ todo[r] = <<>> /\ Owed(transcript[r], todo[r])
         /\ Balanced(result[r]) /\ result[r].turns = turn[r] - 1
         /\ Tells(traces[r], turn[r], result[r].tools) /\ Reaches(traces[r], turn[r])
<1>1. /\ AgentTyped /\ result[r] \in ResultRecords /\ turn[r] \in 0..MaxTurns /\ turn[r] \in Nat
      /\ transcript[r] \in Seq(MessageRecords) /\ transcript[r] # <<>> /\ traces[r] \in Seq(EventRecords)
      /\ todo[r] \in Seq(Nat)
  BY RunIs DEF AgentInv, AgentTyped, RunTyped
<1>2. RunOwes(pc[r], transcript[r], todo[r], result[r].failed) /\ RunGoesOn(pc[r], turn[r], result[r], traces[r])
  BY RunIs
<1>3. todo[r] = <<>> /\ Owed(transcript[r], todo[r])
  BY <1>2 DEF RunOwes
<1>4. /\ Balanced(result[r]) /\ result[r].turns = turn[r] - 1 /\ turn[r] >= 1
      /\ Tells(traces[r], turn[r], result[r].tools) /\ Reaches(traces[r], turn[r])
  BY <1>2 DEF RunGoesOn
<1>. QED
  BY <1>1, <1>3, <1>4

\* The run ends with an error, its books as in x.
EndsUnanswered(r, x) ==
  /\ pc[r] \in {"chat", "calling"}
  /\ x \in ResultRecords /\ x.turns = result[r].turns /\ x.tools = result[r].tools /\ x.stop = ""
  /\ Books(x) /\ Paid(x, TRUE)
  /\ Fire(r, FinishRun(x, TRUE), <<RunEnd(turn[r], FinishRun(x, TRUE))>>) /\ Goto(r, "done")
  /\ UNCHANGED <<turn, transcript, todo>>

\* A run whose chat is refused, or fails, ends without another turn.
LEMMA ChatEndKeeps ==
  ASSUME AgentInv, NEW r \in Runs, NEW x, EndsUnanswered(r, x)
  PROVE  AgentInv'
<1>. DEFINE n == turn[r]
            z == FinishRun(x, TRUE)
            e == RunEnd(n, z)
<1>1. /\ AgentTyped /\ n \in 0..MaxTurns /\ n \in Nat /\ n >= 1
      /\ transcript[r] \in Seq(MessageRecords) /\ transcript[r] # <<>> /\ traces[r] \in Seq(EventRecords)
      /\ todo[r] \in Seq(Nat) /\ todo[r] = <<>> /\ Owed(transcript[r], todo[r])
      /\ result[r].turns = n - 1
      /\ Tells(traces[r], n, result[r].tools) /\ Reaches(traces[r], n)
  <2>1. pc[r] \in {"chat", "calling"}
    BY DEF EndsUnanswered
  <2>. QED
    BY <2>1, ChattingIs
<1>2. z \in ResultRecords /\ z.turns = n - 1 /\ z.tools = result[r].tools /\ z.stop = "" /\ z.failed = TRUE
  <2>1. TRUE \in BOOLEAN
    OBVIOUS
  <2>2. x \in ResultRecords /\ x.turns = result[r].turns /\ x.tools = result[r].tools /\ x.stop = ""
    BY DEF EndsUnanswered
  <2>3. /\ z \in ResultRecords /\ z.turns = x.turns /\ z.tools = x.tools /\ z.stop = x.stop
        /\ z.failed = TRUE
    BY <2>1, <2>2, FinishRunIs
  <2>. QED
    BY <1>1, <2>2, <2>3
<1>. HIDE DEF z
<1>3. e \in EventRecords /\ e.kind = "run_end" /\ e.turn = n /\ e.usage = Usage(z) /\ e.stop = z.stop /\ (e.err <=> z.failed)
  BY <1>1, <1>2, RunEndIs
<1>4. Fire(r, z, <<e>>) /\ Goto(r, "done") /\ UNCHANGED <<turn, transcript, todo>>
  BY DEF z, EndsUnanswered
<1>. HIDE DEF e, n
<1>5. Append(traces[r], e) \in Seq(EventRecords) /\ Complete(Append(traces[r], e), n, z)
  <2>1. n = Reported(z)
    <3>1. Reported(z) = z.turns + 1
      BY <1>2 DEF Reported
    <3>2. z.turns = n - 1
      BY <1>2
    <3>3. n \in Nat
      BY <1>1
    <3>. QED
      BY ONLY <3>1, <3>2, <3>3
  <2>2. e.turn <= n
    <3>1. n \in Nat
      BY <1>1
    <3>2. e.turn = n
      BY <1>3
    <3>. QED
      BY ONLY <3>1, <3>2
  <2>3. Tells(traces[r], n, z.tools)
    <3>1. z.tools = result[r].tools
      BY <1>2
    <3>. QED
      BY <1>1, <3>1
  <2>. QED
    BY <1>1, <1>2, <1>3, <2>1, <2>2, <2>3, EndCompletes
<1>6. RunFits("done", n, transcript[r], todo[r], z, Append(traces[r], e))
  <2>1. TRUE \in BOOLEAN
    OBVIOUS
  <2>2. Books(x) /\ Paid(x, TRUE) /\ x \in ResultRecords
    BY DEF EndsUnanswered
  <2>. QED
    BY <1>1, <1>5, <2>1, <2>2, EndFits DEF z
<1>7. RunMoves(r, "done", n, transcript[r], todo[r], z, Append(traces[r], e))
  <2>1. result' = [result EXCEPT ![r] = z] /\ traces' = [traces EXCEPT ![r] = Append(traces[r], e)]
    BY <1>1, <1>3, <1>4, FireOne
  <2>2. turn' = [turn EXCEPT ![r] = n] /\ transcript' = [transcript EXCEPT ![r] = transcript[r]]
        /\ todo' = [todo EXCEPT ![r] = todo[r]]
    BY <1>1, <1>4, RunAsItIs DEF n
  <2>3. pc' = [pc EXCEPT ![r] = "done"]
    BY <1>4 DEF Goto
  <2>. QED
    BY <2>1, <2>2, <2>3 DEF RunMoves
<1>. QED
  BY <1>6, <1>7, MovesKeep

\* A chat that is admitted, or refused, keeps the invariant.
LEMMA ChatKeeps ==
  ASSUME AgentInv, NEW r \in Runs, Chat(r)
  PROVE  AgentInv'
<1>1. pc[r] = "chat" /\ UNCHANGED <<turn, transcript, todo>>
  BY DEF Chat
<1>2. /\ AgentTyped /\ result[r] \in ResultRecords /\ turn[r] \in 0..MaxTurns /\ turn[r] \in Nat /\ turn[r] >= 1
      /\ todo[r] = <<>> /\ Balanced(result[r]) /\ result[r].turns = turn[r] - 1
  BY <1>1, ChattingIs
<1>3. CASE Fire(r, FinishRun(result[r], TRUE), <<RunEnd(turn[r], FinishRun(result[r], TRUE))>>) /\ Goto(r, "done")
  <2>. DEFINE x == result[r]
  <2>1. x \in ResultRecords /\ Books(x) /\ Paid(x, TRUE) /\ x.stop = ""
    BY <1>2 DEF Balanced, Paid
  <2>2. EndsUnanswered(r, x)
    BY <1>1, <1>2, <1>3, <2>1 DEF EndsUnanswered
  <2>. QED
    BY <2>2, ChatEndKeeps
<1>4. CASE Fire(r, result[r], <<Event("llm_request", turn[r], result[r])>>) /\ Goto(r, "calling")
  <2>. DEFINE e == Event("llm_request", turn[r], result[r])
              p == "calling"
              n == turn[r]
  <2>1. e \in EventRecords /\ e.kind = "llm_request" /\ e.turn = n /\ ~e.err
    BY <1>2, EventIs DEF Kinds
  <2>2. Fire(r, result[r], <<e>>)
    BY <1>4
  <2>. HIDE DEF e
  <2>3. /\ p \in {"turn", "chat", "calling", "tool"} /\ n \in 0..MaxTurns /\ pc[r] # "done" /\ e.turn <= n /\ turn[r] <= n
        /\ e.kind # "run_end" /\ e.kind # "tool_call_end" /\ e.turn = n
        /\ result[r].turns = (IF p \in {"chat", "calling"} THEN n - 1 ELSE n) /\ n >= 1
        /\ IF p = "tool" THEN todo[r] # <<>> ELSE todo[r] = <<>>
    BY <1>1, <1>2, <2>1
  <2>. HIDE DEF p, n
  <2>4. RunFits(p, n, transcript[r], todo[r], result[r], Append(traces[r], e))
    BY <2>1, <2>3, RecordKeeps
  <2>5. RunMoves(r, p, n, transcript[r], todo[r], result[r], Append(traces[r], e))
    BY <1>1, <1>2, <1>4, <2>1, <2>2, FireOne, RunAsItIs DEF RunMoves, Goto, p, n
  <2>. QED
    BY <2>4, <2>5, MovesKeep
<1>. QED
  BY <1>3, <1>4 DEF Chat

\* A chat that fails keeps the invariant.
LEMMA ChatFailsKeeps ==
  ASSUME AgentInv, NEW r \in Runs, ChatFails(r)
  PROVE  AgentInv'
<1>1. pc[r] = "calling" /\ UNCHANGED <<turn, transcript, todo>>
  BY DEF ChatFails
<1>2. PICK u \in ChatUsages :
        LET z == FinishRun(ChatSpent(result[r], u, TRUE), TRUE)
        IN Fire(r, z, <<RunEnd(turn[r], z)>>) /\ Goto(r, "done")
  BY DEF ChatFails
<1>3. result[r] \in ResultRecords /\ Balanced(result[r])
  BY <1>1, ChattingIs
<1>. DEFINE x == ChatSpent(result[r], u, TRUE)
            e == Span("llm", u, 0)
<1>4. u \in Nat
  BY RunAssumption
<1>5. /\ x \in ResultRecords
      /\ x.turns = result[r].turns /\ x.budgeted = result[r].budgeted /\ x.unbudgeted = result[r].unbudgeted
      /\ x.ledger.models = result[r].ledger.models + 1 /\ x.ledger.tools = result[r].ledger.tools
      /\ x.ledger.usage = result[r].ledger.usage + u
      /\ x.spans = Append(result[r].spans, e) /\ e \in SpanRecords
      /\ x.tools = result[r].tools /\ x.stop = result[r].stop
  <2>1. OneChatMore(x, result[r], u)
    BY <1>3, <1>4, ChatSpentIs
  <2>. HIDE DEF x
  <2>. QED
    BY <2>1 DEF OneChatMore
<1>6. e.kind = "llm" /\ Usage(e) = u
  BY <1>4 DEF Span, Usage
<1>7. /\ Fire(r, FinishRun(x, TRUE), <<RunEnd(turn[r], FinishRun(x, TRUE))>>) /\ Goto(r, "done")
  BY <1>2
<1>. HIDE DEF x
<1>8. Books(x)
  BY <1>3, <1>4, <1>5, ChatBooked DEF Balanced
<1>. HIDE DEF e
<1>9. Paid(x, TRUE)
  <2>1. result[r].spans \in Seq(SpanRecords)
    BY <1>3 DEF ResultRecords
  <2>2. x.spans # <<>> /\ x.spans[Len(x.spans)] = e
    BY <1>5, <2>1, AppendIs
  <2>3. Usage(x) = Usage(result[r])
    BY <1>5 DEF Usage
  <2>4. /\ result[r].ledger.usage \in Nat /\ result[r].ledger.models \in Nat
        /\ Usage(result[r]) = result[r].ledger.usage /\ result[r].ledger.models = result[r].turns
    BY <1>3 DEF Balanced, ResultRecords, LedgerRecords
  <2>5. Usage(x) = x.ledger.usage - Usage(e) /\ x.ledger.models > x.turns
    BY <1>4, <1>5, <1>6, <2>3, <2>4
  <2>. QED
    BY <1>6, <2>2, <2>5 DEF Paid
<1>10. x.stop = ""
  BY <1>3, <1>5 DEF Balanced
<1>11. EndsUnanswered(r, x)
  BY <1>1, <1>5, <1>7, <1>8, <1>9, <1>10 DEF EndsUnanswered
<1>. QED
  BY <1>11, ChatEndKeeps

\* Usage that is added to a result changes nothing else of it.
UsageAdded(x, res, a, b) ==
  /\ x \in ResultRecords /\ x.budgeted = res.budgeted + a /\ x.unbudgeted = res.unbudgeted + b
  /\ x.turns = res.turns /\ x.ledger = res.ledger /\ x.spans = res.spans /\ x.tools = res.tools
  /\ x.stop = res.stop /\ x.failed = res.failed

LEMMA AddUsageIs ==
  ASSUME NEW res \in ResultRecords, NEW a \in Nat, NEW b \in Nat
  PROVE  UsageAdded(AddUsage(res, a, b), res, a, b)
<1>. DEFINE c == res.budgeted + a
            d == res.unbudgeted + b
            x == [res EXCEPT !.budgeted = c, !.unbudgeted = d]
<1>1. c \in Nat /\ d \in Nat
  BY DEF ResultRecords
<1>2. AddUsage(res, a, b) = x
  BY DEF AddUsage, ResultRecords
<1>. HIDE DEF c, d
<1>3. /\ x \in ResultRecords /\ x.budgeted = c /\ x.unbudgeted = d
      /\ x.turns = res.turns /\ x.ledger = res.ledger /\ x.spans = res.spans /\ x.tools = res.tools
      /\ x.stop = res.stop /\ x.failed = res.failed
  BY <1>1 DEF ResultRecords
<1>. HIDE DEF x
<1>. QED
  BY <1>2, <1>3 DEF c, d, UsageAdded

\* x is what a run has spent that goes on after n turns, having called tools.
Advanced(x, n, tools) == x \in ResultRecords /\ Balanced(x) /\ x.turns = n /\ x.tools = tools

\* A reply is a turn more, and its usage.
Replied(res, u, n) == AddUsage([ChatSpent(res, u, FALSE) EXCEPT !.turns = n], u, 0)

\* A run whose model replied goes on with its books kept.
LEMMA RepliedIs ==
  ASSUME NEW res \in ResultRecords, Balanced(res), NEW u \in Nat, NEW n \in Nat, res.turns = n - 1
  PROVE  Advanced(Replied(res, u, n), n, res.tools)
<1>. DEFINE c == ChatSpent(res, u, FALSE)
            y == [c EXCEPT !.turns = n]
            x == AddUsage(y, u, 0)
<1>1. OneChatMore(c, res, u)
  BY ChatSpentIs
<1>. HIDE DEF c
<1>2. /\ y \in ResultRecords /\ y.turns = n /\ y.budgeted = c.budgeted /\ y.unbudgeted = c.unbudgeted
      /\ y.ledger = c.ledger /\ y.spans = c.spans /\ y.tools = c.tools /\ y.stop = c.stop /\ y.failed = c.failed
  BY <1>1 DEF OneChatMore, ResultRecords
<1>. HIDE DEF y
<1>3. /\ x \in ResultRecords /\ x.budgeted = y.budgeted + u /\ x.unbudgeted = y.unbudgeted + 0
      /\ x.turns = y.turns /\ x.ledger = y.ledger /\ x.spans = y.spans /\ x.tools = y.tools
      /\ x.stop = y.stop /\ x.failed = y.failed
  <2>1. 0 \in Nat
    OBVIOUS
  <2>2. y \in ResultRecords
    BY <1>2
  <2>3. UsageAdded(x, y, u, 0)
    BY ONLY u \in Nat, <2>1, <2>2, AddUsageIs
  <2>. QED
    BY ONLY <2>3 DEF UsageAdded
<1>. HIDE DEF x
<1>4. /\ x.spans = Append(res.spans, Span("llm", u, 0)) /\ x.ledger.models = res.ledger.models + 1
      /\ x.ledger.tools = res.ledger.tools /\ x.ledger.usage = res.ledger.usage + u
  <2>1. x.spans = c.spans /\ x.ledger = c.ledger
    BY ONLY <1>2, <1>3
  <2>2. /\ c.spans = Append(res.spans, Span("llm", u, 0)) /\ c.ledger.models = res.ledger.models + 1
        /\ c.ledger.tools = res.ledger.tools /\ c.ledger.usage = res.ledger.usage + u
    BY ONLY <1>1 DEF OneChatMore
  <2>. QED
    BY ONLY <2>1, <2>2
<1>5. Books(x)
  BY <1>3, <1>4, ChatBooked DEF Balanced
<1>6. /\ res.budgeted \in Nat /\ res.unbudgeted \in Nat /\ res.ledger.usage \in Nat /\ res.ledger.models \in Nat
      /\ res.budgeted + res.unbudgeted = res.ledger.usage /\ res.ledger.models = n - 1
  BY DEF Balanced, Usage, ResultRecords, LedgerRecords
<1>7. x.budgeted = res.budgeted + u /\ x.unbudgeted = res.unbudgeted + 0
  BY <1>1, <1>2, <1>3 DEF OneChatMore
<1>8. Usage(x) = x.ledger.usage /\ x.ledger.models = n
  BY <1>4, <1>6, <1>7 DEF Usage
<1>9. x.stop = "" /\ ~x.failed
  <2>1. res.stop = "" /\ ~res.failed
    BY DEF Balanced
  <2>. QED
    BY <1>1, <1>2, <1>3, <2>1 DEF OneChatMore
<1>10. x.turns = n /\ x.tools = res.tools
  BY <1>1, <1>2, <1>3 DEF OneChatMore
<1>. QED
  BY <1>3, <1>5, <1>8, <1>9, <1>10 DEF Advanced, Balanced, Replied, x, y, c

\* A run goes on to a place where tools or another turn come next.
LEMMA GoesOnFits ==
  ASSUME NEW p \in {"turn", "tools"}, NEW n \in 0..MaxTurns, n >= 1, NEW m \in Seq(MessageRecords), m # <<>>,
         NEW due \in Seq(Nat), NEW res, NEW tools, NEW t \in Seq(EventRecords),
         Advanced(res, n, tools), Tells(t, n, tools), Reaches(t, n), Owed(m, due),
         p = "tools" <=> due # <<>>
  PROVE  RunFits(p, n, m, due, res, t)
<1>1. res \in ResultRecords /\ Balanced(res) /\ res.turns = n /\ res.tools = tools
  BY DEF Advanced
<1>2. RunTyped(p, n, m, due, res, t)
  BY <1>1 DEF RunTyped, AgentPlaces
<1>3. RunOwes(p, m, due, res.failed)
  BY DEF RunOwes
<1>4. RunGoesOn(p, n, res, t)
  BY <1>1 DEF RunGoesOn
<1>. QED
  BY <1>2, <1>3, <1>4 DEF RunFits

\* A run that has used its turns, or whose model calls no tools, ends without error.
LEMMA SuccessFits ==
  ASSUME AgentInv, NEW r \in Runs, NEW n \in 0..MaxTurns, NEW m \in Seq(MessageRecords), m # <<>>,
         NEW x, NEW y \in ResultRecords, NEW tools, NEW t \in Seq(EventRecords),
         Advanced(x, n, tools), Tells(t, n, tools), Reaches(t, n), Owed(m, <<>>),
         y.turns = x.turns, y.budgeted = x.budgeted, y.unbudgeted = x.unbudgeted, y.ledger = x.ledger,
         y.spans = x.spans, y.tools = x.tools, y.stop # "tool_error"
  PROVE  LET z == FinishRun(y, FALSE)
         IN RunFits("done", n, m, <<>>, z, Append(t, RunEnd(n, z)))
<1>. DEFINE z == FinishRun(y, FALSE)
            e == RunEnd(n, z)
<1>0. FALSE \in BOOLEAN /\ n \in Nat /\ <<>> \in Seq(Nat)
  BY RunAssumption
<1>1. x \in ResultRecords /\ Balanced(x) /\ x.turns = n /\ x.tools = tools
  BY DEF Advanced
<1>2. Books(y) /\ Paid(y, FALSE)
  BY <1>1 DEF Balanced, Books, Paid, Usage
<1>3. z \in ResultRecords /\ z.turns = n /\ z.tools = tools /\ z.failed = FALSE /\ z.stop # "tool_error"
  BY <1>0, <1>1, FinishRunIs
<1>. HIDE DEF z
<1>4. e \in EventRecords /\ e.kind = "run_end" /\ e.turn = n /\ e.usage = Usage(z) /\ e.stop = z.stop /\ (e.err <=> z.failed)
  BY <1>0, <1>3, RunEndIs
<1>. HIDE DEF e
<1>5. Append(t, e) \in Seq(EventRecords) /\ Complete(Append(t, e), n, z)
  <2>1. n = Reported(z)
    BY <1>3 DEF Reported
  <2>2. Tells(t, n, z.tools)
    BY <1>3
  <2>3. e.turn <= n
    BY <1>0, <1>4
  <2>. QED
    BY <1>0, <1>3, <1>4, <2>1, <2>2, <2>3, EndCompletes
<1>6. RunFits("done", n, m, <<>>, z, Append(t, e))
  BY <1>0, <1>2, <1>5, EndFits DEF z
<1>. QED
  BY <1>6 DEF z, e

\* A reply of the model keeps the invariant.
LEMMA ChatRepliesKeeps ==
  ASSUME AgentInv, NEW r \in Runs, ChatReplies(r)
  PROVE  AgentInv'
<1>. DEFINE n == turn[r]
            m == transcript[r]
<1>1. pc[r] = "calling" /\ UNCHANGED turn
  BY DEF ChatReplies
<1>2. /\ AgentTyped /\ result[r] \in ResultRecords /\ n \in 0..MaxTurns /\ n \in Nat /\ n >= 1
      /\ m \in Seq(MessageRecords) /\ m # <<>> /\ traces[r] \in Seq(EventRecords)
      /\ Owed(m, <<>>) /\ Balanced(result[r]) /\ result[r].turns = n - 1
      /\ Tells(traces[r], n, result[r].tools) /\ Reaches(traces[r], n)
  BY <1>1, ChattingIs
<1>3. PICK u \in ChatUsages, c \in Batches, reason \in FinishReasons :
        LET message == Assistant(c)
            x == Replied(result[r], u, n)
            e == [Event("llm_response", n, x) EXCEPT !.calls = c]
            y == [x EXCEPT !.final = message, !.stop = MapFinishReason(reason)]
            z == FinishRun(y, FALSE)
        IN /\ transcript' = [transcript EXCEPT ![r] = Append(@, message)]
           /\ todo' = [todo EXCEPT ![r] = c]
           /\ \/ /\ c = <<>>
                 /\ Fire(r, z, <<e, Event("turn_end", n, z), RunEnd(n, z)>>)
                 /\ Goto(r, "done")
              \/ /\ c # <<>>
                 /\ Fire(r, x, <<e>>)
                 /\ Goto(r, "tools")
  BY DEF ChatReplies, Replied
<1>. DEFINE message == Assistant(c)
            x == Replied(result[r], u, n)
            e == [Event("llm_response", n, x) EXCEPT !.calls = c]
            y == [x EXCEPT !.final = message, !.stop = MapFinishReason(reason)]
            z == FinishRun(y, FALSE)
            a == Event("turn_end", n, z)
            b == RunEnd(n, z)
            t == Append(traces[r], e)
<1>4. u \in Nat /\ c \in Seq(Nat) /\ MapFinishReason(reason) \in Stops /\ MapFinishReason(reason) # "tool_error"
  <2>1. u \in Nat /\ c \in Seq(Nat)
    BY RunAssumption
  <2>2. reason \in {"stop", "length", "filter", "none"}
    BY RunAssumption
  <2>3. MapFinishReason(reason) \in Stops /\ MapFinishReason(reason) # "tool_error"
    <3>1. /\ StopReasons["stop"] = "complete" /\ StopReasons["length"] = "length"
          /\ StopReasons["filter"] = "content_filter" /\ StopReasons["none"] = "complete"
      BY DEF StopReasons
    <3>. QED
      BY <2>2, <3>1 DEF MapFinishReason, Stops
  <2>. QED
    BY <2>1, <2>3
<1>5. /\ transcript' = [transcript EXCEPT ![r] = Append(m, message)] /\ todo' = [todo EXCEPT ![r] = c]
      /\ \/ c = <<>> /\ Fire(r, z, <<e, a, b>>) /\ Goto(r, "done")
         \/ c # <<>> /\ Fire(r, x, <<e>>) /\ Goto(r, "tools")
  BY <1>3
<1>6. message \in MessageRecords /\ message.role = "assistant" /\ message.calls = c
  BY <1>4, MessagesAre
<1>. HIDE DEF x, message
<1>7. Advanced(x, n, result[r].tools) /\ x \in ResultRecords /\ x.tools = result[r].tools
  <2>1. Advanced(x, n, result[r].tools)
    BY <1>2, <1>4, RepliedIs DEF x
  <2>. QED
    BY <2>1 DEF Advanced
<1>8. e \in EventRecords /\ e.kind = "llm_response" /\ e.turn = n /\ ~e.err
  <2>. DEFINE d == Event("llm_response", n, x)
  <2>1. d \in EventRecords /\ d.kind = "llm_response" /\ d.turn = n /\ ~d.err
    BY <1>2, <1>7, EventIs DEF Kinds
  <2>. HIDE DEF d
  <2>2. [d EXCEPT !.calls = c] \in EventRecords /\ [d EXCEPT !.calls = c].kind = "llm_response"
        /\ [d EXCEPT !.calls = c].turn = n /\ ~[d EXCEPT !.calls = c].err
    BY <1>4, <2>1 DEF EventRecords
  <2>. QED
    BY <2>2 DEF d
<1>9. /\ y \in ResultRecords /\ y.turns = x.turns /\ y.budgeted = x.budgeted /\ y.unbudgeted = x.unbudgeted
      /\ y.ledger = x.ledger /\ y.spans = x.spans /\ y.tools = x.tools /\ y.stop # "tool_error"
  BY <1>4, <1>6, <1>7 DEF ResultRecords
<1>. HIDE DEF e, y
<1>10. z \in ResultRecords
  BY <1>9, FinishRunIs
<1>. HIDE DEF z
<1>11. a \in EventRecords /\ a.kind = "turn_end" /\ a.turn = n /\ ~a.err
  BY <1>2, <1>10, EventIs DEF Kinds
<1>12. b \in EventRecords
  BY <1>2, <1>10, RunEndIs
<1>. HIDE DEF a, b, n, m
<1>13. /\ Append(m, message) \in Seq(MessageRecords) /\ Append(m, message) # <<>>
       /\ Owed(Append(m, message), c)
  <2>1. Owed(Append(m, message), c)
    BY <1>2, <1>6, OwedSpeaks
  <2>. QED
    BY <1>2, <1>6, <2>1, AppendIs
<1>14. n <= n /\ e.turn <= n /\ a.turn <= n
  <2>1. n \in Nat /\ e.turn = n /\ a.turn = n
    BY <1>2, <1>8, <1>11
  <2>. QED
    BY ONLY <2>1
<1>15. t \in Seq(EventRecords) /\ Tells(t, n, result[r].tools) /\ Reaches(t, n)
  BY <1>2, <1>8, <1>14, TellsMore, ReachesMore
<1>16. CASE c # <<>>
  <2>1. Fire(r, x, <<e>>) /\ Goto(r, "tools")
    BY <1>5, <1>16
  <2>2. RunFits("tools", n, Append(m, message), c, x, t)
    BY <1>2, <1>4, <1>7, <1>13, <1>15, <1>16, GoesOnFits
  <2>3. result' = [result EXCEPT ![r] = x] /\ traces' = [traces EXCEPT ![r] = t]
    BY <1>2, <1>8, <2>1, FireOne
  <2>4. turn' = [turn EXCEPT ![r] = n]
    BY <1>1, <1>2, RunAsItIs DEF n
  <2>5. RunMoves(r, "tools", n, Append(m, message), c, x, t)
    BY <1>5, <2>1, <2>3, <2>4 DEF RunMoves, Goto
  <2>. QED
    BY <2>2, <2>5, MovesKeep
<1>17. CASE c = <<>>
  <2>. DEFINE v == Append(t, a)
  <2>1. Fire(r, z, <<e, a, b>>) /\ Goto(r, "done")
    BY <1>5, <1>17
  <2>2. v \in Seq(EventRecords) /\ Tells(v, n, result[r].tools) /\ Reaches(v, n)
    BY <1>2, <1>11, <1>14, <1>15, TellsMore, ReachesMore
  <2>3. result' = [result EXCEPT ![r] = z] /\ traces' = [traces EXCEPT ![r] = Append(v, b)]
    <3>1. e \in EventRecords /\ a \in EventRecords /\ b \in EventRecords /\ AgentTyped
      BY <1>2, <1>8, <1>11, <1>12
    <3>2. /\ result' = [result EXCEPT ![r] = z]
          /\ traces' = [traces EXCEPT ![r] = Append(Append(Append(traces[r], e), a), b)]
      <4>1. traces[r] \in Seq(EventRecords)
        BY <1>2
      <4>2. traces[r] \o <<e, a, b>> = Append(Append(Append(traces[r], e), a), b)
        BY <3>1, <4>1, RecordedOneByOne, SMTT(20)
      <4>3. result' = [result EXCEPT ![r] = z] /\ traces' = [traces EXCEPT ![r] = traces[r] \o <<e, a, b>>]
        BY <2>1 DEF Fire
      <4>. QED
        BY <4>2, <4>3
    <3>. QED
      BY <3>2
  <2>. HIDE DEF v, t
  <2>4. RunFits("done", n, Append(m, message), <<>>, z, Append(v, b))
    BY <1>2, <1>7, <1>9, <1>13, <1>17, <2>2, SuccessFits DEF z, b
  <2>5. turn' = [turn EXCEPT ![r] = n]
    BY <1>1, <1>2, RunAsItIs DEF n
  <2>6. RunMoves(r, "done", n, Append(m, message), <<>>, z, Append(v, b))
    BY <1>5, <1>17, <2>1, <2>3, <2>5 DEF RunMoves, Goto
  <2>. QED
    BY <2>4, <2>6, MovesKeep
<1>. QED
  BY <1>16, <1>17

\* What the invariant says of a run whose reply calls tools.
LEMMA CallingToolsIs ==
  ASSUME AgentInv, NEW r \in Runs, pc[r] \in {"tools", "tool"}
  PROVE  /\ AgentTyped /\ result[r] \in ResultRecords /\ turn[r] \in 0..MaxTurns /\ turn[r] \in Nat /\ turn[r] >= 1
         /\ transcript[r] \in Seq(MessageRecords) /\ transcript[r] # <<>> /\ traces[r] \in Seq(EventRecords)
         /\ todo[r] \in Seq(Nat) /\ todo[r] # <<>> /\ Head(todo[r]) \in Nat /\ Owed(transcript[r], todo[r])
         /\ Balanced(result[r]) /\ result[r].turns = turn[r]
         /\ Tells(traces[r], turn[r], result[r].tools) /\ Reaches(traces[r], turn[r])
<1>1. /\ AgentTyped /\ result[r] \in ResultRecords /\ turn[r] \in 0..MaxTurns /\ turn[r] \in Nat
      /\ transcript[r] \in Seq(MessageRecords) /\ transcript[r] # <<>> /\ traces[r] \in Seq(EventRecords)
      /\ todo[r] \in Seq(Nat)
  BY RunIs DEF AgentInv, AgentTyped, RunTyped
<1>2. RunOwes(pc[r], transcript[r], todo[r], result[r].failed) /\ RunGoesOn(pc[r], turn[r], result[r], traces[r])
  BY RunIs
<1>3. todo[r] # <<>> /\ Owed(transcript[r], todo[r])
  BY <1>2 DEF RunOwes
<1>4. /\ Balanced(result[r]) /\ result[r].turns = turn[r] /\ turn[r] >= 1
      /\ Tells(traces[r], turn[r], result[r].tools) /\ Reaches(traces[r], turn[r])
  BY <1>2 DEF RunGoesOn
<1>5. Head(todo[r]) \in Nat
  BY <1>1, <1>3
<1>. QED
  BY <1>1, <1>3, <1>4, <1>5

\* The start of a tool call keeps the invariant.
LEMMA BeginToolCallKeeps ==
  ASSUME AgentInv, NEW r \in Runs, BeginToolCall(r)
  PROVE  AgentInv'
<1>. DEFINE d == Event("tool_call_start", turn[r], result[r])
            e == [d EXCEPT !.tool = Head(todo[r])]
<1>1. pc[r] = "tools"
  BY DEF BeginToolCall
<1>2. /\ AgentTyped /\ result[r] \in ResultRecords /\ turn[r] \in 0..MaxTurns /\ turn[r] \in Nat /\ turn[r] >= 1
      /\ todo[r] # <<>> /\ Head(todo[r]) \in Nat /\ result[r].turns = turn[r]
  BY <1>1, CallingToolsIs
<1>3. Fire(r, result[r], <<e>>) /\ Goto(r, "tool") /\ UNCHANGED <<turn, transcript, todo, admitted>>
  BY DEF BeginToolCall
<1>4. e \in EventRecords /\ e.kind = "tool_call_start" /\ e.turn = turn[r] /\ ~e.err
  <2>1. d \in EventRecords /\ d.kind = "tool_call_start" /\ d.turn = turn[r] /\ ~d.err
    BY <1>2, EventIs DEF Kinds
  <2>. HIDE DEF d
  <2>. QED
    BY <1>2, <2>1 DEF EventRecords
<1>. HIDE DEF e
<1>5. RunFits("tool", turn[r], transcript[r], todo[r], result[r], Append(traces[r], e))
  <2>. DEFINE p == "tool"
              n == turn[r]
  <2>1. /\ p \in {"turn", "chat", "calling", "tool"} /\ n \in 0..MaxTurns /\ pc[r] # "done" /\ e.turn <= n /\ turn[r] <= n
        /\ e.kind # "run_end" /\ e.kind # "tool_call_end" /\ e.turn = n
        /\ result[r].turns = (IF p \in {"chat", "calling"} THEN n - 1 ELSE n) /\ n >= 1
        /\ IF p = "tool" THEN todo[r] # <<>> ELSE todo[r] = <<>>
    BY <1>1, <1>2, <1>4
  <2>. HIDE DEF p, n
  <2>2. RunFits(p, n, transcript[r], todo[r], result[r], Append(traces[r], e))
    BY <1>4, <2>1, RecordKeeps
  <2>. QED
    BY <2>2 DEF p, n
<1>6. RunMoves(r, "tool", turn[r], transcript[r], todo[r], result[r], Append(traces[r], e))
  BY <1>2, <1>3, <1>4, FireOne, RunAsItIs DEF RunMoves, Goto
<1>. QED
  BY <1>5, <1>6, MovesKeep

\* A run whose tool answered, or failed, goes on with its books kept.
LEMMA ToolSpentIs ==
  ASSUME NEW r \in Runs, NEW used \in ToolUsages, result[r] \in ResultRecords, Balanced(result[r]), Head(todo[r]) \in Nat
  PROVE  Advanced(ToolSpent(r, used), result[r].turns, Append(result[r].tools, Head(todo[r])))
<1>. DEFINE res == result[r]
            a == used.budgeted
            b == used.unbudgeted
            y == AddUsage(res, a, b)
            f == res.ledger.usage + a + b
            g == res.ledger.tools + 1
            l == [res.ledger EXCEPT !.usage = f, !.tools = g]
            s == Append(res.spans, Span("tool", a, b))
            k == Append(res.tools, Head(todo[r]))
            x == [y EXCEPT !.ledger = l, !.tools = k, !.spans = s]
<1>1. a \in Nat /\ b \in Nat
  BY RunAssumption
<1>2. Span("tool", a, b) \in SpanRecords
  BY <1>1 DEF Span, SpanRecords
<1>3. /\ res.spans \in Seq(SpanRecords) /\ res.ledger \in LedgerRecords /\ res.tools \in Seq(Nat)
      /\ res.ledger.usage \in Nat /\ res.ledger.tools \in Nat /\ res.ledger.models \in Nat
      /\ res.budgeted \in Nat /\ res.unbudgeted \in Nat
  BY DEF ResultRecords, LedgerRecords
<1>4. /\ y \in ResultRecords /\ y.budgeted = res.budgeted + a /\ y.unbudgeted = res.unbudgeted + b
      /\ y.turns = res.turns /\ y.ledger = res.ledger /\ y.spans = res.spans /\ y.tools = res.tools
      /\ y.stop = res.stop /\ y.failed = res.failed
  <2>1. UsageAdded(y, res, a, b)
    BY <1>1, AddUsageIs
  <2>. QED
    BY ONLY <2>1 DEF UsageAdded
<1>. HIDE DEF a, b, y
<1>5. f \in Nat /\ g \in Nat
  <2>1. res.ledger.usage \in Nat /\ res.ledger.tools \in Nat
    BY <1>3
  <2>. HIDE DEF res
  <2>. QED
    BY ONLY <1>1, <2>1
<1>6. ToolSpent(r, used) = x
  <2>1. [y.ledger EXCEPT !.usage = y.ledger.usage + a + b, !.tools = y.ledger.tools + 1] = l
    BY <1>4
  <2>2. ToolSpent(r, used) = [y EXCEPT !.ledger = [y.ledger EXCEPT !.usage = y.ledger.usage + a + b, !.tools = y.ledger.tools + 1],
                                       !.tools = Append(y.tools, Head(todo[r])), !.spans = Append(y.spans, Span("tool", a, b))]
    BY <1>4 DEF ToolSpent, ResultRecords, LedgerRecords, y, a, b
  <2>. QED
    BY <1>4, <2>1, <2>2
<1>. HIDE DEF f, g
<1>7. l \in LedgerRecords /\ l.usage = f /\ l.tools = g /\ l.models = res.ledger.models
  BY <1>3, <1>5 DEF LedgerRecords
<1>8. s \in Seq(SpanRecords)
  BY <1>2, <1>3, AppendIs
<1>9. k \in Seq(Nat)
  BY <1>3, AppendIs
<1>. HIDE DEF l, s, k
<1>10. /\ x \in ResultRecords /\ x.ledger = l /\ x.tools = k /\ x.spans = s
       /\ x.turns = res.turns /\ x.budgeted = y.budgeted /\ x.unbudgeted = y.unbudgeted
       /\ x.stop = res.stop /\ x.failed = res.failed
  BY <1>4, <1>7, <1>8, <1>9 DEF ResultRecords
<1>. HIDE DEF x
<1>11. Books(x)
  <2>1. Books(res)
    BY DEF Balanced
  <2>2. /\ x.spans = Append(res.spans, Span("tool", a, b)) /\ x.ledger.models = res.ledger.models
        /\ x.ledger.tools = res.ledger.tools + 1 /\ x.ledger.usage = res.ledger.usage + a + b
    BY <1>7, <1>10 DEF s, f, g
  <2>. HIDE DEF res
  <2>. QED
    BY <1>1, <1>10, <2>1, <2>2, ToolBooked DEF res
<1>12. Usage(x) = x.ledger.usage /\ x.ledger.models = x.turns
  <2>1. res.budgeted + res.unbudgeted = res.ledger.usage /\ res.ledger.models = res.turns
    BY DEF Balanced, Usage
  <2>2. x.ledger.usage = res.ledger.usage + a + b /\ x.budgeted = res.budgeted + a /\ x.unbudgeted = res.unbudgeted + b
    BY <1>4, <1>7, <1>10 DEF f
  <2>3. x.ledger.models = x.turns
    BY <1>7, <1>10, <2>1
  <2>4. res.budgeted \in Nat /\ res.unbudgeted \in Nat /\ res.ledger.usage \in Nat
    BY <1>3
  <2>. HIDE DEF res
  <2>5. x.budgeted + x.unbudgeted = x.ledger.usage
    BY ONLY <1>1, <2>1, <2>2, <2>4
  <2>. QED
    BY ONLY <2>3, <2>5 DEF Usage
<1>13. x.stop = "" /\ ~x.failed
  BY <1>10 DEF Balanced
<1>. QED
  BY <1>6, <1>10, <1>11, <1>12, <1>13 DEF Advanced, Balanced, k

\* An answer of a tool keeps the invariant.
LEMMA ToolAnswersKeeps ==
  ASSUME AgentInv, NEW r \in Runs, ToolAnswers(r)
  PROVE  AgentInv'
<1>. DEFINE n == turn[r]
            m == transcript[r]
            c == Head(todo[r])
            rest == Tail(todo[r])
<1>1. pc[r] = "tool" /\ UNCHANGED turn
  BY DEF ToolAnswers
<1>2. /\ AgentTyped /\ result[r] \in ResultRecords /\ n \in 0..MaxTurns /\ n \in Nat /\ n >= 1
      /\ m \in Seq(MessageRecords) /\ m # <<>> /\ traces[r] \in Seq(EventRecords)
      /\ todo[r] \in Seq(Nat) /\ todo[r] # <<>> /\ c \in Nat
      /\ Owed(m, todo[r]) /\ Balanced(result[r]) /\ result[r].turns = n
      /\ Tells(traces[r], n, result[r].tools) /\ Reaches(traces[r], n)
  BY <1>1, CallingToolsIs
<1>3. PICK used \in ToolUsages :
        LET x == ToolSpent(r, used)
            e == ToolCallEnd(r, x, FALSE)
        IN /\ transcript' = [transcript EXCEPT ![r] = Append(m, Tool(c))]
           /\ todo' = [todo EXCEPT ![r] = rest]
           /\ IF rest # <<>>
              THEN Fire(r, x, <<e>>) /\ Goto(r, "tools")
              ELSE Fire(r, x, Append(<<e>>, Event("turn_end", n, x))) /\ Goto(r, "turn")
  BY DEF ToolAnswers, RestOfCalls
<1>. DEFINE x == ToolSpent(r, used)
            e == ToolCallEnd(r, x, FALSE)
            a == Event("turn_end", n, x)
            t == Append(traces[r], e)
            tools == Append(result[r].tools, c)
<1>4. Advanced(x, n, tools) /\ x \in ResultRecords
  <2>1. Advanced(x, result[r].turns, tools)
    BY <1>2, ToolSpentIs
  <2>. HIDE DEF x
  <2>. QED
    BY <1>2, <2>1 DEF Advanced
<1>5. /\ transcript' = [transcript EXCEPT ![r] = Append(m, Tool(c))] /\ todo' = [todo EXCEPT ![r] = rest]
      /\ rest # <<>> => Fire(r, x, <<e>>) /\ Goto(r, "tools")
      /\ rest = <<>> => Fire(r, x, <<e, a>>) /\ Goto(r, "turn")
  <2>1. Append(<<e>>, a) = <<e, a>>
    BY AppendToOne
  <2>. QED
    BY <1>3, <2>1
<1>. HIDE DEF x
<1>6. e \in EventRecords /\ e.kind = "tool_call_end" /\ e.turn = n /\ e.tool = c /\ ~e.err
  <2>. DEFINE d == Event("tool_call_end", n, x)
  <2>1. d \in EventRecords /\ d.kind = "tool_call_end" /\ d.turn = n
    BY <1>2, <1>4, EventIs DEF Kinds
  <2>2. e = [d EXCEPT !.tool = c, !.err = FALSE]
    BY DEF ToolCallEnd
  <2>3. FALSE \in BOOLEAN
    OBVIOUS
  <2>. HIDE DEF d, c, e
  <2>. QED
    BY <1>2, <2>1, <2>2, <2>3 DEF EventRecords
<1>7. a \in EventRecords /\ a.kind = "turn_end" /\ a.turn = n /\ ~a.err
  BY <1>2, <1>4, EventIs DEF Kinds
<1>. HIDE DEF e, a
<1>8. rest \in Seq(Nat) /\ Owed(Append(m, Tool(c)), rest)
  BY <1>2, OwedAnswers
<1>9. Append(m, Tool(c)) \in Seq(MessageRecords) /\ Append(m, Tool(c)) # <<>>
  <2>1. Tool(c) \in MessageRecords
    BY <1>2, MessagesAre
  <2>. QED
    BY <1>2, <2>1, AppendIs
<1>10. result[r].tools \in Seq(Nat)
  BY <1>2 DEF ResultRecords
<1>. HIDE DEF rest, n, m, c
<1>11. n <= n /\ e.turn <= n /\ a.turn <= n
  <2>1. n \in Nat /\ e.turn = n /\ a.turn = n
    BY <1>2, <1>6, <1>7
  <2>. QED
    BY ONLY <2>1
<1>12. t \in Seq(EventRecords) /\ Tells(t, n, tools)
  BY <1>2, <1>6, <1>10, <1>11, TellsCall
<1>13. Reaches(t, n)
  BY <1>2, <1>6, ReachesMore
<1>14. turn' = [turn EXCEPT ![r] = n]
  BY <1>1, <1>2, RunAsItIs DEF n
<1>. HIDE DEF tools
<1>15. CASE rest # <<>>
  <2>1. Fire(r, x, <<e>>) /\ Goto(r, "tools")
    BY <1>5, <1>15
  <2>2. result' = [result EXCEPT ![r] = x] /\ traces' = [traces EXCEPT ![r] = t]
    BY <1>2, <1>6, <2>1, FireOne
  <2>. HIDE DEF t
  <2>3. RunFits("tools", n, Append(m, Tool(c)), rest, x, t)
    BY <1>2, <1>4, <1>8, <1>9, <1>12, <1>13, <1>15, GoesOnFits
  <2>4. RunMoves(r, "tools", n, Append(m, Tool(c)), rest, x, t)
    BY <1>5, <1>14, <2>1, <2>2 DEF RunMoves, Goto
  <2>. QED
    BY <2>3, <2>4, MovesKeep
<1>16. CASE rest = <<>>
  <2>. DEFINE v == Append(t, a)
  <2>1. Fire(r, x, <<e, a>>) /\ Goto(r, "turn")
    BY <1>5, <1>16
  <2>2. v \in Seq(EventRecords) /\ Tells(v, n, tools) /\ Reaches(v, n)
    <3>. HIDE DEF t
    <3>. QED
      BY <1>2, <1>7, <1>11, <1>12, <1>13, TellsMore, ReachesMore
  <2>3. result' = [result EXCEPT ![r] = x] /\ traces' = [traces EXCEPT ![r] = v]
    <3>1. e \in EventRecords /\ a \in EventRecords
      BY <1>6, <1>7
    <3>2. traces[r] \in Seq(EventRecords)
      BY <1>2
    <3>3. traces[r] \o <<e, a>> = Append(Append(traces[r], e), a)
      BY <3>1, <3>2, RecordedOneByOne
    <3>4. result' = [result EXCEPT ![r] = x] /\ traces' = [traces EXCEPT ![r] = traces[r] \o <<e, a>>]
      BY <2>1 DEF Fire
    <3>. QED
      BY <3>3, <3>4
  <2>. HIDE DEF v
  <2>4. RunFits("turn", n, Append(m, Tool(c)), rest, x, v)
    BY <1>2, <1>4, <1>8, <1>9, <1>16, <2>2, GoesOnFits
  <2>5. RunMoves(r, "turn", n, Append(m, Tool(c)), rest, x, v)
    BY <1>5, <1>14, <2>1, <2>3 DEF RunMoves, Goto
  <2>. QED
    BY <2>4, <2>5, MovesKeep
<1>. QED
  BY <1>15, <1>16

\* A chat whose tools run has a reply of the assistant's.
LEMMA LatestReply ==
  ASSUME NEW m \in Seq(MessageRecords), NEW due \in Seq(Nat), Owed(m, due), due # <<>>
  PROVE  m[Max({i \in DOMAIN m : m[i].role = "assistant"})] \in MessageRecords
<1>. DEFINE S == {i \in DOMAIN m : m[i].role = "assistant"}
<1>1. DOMAIN m = 1..Len(m) /\ Len(m) \in Nat
  OBVIOUS
<1>2. 1 \in DOMAIN due
  <2>1. Len(due) \in Nat /\ Len(due) # 0 /\ DOMAIN due = 1..Len(due)
    OBVIOUS
  <2>. QED
    BY <2>1
<1>3. PICK k \in DOMAIN m : Len(m) + 1 - k \in DOMAIN m[k].calls
  BY <1>2 DEF Owed
<1>4. m[k].calls # <<>>
  <2>1. DOMAIN <<>> = {}
    OBVIOUS
  <2>. QED
    BY <1>3, <2>1
<1>5. S # {}
  BY <1>4 DEF Owed
<1>6. S \in SUBSET (1..Len(m)) /\ IsFiniteSet(1..Len(m))
  BY <1>1, FS_Interval
<1>7. IsFiniteSet(S) /\ S \in SUBSET Int
  BY <1>6, FS_Subset
<1>. HIDE DEF S
<1>8. PICK x \in S : \A y \in S : y <= x
  BY <1>5, <1>7, MaxOfFinite
<1>9. Max(S) = x
  BY <1>7, <1>8, MaxIs
<1>10. x \in DOMAIN m
  BY <1>8 DEF S
<1>11. m[x] \in MessageRecords
  BY <1>10
<1>. QED
  BY <1>9, <1>11 DEF S

\* A tool call that fails keeps the invariant.
LEMMA ToolFailsKeeps ==
  ASSUME AgentInv, NEW r \in Runs, ToolFails(r)
  PROVE  AgentInv'
<1>. DEFINE n == turn[r]
            m == transcript[r]
            c == Head(todo[r])
            reply == m[Max({i \in DOMAIN m : m[i].role = "assistant"})]
<1>1. pc[r] = "tool" /\ UNCHANGED <<turn, transcript, todo>>
  BY DEF ToolFails
<1>2. /\ AgentTyped /\ result[r] \in ResultRecords /\ n \in 0..MaxTurns /\ n \in Nat /\ n >= 1
      /\ m \in Seq(MessageRecords) /\ m # <<>> /\ traces[r] \in Seq(EventRecords)
      /\ todo[r] \in Seq(Nat) /\ todo[r] # <<>> /\ c \in Nat
      /\ Owed(m, todo[r]) /\ Balanced(result[r]) /\ result[r].turns = n
      /\ Tells(traces[r], n, result[r].tools) /\ Reaches(traces[r], n)
  BY <1>1, CallingToolsIs
<1>3. reply \in MessageRecords
  BY <1>2, LatestReply
<1>4. PICK used \in ToolUsages :
        LET z == FinishRun([ToolSpent(r, used) EXCEPT !.stop = "tool_error", !.final = reply], TRUE)
        IN Fire(r, z, FailedCallEvents(r, z)) /\ Goto(r, "done")
  BY DEF ToolFails
<1>. DEFINE x == ToolSpent(r, used)
            y == [x EXCEPT !.stop = "tool_error", !.final = reply]
            z == FinishRun(y, TRUE)
            e == RunEnd(n, z)
            f == ToolCallEnd(r, z, TRUE)
            tools == Append(result[r].tools, c)
            t == Append(Append(traces[r], e), f)
<1>5. Advanced(x, n, tools) /\ x \in ResultRecords
  <2>1. Advanced(x, result[r].turns, tools)
    BY <1>2, ToolSpentIs
  <2>. HIDE DEF x
  <2>. QED
    BY <1>2, <2>1 DEF Advanced
<1>6. Fire(r, z, <<e, f>>) /\ Goto(r, "done")
  BY <1>4 DEF FailedCallEvents
<1>. HIDE DEF x, reply
<1>7. /\ y \in ResultRecords /\ y.stop = "tool_error" /\ y.turns = x.turns /\ y.spans = x.spans
      /\ y.ledger = x.ledger /\ y.tools = x.tools /\ y.budgeted = x.budgeted /\ y.unbudgeted = x.unbudgeted
  BY <1>3, <1>5 DEF ResultRecords, Stops
<1>. HIDE DEF y, tools
<1>8. Books(y) /\ Paid(y, TRUE) /\ y.turns = n /\ y.tools = tools
  BY <1>5, <1>7 DEF Advanced, Balanced, Books, Paid, Usage
<1>9. TRUE \in BOOLEAN
  OBVIOUS
<1>10. z \in ResultRecords /\ z.turns = n /\ z.tools = tools /\ z.stop = "tool_error" /\ z.failed = TRUE
  BY <1>7, <1>8, <1>9, FinishRunIs
<1>. HIDE DEF z
<1>11. e \in EventRecords /\ e.kind = "run_end" /\ e.turn = n /\ e.stop = z.stop /\ e.err
  BY <1>2, <1>10, RunEndIs
<1>12. /\ f \in EventRecords /\ f.kind = "tool_call_end" /\ f.turn = n /\ f.tool = c /\ f.usage = Usage(z)
       /\ f.err
  <2>. DEFINE d == Event("tool_call_end", n, z)
  <2>1. d \in EventRecords /\ d.kind = "tool_call_end" /\ d.turn = n /\ d.usage = Usage(z)
    BY <1>2, <1>10, EventIs DEF Kinds
  <2>2. f = [d EXCEPT !.tool = c, !.err = TRUE]
    BY DEF ToolCallEnd
  <2>. HIDE DEF d, c, f
  <2>. QED
    BY <1>2, <1>9, <2>1, <2>2 DEF EventRecords
<1>13. result[r].tools \in Seq(Nat)
  BY <1>2 DEF ResultRecords
<1>. HIDE DEF e, f, n, m, c
<1>14. e.turn <= n /\ f.turn <= n
  <2>1. n \in Nat /\ e.turn = n /\ f.turn = n
    BY <1>2, <1>11, <1>12
  <2>. QED
    BY ONLY <2>1
<1>15. n = Reported(z)
  BY <1>10 DEF Reported
<1>16. z.tools = Append(result[r].tools, c)
  BY <1>10 DEF tools
<1>17. t \in Seq(EventRecords) /\ Complete(t, n, z)
  BY <1>2, <1>10, <1>11, <1>12, <1>13, <1>14, <1>15, <1>16, EndThenCallCompletes
<1>18. traces' = [traces EXCEPT ![r] = t] /\ result' = [result EXCEPT ![r] = z]
  <2>1. traces[r] \o <<e, f>> = t
    BY <1>2, <1>11, <1>12, RecordedOneByOne, SMTT(20)
  <2>2. result' = [result EXCEPT ![r] = z] /\ traces' = [traces EXCEPT ![r] = traces[r] \o <<e, f>>]
    BY <1>6 DEF Fire
  <2>. QED
    BY <2>1, <2>2
<1>. HIDE DEF t
<1>19. RunFits("done", n, m, todo[r], z, t)
  BY <1>2, <1>7, <1>8, <1>9, <1>17, EndFits DEF z
<1>20. /\ turn' = [turn EXCEPT ![r] = n] /\ transcript' = [transcript EXCEPT ![r] = m]
       /\ todo' = [todo EXCEPT ![r] = todo[r]]
  BY <1>1, <1>2, RunAsItIs DEF n, m
<1>21. RunMoves(r, "done", n, m, todo[r], z, t)
  BY <1>6, <1>18, <1>20 DEF RunMoves, Goto
<1>. QED
  BY <1>19, <1>21, MovesKeep

\* The invariant holds of the runs at first.
LEMMA AgentInvInit ==
  ASSUME AgentInit
  PROVE  AgentInv
<1>1. User \in MessageRecords /\ <<User>> \in Seq(MessageRecords) /\ Owed(<<User>>, <<>>) /\ <<User>> # <<>>
  <2>1. User \in MessageRecords /\ User.role # "tool" /\ User.calls = <<>>
    BY MessagesAre
  <2>. QED
    BY <2>1, OwedFirst
<1>2. NewResult \in ResultRecords /\ Balanced(NewResult) /\ NewResult.turns = 0 /\ NewResult.tools = <<>>
  BY NewBalances DEF NewResult
<1>3. <<>> \in Seq(Nat) /\ <<>> \in Seq(EventRecords) /\ 0 \in 0..MaxTurns
  BY RunAssumption
<1>4. Tells(<<>>, 0, <<>>)
  BY DEF Tells, TellsCalls, Errors, Events, FlattenSeq
<1>5. RunTyped("start", 0, <<User>>, <<>>, NewResult, <<>>)
  BY <1>1, <1>2, <1>3 DEF RunTyped, AgentPlaces
<1>6. RunOwes("start", <<User>>, <<>>, NewResult.failed)
  BY <1>1 DEF RunOwes
<1>7. RunGoesOn("start", 0, NewResult, <<>>)
  BY <1>2, <1>4 DEF RunGoesOn
<1>8. RunFits("start", 0, <<User>>, <<>>, NewResult, <<>>)
  BY <1>5, <1>6, <1>7 DEF RunFits
<1>9. AgentTyped
  BY <1>5 DEF AgentInit, AgentTyped, RunTyped
<1>. QED
  BY <1>8, <1>9 DEF AgentInit, AgentInv

\* Every step of a run keeps the invariant.
LEMMA AgentKeeps ==
  ASSUME AgentInv, AgentNext
  PROVE  AgentInv'
<1>1. PICK r \in Runs : RunStep(r)
  BY DEF AgentNext
<1>. QED
  BY <1>1, BeginRunKeeps, BeginTurnKeeps, FinishMaxTurnsKeeps, ChatKeeps, ChatFailsKeeps, ChatRepliesKeeps,
     BeginToolCallKeeps, ToolAnswersKeeps, ToolFailsKeeps DEF RunStep

\* So does a step of others.
LEMMA AgentKeepsStill ==
  ASSUME AgentInv, UNCHANGED agentVars
  PROVE  AgentInv'
  BY DEF agentVars, AgentInv, AgentTyped

-----------------------------------------------------------------------------
(* The steps of a call of Predict. *)

\* What the invariant says of one call.
CallKeeps(p) == PredictKeeps(p) /\ PredictOwes(p) /\ ReturnsLastReply(p) /\ RepairsLatest(p)

\* A step of call p leaves the others alone.
OnlyOf(p) ==
  /\ accepts' = accepts
  /\ \A q \in Predicts \ {p} :
       /\ place'[q] = place[q] /\ sends'[q] = sends[q] /\ answered'[q] = answered[q] /\ repairs'[q] = repairs[q]
       /\ turns'[q] = turns[q] /\ calls'[q] = calls[q] /\ out'[q] = out[q] /\ outcome'[q] = outcome[q]

\* A step of a call that keeps what is said of it keeps the invariant.
LEMMA OneCallKeeps ==
  ASSUME PredictInv, NEW p \in Predicts, PredictTyped', OnlyOf(p), CallKeeps(p)'
  PROVE  PredictInv'
<1>1. ASSUME NEW q \in Predicts, q # p
      PROVE  CallKeeps(q)'
  <2>1. /\ place'[q] = place[q] /\ sends'[q] = sends[q] /\ answered'[q] = answered[q] /\ repairs'[q] = repairs[q]
        /\ turns'[q] = turns[q] /\ calls'[q] = calls[q] /\ out'[q] = out[q] /\ outcome'[q] = outcome[q]
        /\ accepts' = accepts
    BY <1>1 DEF OnlyOf
  <2>2. PredictKeeps(q) /\ PredictOwes(q) /\ ReturnsLastReply(q) /\ RepairsLatest(q)
    BY DEF PredictInv
  <2>3. PredictKeeps(q)'
    BY <2>1, <2>2 DEF PredictKeeps
  <2>4. PredictOwes(q)'
    BY <2>1, <2>2 DEF PredictOwes
  <2>5. ReturnsLastReply(q)'
    BY <2>1, <2>2 DEF ReturnsLastReply
  <2>6. RepairsLatest(q)'
    BY <2>1, <2>2 DEF RepairsLatest
  <2>. QED
    BY <2>3, <2>4, <2>5, <2>6 DEF CallKeeps
<1>. QED
  BY <1>1 DEF PredictInv, CallKeeps

\* What the invariant says of a call.
LEMMA CallIs ==
  ASSUME PredictInv, NEW p \in Predicts
  PROVE  /\ PredictTyped /\ PredictKeeps(p) /\ PredictOwes(p) /\ ReturnsLastReply(p) /\ RepairsLatest(p)
         /\ sends[p] \in Seq(MessageRecords) /\ answered[p] \in Seq(Answers) /\ repairs[p] \in Seq(Nat)
         /\ turns[p] \in 0..MaxToolTurns /\ turns[p] \in Nat /\ calls[p] \in Seq(Nat) /\ out[p] \in Nat
         /\ outcome[p] \in [prediction : Nat, failed : BOOLEAN] /\ place[p] \in PredictPlaces
         /\ MaxToolTurns \in Nat
<1>1. /\ PredictTyped /\ PredictKeeps(p) /\ PredictOwes(p) /\ ReturnsLastReply(p) /\ RepairsLatest(p)
  BY DEF PredictInv
<1>2. /\ sends[p] \in Seq(MessageRecords) /\ answered[p] \in Seq(Answers) /\ repairs[p] \in Seq(Nat)
      /\ turns[p] \in 0..MaxToolTurns /\ calls[p] \in Seq(Nat) /\ out[p] \in Nat
      /\ outcome[p] \in [prediction : Nat, failed : BOOLEAN] /\ place[p] \in PredictPlaces
  BY <1>1 DEF PredictTyped
<1>3. turns[p] \in Nat /\ MaxToolTurns \in Nat
  BY <1>2, PredictAssumption
<1>. QED
  BY <1>1, <1>2, <1>3

\* A call that fails returns no reply.
LEMMA FailsKeeps ==
  ASSUME PredictInv, NEW p \in Predicts, Fails(p), UNCHANGED <<accepts, sends, answered, repairs, turns, calls, out>>
  PROVE  PredictInv'
<1>1. /\ place' = [place EXCEPT ![p] = "returned"]
      /\ outcome' = [outcome EXCEPT ![p] = [prediction |-> 0, failed |-> TRUE]]
      /\ accepts' = accepts /\ sends' = sends /\ answered' = answered /\ repairs' = repairs
      /\ turns' = turns /\ calls' = calls /\ out' = out
  BY DEF Fails, Return, Enter
<1>2. /\ PredictTyped /\ PredictKeeps(p) /\ PredictOwes(p) /\ RepairsLatest(p)
      /\ answered[p] \in Seq(Answers) /\ repairs[p] \in Seq(Nat)
  BY CallIs
<1>3. place'[p] = "returned" /\ outcome'[p].prediction = 0 /\ outcome'[p].failed = TRUE
  BY <1>1, <1>2 DEF PredictTyped
<1>4. PredictTyped'
  <2>1. "returned" \in PredictPlaces
    BY DEF PredictPlaces
  <2>2. [prediction |-> 0, failed |-> TRUE] \in [prediction : Nat, failed : BOOLEAN]
    OBVIOUS
  <2>3. outcome' \in [Predicts -> [prediction : Nat, failed : BOOLEAN]] /\ place' \in [Predicts -> PredictPlaces]
    BY <1>1, <1>2, <2>1, <2>2 DEF PredictTyped
  <2>. QED
    BY <1>1, <1>2, <2>3 DEF PredictTyped
<1>5. OnlyOf(p)
  BY <1>1, <1>2 DEF OnlyOf, PredictTyped
<1>6. PredictKeeps(p)'
  <2>1. 0 <= Len(answered[p])
    BY <1>2
  <2>. QED
    BY <1>1, <1>2, <1>3, <2>1 DEF PredictKeeps
<1>7. PredictOwes(p)'
  BY <1>1, <1>2, <1>3 DEF PredictOwes
<1>8. ReturnsLastReply(p)'
  BY <1>1, <1>3 DEF ReturnsLastReply
<1>9. RepairsLatest(p)'
  BY <1>1, <1>2 DEF RepairsLatest
<1>. QED
  BY <1>4, <1>5, <1>6, <1>7, <1>8, <1>9, OneCallKeeps DEF CallKeeps

\* A call that goes on to ask the model, or asks it, changes nothing else.
LEMMA AsksKeeps ==
  ASSUME PredictInv, NEW p \in Predicts, NEW w \in {"ask", "asking"}, Enter(p, w), place[p] \in {"begin", "ask"},
         UNCHANGED <<accepts, sends, answered, repairs, turns, calls, out, outcome>>
  PROVE  PredictInv'
<1>1. /\ place' = [place EXCEPT ![p] = w]
      /\ accepts' = accepts /\ sends' = sends /\ answered' = answered /\ repairs' = repairs
      /\ turns' = turns /\ calls' = calls /\ out' = out /\ outcome' = outcome
  BY DEF Enter
<1>2. /\ PredictTyped /\ PredictKeeps(p) /\ PredictOwes(p) /\ RepairsLatest(p)
  BY CallIs
<1>3. place'[p] = w
  BY <1>1, <1>2 DEF PredictTyped
<1>4. PredictTyped'
  <2>1. w \in PredictPlaces
    BY DEF PredictPlaces
  <2>. QED
    BY <1>1, <1>2, <2>1 DEF PredictTyped
<1>5. OnlyOf(p)
  BY <1>1, <1>2 DEF OnlyOf, PredictTyped
<1>6. PredictKeeps(p)'
  BY <1>1, <1>2, <1>3 DEF PredictKeeps
<1>7. PredictOwes(p)'
  BY <1>1, <1>2, <1>3 DEF PredictOwes
<1>8. ReturnsLastReply(p)'
  BY <1>1, <1>3 DEF ReturnsLastReply
<1>9. RepairsLatest(p)'
  BY <1>1, <1>2 DEF RepairsLatest
<1>. QED
  BY <1>4, <1>5, <1>6, <1>7, <1>8, <1>9, OneCallKeeps DEF CallKeeps

\* A message more: one that calls tools is one more of those.
LEMMA CallingAppends ==
  ASSUME NEW m \in Seq(MessageRecords), NEW e \in MessageRecords, IsFiniteSet(Calling(m))
  PROVE  /\ e.calls = <<>> => Calling(Append(m, e)) = Calling(m)
         /\ e.calls # <<>> => /\ IsFiniteSet(Calling(Append(m, e)))
                              /\ Cardinality(Calling(Append(m, e))) = Cardinality(Calling(m)) + 1
<1>. DEFINE t == Append(m, e)
            L == Len(m)
<1>1. /\ L \in Nat /\ DOMAIN t = 1..(L + 1) /\ DOMAIN m = 1..L
      /\ t[L + 1] = e /\ \A i \in 1..L : t[i] = m[i]
  BY AppendIs
<1>. HIDE DEF t, L
<1>2. L + 1 \notin Calling(m)
  BY <1>1 DEF Calling
<1>3. CASE e.calls = <<>>
  <2>1. Calling(t) = Calling(m)
    BY <1>1, <1>3 DEF Calling
  <2>. QED
    BY <1>3, <2>1 DEF t
<1>4. CASE e.calls # <<>>
  <2>1. Calling(t) = Calling(m) \union {L + 1}
    BY <1>1, <1>4 DEF Calling
  <2>2. IsFiniteSet(Calling(t)) /\ Cardinality(Calling(t)) = Cardinality(Calling(m)) + 1
    BY <1>2, <2>1, FS_AddElement
  <2>. QED
    BY <1>4, <2>2 DEF t
<1>. QED
  BY <1>3, <1>4

\* The request to repair the k-th reply is shown right after a reply.
Shown(m, k) == \E i \in 2..Len(m) : m[i] = Repair(k) /\ m[i - 1] = Assistant(<<>>)

\* It stays shown.
LEMMA ShownStays ==
  ASSUME NEW m \in Seq(MessageRecords), NEW e \in MessageRecords, NEW k, Shown(m, k)
  PROVE  Shown(Append(m, e), k)
<1>1. PICK i \in 2..Len(m) : m[i] = Repair(k) /\ m[i - 1] = Assistant(<<>>)
  BY DEF Shown
<1>2. /\ Len(m) \in Nat /\ Len(Append(m, e)) = Len(m) + 1 /\ \A j \in 1..Len(m) : Append(m, e)[j] = m[j]
  BY AppendIs
<1>3. i \in 1..Len(m) /\ i - 1 \in 1..Len(m) /\ i \in 2..(Len(m) + 1)
  BY <1>1, <1>2
<1>. QED
  BY <1>1, <1>2, <1>3 DEF Shown

\* What RepairsLatest says with it.
LEMMA RepairsShown ==
  ASSUME NEW p \in Predicts
  PROVE  RepairsLatest(p) <=>
           \A k \in DOMAIN repairs[p] :
             /\ repairs[p][k] = k
             /\ answered[p][k].form \in {"invalid", "unparsable"} /\ answered[p][k].finish # "length"
             /\ p \in Chats => Shown(sends[p], k)
  BY DEF RepairsLatest, Shown

\* A reply that calls no tools keeps the invariant.
LEMMA RepliesKeeps ==
  ASSUME PredictInv, NEW p \in Predicts, Replies(p)
  PROVE  PredictInv'
<1>1. PICK a \in Answers :
        /\ a.calls = <<>> /\ Usable(p, a)
        /\ answered' = [answered EXCEPT ![p] = Append(@, a)]
  BY DEF Replies
<1>. DEFINE m == sends[p]
            s == IF p \in Chats THEN Append(m, Assistant(<<>>)) ELSE m
            t == Append(answered[p], a)
            L == Len(answered[p])
<1>2. /\ place[p] = "asking" /\ place' = [place EXCEPT ![p] = "check"]
      /\ sends' = [sends EXCEPT ![p] = s] /\ answered' = [answered EXCEPT ![p] = t]
      /\ accepts' = accepts /\ repairs' = repairs /\ turns' = turns /\ calls' = calls /\ out' = out
      /\ outcome' = outcome
  BY <1>1 DEF Replies, Enter
<1>3. /\ PredictTyped /\ PredictKeeps(p) /\ PredictOwes(p) /\ RepairsLatest(p)
      /\ m \in Seq(MessageRecords) /\ answered[p] \in Seq(Answers) /\ repairs[p] \in Seq(Nat)
  BY CallIs
<1>4. /\ L \in Nat /\ t \in Seq(Answers) /\ Len(t) = L + 1 /\ DOMAIN t = 1..(L + 1) /\ DOMAIN answered[p] = 1..L
      /\ t[L + 1] = a /\ \A k \in 1..L : t[k] = answered[p][k]
  BY <1>3, AppendIs
<1>5. /\ Assistant(<<>>) \in MessageRecords /\ Assistant(<<>>).role = "assistant" /\ Assistant(<<>>).calls = <<>>
  <2>1. <<>> \in Seq(Nat)
    OBVIOUS
  <2>. QED
    BY <2>1, MessagesAre
<1>6. s \in Seq(MessageRecords) /\ (p \in Chats => Len(s) >= 1 /\ s[Len(s)] = Assistant(<<>>))
  BY <1>3, <1>5, AppendIs
<1>7. Owed(m, <<>>) /\ calls[p] = <<>>
  BY <1>2, <1>3 DEF PredictOwes
<1>8. Owed(s, <<>>)
  <2>1. Owed(Append(m, Assistant(<<>>)), <<>>)
    BY <1>3, <1>5, <1>7, OwedSpeaks
  <2>. QED
    BY <1>7, <2>1
<1>9. Calling(s) = Calling(m)
  <2>1. IsFiniteSet(Calling(m))
    BY <1>3 DEF PredictOwes
  <2>2. Calling(Append(m, Assistant(<<>>))) = Calling(m)
    BY <1>3, <1>5, <2>1, CallingAppends
  <2>. QED
    BY <2>2
<1>10. \A k : p \in Chats /\ Shown(m, k) => Shown(s, k)
  BY <1>3, <1>5, ShownStays
<1>. HIDE DEF s, t, L
<1>11. /\ place'[p] = "check" /\ sends'[p] = s /\ answered'[p] = t /\ repairs'[p] = repairs[p]
       /\ turns'[p] = turns[p] /\ calls'[p] = <<>> /\ outcome'[p] = outcome[p] /\ out'[p] = out[p]
  BY <1>2, <1>3, <1>7 DEF PredictTyped
<1>12. PredictTyped'
  <2>1. "check" \in PredictPlaces
    BY DEF PredictPlaces
  <2>. QED
    BY <1>2, <1>3, <1>4, <1>6, <2>1 DEF PredictTyped
<1>13. OnlyOf(p)
  BY <1>2, <1>3 DEF OnlyOf, PredictTyped
<1>14. a.finish # "filter" /\ (a.finish = "length" => p \in accepts)
  BY <1>1 DEF Usable
<1>15. Len(repairs[p]) = L /\ outcome[p] = [prediction |-> 0, failed |-> FALSE] /\ out[p] <= L
  BY <1>2, <1>3 DEF PredictKeeps, L
<1>16. PredictKeeps(p)'
  <2>1. \A k \in DOMAIN t : t[k].finish # "filter" /\ (t[k].finish = "length" => p \in accepts)
    BY <1>3, <1>4, <1>14, SMTT(20) DEF PredictKeeps
  <2>2. Len(repairs[p]) <= Len(t) /\ Len(t) = Len(repairs[p]) + 1 /\ out[p] <= Len(t) /\ 0 <= Len(t)
    <3>1. out[p] \in Nat
      BY CallIs
    <3>. QED
      BY <1>4, <1>15, <3>1
  <2>. QED
    BY <1>2, <1>6, <1>11, <1>15, <2>1, <2>2 DEF PredictKeeps
<1>17. PredictOwes(p)'
  BY <1>3, <1>8, <1>9, <1>11 DEF PredictOwes
<1>18. ReturnsLastReply(p)'
  BY <1>11 DEF ReturnsLastReply
<1>19. RepairsLatest(p)'
  <2>1. \A k \in DOMAIN repairs[p] : k \in 1..L
    BY <1>3, <1>15
  <2>2. \A k \in DOMAIN repairs[p] :
             /\ repairs[p][k] = k
             /\ answered[p][k].form \in {"invalid", "unparsable"} /\ answered[p][k].finish # "length"
             /\ p \in Chats => Shown(m, k)
    BY <1>3, RepairsShown
  <2>3. \A k \in DOMAIN repairs[p] :
             /\ repairs[p][k] = k
             /\ t[k].form \in {"invalid", "unparsable"} /\ t[k].finish # "length"
             /\ p \in Chats => Shown(s, k)
    BY <1>4, <1>10, <2>1, <2>2
  <2>. QED
    BY <1>11, <2>3 DEF RepairsLatest, Shown
<1>. QED
  BY <1>12, <1>13, <1>16, <1>17, <1>18, <1>19, OneCallKeeps DEF CallKeeps

\* A reply that calls tools keeps the invariant.
LEMMA CallsToolsKeeps ==
  ASSUME PredictInv, NEW p \in Predicts, CallsTools(p)
  PROVE  PredictInv'
<1>1. place[p] = "asking" /\ p \in Chats /\ UNCHANGED <<accepts, answered, repairs, out>>
  BY DEF CallsTools
<1>2. CASE Fails(p) /\ UNCHANGED <<sends, turns, calls>>
  BY <1>1, <1>2, FailsKeeps
<1>3. ASSUME NEW a \in Answers, a.calls # <<>>, MayCallTools(p), turns' = [turns EXCEPT ![p] = @ + 1],
             sends' = [sends EXCEPT ![p] = Append(@, Assistant(a.calls))], calls' = [calls EXCEPT ![p] = a.calls],
             Enter(p, "tool"), UNCHANGED outcome
      PROVE  PredictInv'
  <2>. DEFINE m == sends[p]
              c == a.calls
              e == Assistant(c)
              s == Append(m, e)
              n == turns[p] + 1
  <2>1. /\ place' = [place EXCEPT ![p] = "tool"] /\ sends' = [sends EXCEPT ![p] = s]
        /\ turns' = [turns EXCEPT ![p] = n] /\ calls' = [calls EXCEPT ![p] = c]
        /\ accepts' = accepts /\ answered' = answered /\ repairs' = repairs /\ out' = out /\ outcome' = outcome
    BY <1>1, <1>3 DEF Enter
  <2>2. /\ PredictTyped /\ PredictKeeps(p) /\ PredictOwes(p) /\ RepairsLatest(p)
        /\ m \in Seq(MessageRecords) /\ turns[p] \in Nat /\ MaxToolTurns \in Nat
    BY CallIs
  <2>3. c \in Seq(Nat) /\ c # <<>>
    BY <1>3, PredictAssumption
  <2>4. e \in MessageRecords /\ e.role = "assistant" /\ e.calls = c
    BY <2>3, MessagesAre
  <2>5. n \in 0..MaxToolTurns
    BY <1>3, <2>2 DEF MayCallTools
  <2>. HIDE DEF n, e, c
  <2>6. s \in Seq(MessageRecords)
    BY <2>2, <2>4, AppendIs
  <2>7. Owed(m, <<>>)
    BY <1>1, <2>2 DEF PredictOwes
  <2>8. Owed(s, c)
    BY <2>2, <2>4, <2>7, OwedSpeaks
  <2>9. IsFiniteSet(Calling(s)) /\ Cardinality(Calling(s)) = n
    <3>1. IsFiniteSet(Calling(m)) /\ Cardinality(Calling(m)) = turns[p]
      BY <2>2 DEF PredictOwes
    <3>2. e.calls # <<>>
      BY <2>3, <2>4
    <3>3. IsFiniteSet(Calling(s)) /\ Cardinality(Calling(s)) = Cardinality(Calling(m)) + 1
      BY <2>2, <2>4, <3>1, <3>2, CallingAppends
    <3>. QED
      BY <3>1, <3>3 DEF n
  <2>10. \A k : Shown(m, k) => Shown(s, k)
    BY <2>2, <2>4, ShownStays
  <2>. HIDE DEF s
  <2>11. /\ place'[p] = "tool" /\ sends'[p] = s /\ answered'[p] = answered[p] /\ repairs'[p] = repairs[p]
         /\ turns'[p] = n /\ calls'[p] = c /\ outcome'[p] = outcome[p] /\ out'[p] = out[p]
    BY <2>1, <2>2 DEF PredictTyped
  <2>12. PredictTyped'
    <3>1. "tool" \in PredictPlaces
      BY DEF PredictPlaces
    <3>. QED
      BY <2>1, <2>2, <2>3, <2>5, <2>6, <3>1 DEF PredictTyped
  <2>13. OnlyOf(p)
    BY <2>1, <2>2 DEF OnlyOf, PredictTyped
  <2>14. PredictKeeps(p)'
    BY <1>1, <2>1, <2>2, <2>11 DEF PredictKeeps
  <2>15. PredictOwes(p)'
    BY <1>1, <2>3, <2>8, <2>9, <2>11 DEF PredictOwes
  <2>16. ReturnsLastReply(p)'
    BY <2>11 DEF ReturnsLastReply
  <2>17. RepairsLatest(p)'
    <3>1. \A k \in DOMAIN repairs[p] :
             /\ repairs[p][k] = k
             /\ answered[p][k].form \in {"invalid", "unparsable"} /\ answered[p][k].finish # "length"
             /\ p \in Chats => Shown(s, k)
      BY <2>2, <2>10, RepairsShown
    <3>. QED
      BY <2>11, <3>1 DEF RepairsLatest, Shown
  <2>. QED
    BY <2>12, <2>13, <2>14, <2>15, <2>16, <2>17, OneCallKeeps DEF CallKeeps
<1>. QED
  BY <1>2, <1>3 DEF CallsTools

\* A tool's answer keeps the invariant.
LEMMA ToolCallAnswersKeeps ==
  ASSUME PredictInv, NEW p \in Predicts, ToolCallAnswers(p)
  PROVE  PredictInv'
<1>. DEFINE m == sends[p]
            c == Head(calls[p])
            e == Tool(c)
            s == Append(m, e)
            rest == Tail(calls[p])
            w == IF rest = <<>> THEN "ask" ELSE "tool"
<1>1. /\ place[p] = "tool" /\ place' = [place EXCEPT ![p] = w] /\ sends' = [sends EXCEPT ![p] = s]
      /\ calls' = [calls EXCEPT ![p] = rest]
      /\ accepts' = accepts /\ answered' = answered /\ repairs' = repairs /\ turns' = turns /\ out' = out
      /\ outcome' = outcome
  BY DEF ToolCallAnswers, Enter
<1>2. /\ PredictTyped /\ PredictKeeps(p) /\ PredictOwes(p) /\ RepairsLatest(p)
      /\ m \in Seq(MessageRecords) /\ calls[p] \in Seq(Nat)
  BY CallIs
<1>3. Owed(m, calls[p]) /\ calls[p] # <<>>
  BY <1>1, <1>2 DEF PredictOwes
<1>4. c \in Nat /\ rest \in Seq(Nat)
  BY <1>2, <1>3
<1>5. e \in MessageRecords /\ e.role = "tool" /\ e.calls = <<>>
  BY <1>4, MessagesAre
<1>6. Owed(s, rest)
  BY <1>2, <1>3, OwedAnswers
<1>. HIDE DEF rest, e
<1>7. s \in Seq(MessageRecords)
  BY <1>2, <1>5, AppendIs
<1>8. IsFiniteSet(Calling(s)) /\ Cardinality(Calling(s)) = turns[p]
  <2>1. IsFiniteSet(Calling(m)) /\ Cardinality(Calling(m)) = turns[p]
    BY <1>2 DEF PredictOwes
  <2>2. Calling(s) = Calling(m)
    BY <1>2, <1>5, <2>1, CallingAppends
  <2>. QED
    BY <2>1, <2>2
<1>9. \A k : Shown(m, k) => Shown(s, k)
  BY <1>2, <1>5, ShownStays
<1>10. w \in PredictPlaces /\ w \in {"ask", "tool"} /\ (w = "tool" <=> rest # <<>>)
  BY DEF PredictPlaces
<1>. HIDE DEF s, w
<1>11. /\ place'[p] = w /\ sends'[p] = s /\ answered'[p] = answered[p] /\ repairs'[p] = repairs[p]
       /\ turns'[p] = turns[p] /\ calls'[p] = rest /\ outcome'[p] = outcome[p] /\ out'[p] = out[p]
  BY <1>1, <1>2 DEF PredictTyped
<1>12. PredictTyped'
  BY <1>1, <1>2, <1>4, <1>7, <1>10 DEF PredictTyped
<1>13. OnlyOf(p)
  BY <1>1, <1>2 DEF OnlyOf, PredictTyped
<1>14. PredictKeeps(p)'
  BY <1>1, <1>2, <1>10, <1>11 DEF PredictKeeps
<1>15. PredictOwes(p)'
  BY <1>2, <1>6, <1>8, <1>10, <1>11 DEF PredictOwes
<1>16. ReturnsLastReply(p)'
  BY <1>10, <1>11 DEF ReturnsLastReply
<1>17. RepairsLatest(p)'
  <2>1. \A k \in DOMAIN repairs[p] :
             /\ repairs[p][k] = k
             /\ answered[p][k].form \in {"invalid", "unparsable"} /\ answered[p][k].finish # "length"
             /\ p \in Chats => Shown(s, k)
    BY <1>2, <1>9, RepairsShown
  <2>. QED
    BY <1>11, <2>1 DEF RepairsLatest, Shown
<1>. QED
  BY <1>12, <1>13, <1>14, <1>15, <1>16, <1>17, OneCallKeeps DEF CallKeeps

\* What the check of a reply starts from.
LEMMA CheckingIs ==
  ASSUME PredictInv, NEW p \in Predicts, place[p] = "check"
  PROVE  LET n == Len(answered[p])
         IN /\ n \in Nat /\ n >= 1 /\ n \in DOMAIN answered[p] /\ answered[p][n] \in Answers
            /\ n = Len(repairs[p]) + 1 /\ Len(repairs[p]) \in Nat /\ out[p] <= n
            /\ answered[p][n].finish # "filter" /\ (answered[p][n].finish = "length" => p \in accepts)
            /\ calls[p] = <<>> /\ Owed(sends[p], <<>>) /\ outcome[p] = [prediction |-> 0, failed |-> FALSE]
<1>1. /\ PredictKeeps(p) /\ PredictOwes(p) /\ answered[p] \in Seq(Answers) /\ repairs[p] \in Seq(Nat)
  BY CallIs
<1>2. /\ Len(answered[p]) \in Nat /\ Len(repairs[p]) \in Nat /\ DOMAIN answered[p] = 1..Len(answered[p])
  BY <1>1
<1>3. Len(answered[p]) = Len(repairs[p]) + 1 /\ out[p] <= Len(answered[p]) /\ outcome[p] = [prediction |-> 0, failed |-> FALSE]
  BY <1>1 DEF PredictKeeps
<1>4. Len(answered[p]) >= 1 /\ Len(answered[p]) \in DOMAIN answered[p]
  BY <1>2, <1>3
<1>5. answered[p][Len(answered[p])] \in Answers
  BY <1>1, <1>4
<1>6. /\ answered[p][Len(answered[p])].finish # "filter"
      /\ answered[p][Len(answered[p])].finish = "length" => p \in accepts
  BY <1>1, <1>4 DEF PredictKeeps
<1>7. calls[p] = <<>> /\ Owed(sends[p], <<>>)
  BY <1>1 DEF PredictOwes
<1>. QED
  BY <1>2, <1>3, <1>4, <1>5, <1>6, <1>7

\* A check after which the call returns keeps the invariant.
LEMMA CheckReturnsKeeps ==
  ASSUME PredictInv, NEW p \in Predicts, place[p] = "check", NEW x \in Nat, NEW o \in Nat, NEW failed \in BOOLEAN,
         out' = [out EXCEPT ![p] = o], Return(p, x, failed),
         UNCHANGED <<accepts, sends, answered, repairs, turns, calls>>,
         o = out[p] \/ o = Len(answered[p]), x = 0 \/ x = Len(answered[p]),
         ~failed => /\ x = Len(answered[p]) /\ o = Len(answered[p])
                    /\ answered[p][Len(answered[p])].form \in {"valid", "loose"}
                    /\ answered[p][Len(answered[p])].finish = "length" => answered[p][Len(answered[p])].form = "valid"
  PROVE  PredictInv'
<1>. DEFINE n == Len(answered[p])
            reply == answered[p][n]
            z == [prediction |-> x, failed |-> failed]
<1>1. /\ place' = [place EXCEPT ![p] = "returned"] /\ outcome' = [outcome EXCEPT ![p] = z]
      /\ accepts' = accepts /\ sends' = sends /\ answered' = answered /\ repairs' = repairs
      /\ turns' = turns /\ calls' = calls
  BY DEF Return, Enter
<1>2. /\ PredictTyped /\ PredictKeeps(p) /\ PredictOwes(p) /\ RepairsLatest(p)
  BY CallIs
<1>3. /\ n \in Nat /\ n >= 1 /\ n = Len(repairs[p]) + 1 /\ Len(repairs[p]) \in Nat /\ out[p] <= n
      /\ reply.finish # "filter" /\ (reply.finish = "length" => p \in accepts)
  BY CheckingIs
<1>4. z \in [prediction : Nat, failed : BOOLEAN] /\ z.prediction = x /\ z.failed = failed
  OBVIOUS
<1>. HIDE DEF z
<1>5. /\ place'[p] = "returned" /\ sends'[p] = sends[p] /\ answered'[p] = answered[p] /\ repairs'[p] = repairs[p]
      /\ turns'[p] = turns[p] /\ calls'[p] = calls[p] /\ outcome'[p] = z /\ out'[p] = o
  BY <1>1, <1>2 DEF PredictTyped
<1>6. PredictTyped'
  <2>1. "returned" \in PredictPlaces
    BY DEF PredictPlaces
  <2>2. /\ outcome' \in [Predicts -> [prediction : Nat, failed : BOOLEAN]] /\ place' \in [Predicts -> PredictPlaces]
        /\ out' \in [Predicts -> Nat]
    BY <1>1, <1>2, <1>4, <2>1 DEF PredictTyped
  <2>. QED
    BY <1>1, <1>2, <2>2 DEF PredictTyped
<1>7. OnlyOf(p)
  BY <1>1, <1>2 DEF OnlyOf, PredictTyped
<1>8. PredictKeeps(p)'
  <2>1. x <= n /\ o <= n /\ Len(repairs[p]) <= n
    BY <1>3
  <2>. QED
    BY <1>1, <1>2, <1>4, <1>5, <2>1 DEF PredictKeeps
<1>9. PredictOwes(p)'
  BY <1>2, <1>5 DEF PredictOwes
<1>10. ReturnsLastReply(p)'
  BY <1>1, <1>3, <1>4, <1>5 DEF ReturnsLastReply
<1>11. RepairsLatest(p)'
  BY <1>1, <1>2, <1>5 DEF RepairsLatest
<1>. QED
  BY <1>6, <1>7, <1>8, <1>9, <1>10, <1>11, OneCallKeeps DEF CallKeeps

\* A check after which the reply is sent for repair keeps the invariant.
LEMMA CheckRepairsKeeps ==
  ASSUME PredictInv, NEW p \in Predicts, place[p] = "check", NEW o \in Nat,
         out' = [out EXCEPT ![p] = o], o = out[p] \/ o = Len(answered[p]),
         ~Accepted(answered[p][Len(answered[p])]), answered[p][Len(answered[p])].finish # "length",
         repairs' = [repairs EXCEPT ![p] = Append(@, ToRepair(p))],
         sends' = [sends EXCEPT ![p] = IF p \in Chats THEN Append(@, Repair(ToRepair(p))) ELSE <<Repair(ToRepair(p))>>],
         Enter(p, "ask"), UNCHANGED <<accepts, answered, turns, calls, outcome>>
  PROVE  PredictInv'
<1>. DEFINE n == Len(answered[p])
            reply == answered[p][n]
            m == sends[p]
            e == Repair(n)
            s == IF p \in Chats THEN Append(m, e) ELSE <<e>>
            q == Append(repairs[p], n)
<1>1. /\ place' = [place EXCEPT ![p] = "ask"] /\ outcome' = outcome
      /\ accepts' = accepts /\ sends' = [sends EXCEPT ![p] = s] /\ answered' = answered
      /\ repairs' = [repairs EXCEPT ![p] = q] /\ turns' = turns /\ calls' = calls
  BY DEF ToRepair, Enter
<1>2. /\ PredictTyped /\ PredictKeeps(p) /\ PredictOwes(p) /\ RepairsLatest(p)
      /\ m \in Seq(MessageRecords) /\ repairs[p] \in Seq(Nat)
  BY CallIs
<1>3. /\ n \in Nat /\ n >= 1 /\ n = Len(repairs[p]) + 1 /\ Len(repairs[p]) \in Nat /\ out[p] <= n
      /\ reply \in Answers /\ Owed(m, <<>>) /\ calls[p] = <<>>
  BY CheckingIs
<1>4. reply.form \in {"invalid", "unparsable"} /\ reply.finish # "length"
  <2>1. reply.form \in {"valid", "loose", "invalid", "unparsable"}
    BY <1>3, PredictAssumption
  <2>. QED
    BY <2>1 DEF Accepted
<1>5. e \in MessageRecords /\ e.role = "user" /\ e.calls = <<>>
  BY <1>3, MessagesAre
<1>6. Shown(s, n) \/ p \notin Chats
  <2>1. ASSUME p \in Chats
        PROVE  Shown(Append(m, e), n)
    <3>1. Len(m) >= 1 /\ m[Len(m)] = Assistant(<<>>)
      BY <1>2, <2>1 DEF PredictKeeps
    <3>2. /\ Len(m) \in Nat /\ Len(Append(m, e)) = Len(m) + 1 /\ Append(m, e)[Len(m) + 1] = e
          /\ \A i \in 1..Len(m) : Append(m, e)[i] = m[i]
      BY <1>2, <1>5, AppendIs
    <3>3. /\ Len(m) + 1 \in 2..(Len(m) + 1) /\ (Len(m) + 1) - 1 = Len(m) /\ Len(m) \in 1..Len(m)
      BY <3>1, <3>2
    <3>4. Append(m, e)[(Len(m) + 1) - 1] = Assistant(<<>>)
      BY <3>1, <3>2, <3>3
    <3>. QED
      BY <3>2, <3>3, <3>4 DEF Shown
  <2>. QED
    BY <2>1
<1>. HIDE DEF e
<1>7. s \in Seq(MessageRecords) /\ Owed(s, <<>>)
  <2>1. Append(m, e) \in Seq(MessageRecords)
    BY <1>2, <1>5, AppendIs
  <2>2. Owed(Append(m, e), <<>>)
    BY <1>2, <1>3, <1>5, OwedSpeaks
  <2>3. <<e>> \in Seq(MessageRecords) /\ Owed(<<e>>, <<>>)
    BY <1>5, OwedFirst
  <2>. QED
    BY <2>1, <2>2, <2>3
<1>8. IsFiniteSet(Calling(s)) /\ Cardinality(Calling(s)) = turns[p]
  <2>1. /\ IsFiniteSet(Calling(m)) /\ Cardinality(Calling(m)) = turns[p] /\ (p \notin Chats => turns[p] = 0)
    BY <1>2 DEF PredictOwes
  <2>2. Calling(Append(m, e)) = Calling(m)
    BY <1>2, <1>5, <2>1, CallingAppends
  <2>3. Calling(<<e>>) = {}
    BY <1>5 DEF Calling
  <2>. QED
    BY <2>1, <2>2, <2>3, FS_EmptySet
<1>9. \A k : p \in Chats /\ Shown(m, k) => Shown(s, k)
  BY <1>2, <1>5, ShownStays
<1>10. /\ q \in Seq(Nat) /\ DOMAIN q = 1..n /\ Len(q) = n /\ q[n] = n
       /\ \A k \in 1..(n - 1) : q[k] = repairs[p][k]
  BY <1>2, <1>3, AppendIs
<1>. HIDE DEF s, q
<1>11. /\ place'[p] = "ask" /\ sends'[p] = s /\ answered'[p] = answered[p] /\ repairs'[p] = q
       /\ turns'[p] = turns[p] /\ calls'[p] = <<>> /\ outcome'[p] = outcome[p] /\ out'[p] = o
  BY <1>1, <1>2, <1>3 DEF PredictTyped
<1>12. PredictTyped'
  <2>1. "ask" \in PredictPlaces
    BY DEF PredictPlaces
  <2>. QED
    <3>1. sends' \in [Predicts -> Seq(MessageRecords)]
      BY ONLY <1>1, <1>2, <1>7 DEF PredictTyped
    <3>2. repairs' \in [Predicts -> Seq(Nat)]
      BY ONLY <1>1, <1>2, <1>10 DEF PredictTyped
    <3>3. out' \in [Predicts -> Nat]
      BY <1>2 DEF PredictTyped
    <3>4. place' \in [Predicts -> PredictPlaces]
      BY ONLY <1>1, <1>2, <2>1 DEF PredictTyped
    <3>. QED
      BY ONLY <1>1, <1>2, <3>1, <3>2, <3>3, <3>4 DEF PredictTyped
<1>13. OnlyOf(p)
  BY <1>1, <1>2 DEF OnlyOf, PredictTyped
<1>14. PredictKeeps(p)'
  <2>1. o <= n /\ n <= n /\ 0 <= n
    BY <1>3
  <2>2. outcome[p] = [prediction |-> 0, failed |-> FALSE]
    BY CheckingIs
  <2>. QED
    BY <1>1, <1>2, <1>10, <1>11, <2>1, <2>2 DEF PredictKeeps
<1>15. PredictOwes(p)'
  BY <1>2, <1>7, <1>8, <1>11 DEF PredictOwes
<1>16. ReturnsLastReply(p)'
  BY <1>11 DEF ReturnsLastReply
<1>17. RepairsLatest(p)'
  <2>1. ASSUME NEW k \in 1..n
        PROVE  /\ q[k] = k
               /\ answered[p][k].form \in {"invalid", "unparsable"} /\ answered[p][k].finish # "length"
               /\ p \in Chats => Shown(s, k)
    <3>1. CASE k = n
      BY <1>4, <1>6, <1>10, <3>1
    <3>2. CASE k # n
      <4>1. k \in 1..(n - 1) /\ k \in DOMAIN repairs[p]
        BY <1>2, <1>3, <3>2
      <4>2. /\ repairs[p][k] = k
            /\ answered[p][k].form \in {"invalid", "unparsable"} /\ answered[p][k].finish # "length"
            /\ p \in Chats => Shown(m, k)
        BY <1>2, <4>1, RepairsShown
      <4>. QED
        BY <1>9, <1>10, <4>1, <4>2
    <3>. QED
      BY <3>1, <3>2
  <2>. QED
    <3>1. \A k \in DOMAIN q :
             /\ q[k] = k
             /\ answered[p][k].form \in {"invalid", "unparsable"} /\ answered[p][k].finish # "length"
             /\ p \in Chats => Shown(s, k)
      BY <1>10, <2>1
    <3>. QED
      BY <1>11, <3>1 DEF RepairsLatest, Shown
<1>. QED
  BY <1>12, <1>13, <1>14, <1>15, <1>16, <1>17, OneCallKeeps DEF CallKeeps

\* The check of a reply keeps the invariant.
LEMMA CheckKeeps ==
  ASSUME PredictInv, NEW p \in Predicts, Check(p)
  PROVE  PredictInv'
<1>. DEFINE n == Len(answered[p])
            reply == answered[p][n]
            o == IF reply.form \in {"valid", "loose"} THEN n ELSE out[p]
            x == IF reply.form = "unparsable" THEN 0 ELSE n
<1>1. place[p] = "check" /\ UNCHANGED <<accepts, answered, turns, calls>>
  BY DEF Check
<1>2. out' = [out EXCEPT ![p] = o]
  BY DEF Check
<1>3. n \in Nat /\ reply \in Answers
  BY <1>1, CheckingIs
<1>4. o \in Nat /\ (o = out[p] \/ o = n) /\ x \in Nat /\ (x = 0 \/ x = n)
  <2>1. out[p] \in Nat
    BY CallIs
  <2>. QED
    BY <1>3, <2>1
<1>5. CASE Accepted(reply) /\ Return(p, n, FALSE) /\ UNCHANGED <<sends, repairs>>
  <2>1. reply.form \in {"valid", "loose"} /\ (reply.finish = "length" => reply.form = "valid")
    BY <1>5 DEF Accepted
  <2>2. o = n
    BY <2>1
  <2>3. FALSE \in BOOLEAN
    OBVIOUS
  <2>. HIDE DEF o
  <2>. QED
    BY <1>1, <1>2, <1>3, <1>4, <1>5, <2>1, <2>2, <2>3, CheckReturnsKeeps
<1>6. CASE Return(p, x, TRUE) /\ UNCHANGED <<sends, repairs>>
  <2>1. TRUE \in BOOLEAN
    OBVIOUS
  <2>. HIDE DEF o, x
  <2>. QED
    BY <1>1, <1>2, <1>4, <1>6, <2>1, CheckReturnsKeeps
<1>7. CASE /\ ~Accepted(reply) /\ reply.finish # "length"
           /\ repairs' = [repairs EXCEPT ![p] = Append(@, ToRepair(p))]
           /\ sends' = [sends EXCEPT ![p] = IF p \in Chats THEN Append(@, Repair(ToRepair(p))) ELSE <<Repair(ToRepair(p))>>]
           /\ Enter(p, "ask") /\ UNCHANGED outcome
  <2>. HIDE DEF o
  <2>. QED
    BY <1>1, <1>2, <1>4, <1>7, CheckRepairsKeeps
<1>. QED
  BY <1>5, <1>6, <1>7 DEF Check

\* The invariant holds of the calls at first.
LEMMA PredictInvInit ==
  ASSUME PredictInit
  PROVE  PredictInv
<1>1. User \in MessageRecords /\ <<User>> \in Seq(MessageRecords) /\ Owed(<<User>>, <<>>) /\ User.calls = <<>>
  <2>1. User \in MessageRecords /\ User.role # "tool" /\ User.calls = <<>>
    BY MessagesAre
  <2>. QED
    BY <2>1, OwedFirst
<1>2. /\ <<>> \in Seq(Nat) /\ <<>> \in Seq(Answers) /\ 0 \in Nat /\ 0 \in 0..MaxToolTurns /\ "begin" \in PredictPlaces
      /\ [prediction |-> 0, failed |-> FALSE] \in [prediction : Nat, failed : BOOLEAN]
  BY PredictAssumption DEF PredictPlaces
<1>3. PredictTyped
  BY <1>1, <1>2 DEF PredictInit, PredictTyped
<1>4. ASSUME NEW p \in Predicts
      PROVE  CallKeeps(p)
  <2>1. /\ place[p] = "begin" /\ sends[p] = <<User>> /\ answered[p] = <<>> /\ repairs[p] = <<>> /\ turns[p] = 0
        /\ calls[p] = <<>> /\ out[p] = 0 /\ outcome[p] = [prediction |-> 0, failed |-> FALSE]
    BY DEF PredictInit
  <2>2. DOMAIN <<>> = {} /\ Len(<<>>) = 0
    OBVIOUS
  <2>3. PredictKeeps(p)
    BY <2>1, <2>2 DEF PredictKeeps
  <2>4. Calling(<<User>>) = {}
    BY <1>1 DEF Calling
  <2>5. PredictOwes(p)
    BY <1>1, <2>1, <2>4, FS_EmptySet DEF PredictOwes
  <2>6. ReturnsLastReply(p)
    BY <2>1 DEF ReturnsLastReply
  <2>7. RepairsLatest(p)
    BY <2>1, <2>2 DEF RepairsLatest
  <2>. QED
    BY <2>3, <2>5, <2>6, <2>7 DEF CallKeeps
<1>. QED
  BY <1>3, <1>4 DEF PredictInv, CallKeeps

\* Every step of a call keeps the invariant.
LEMMA PredictStepKeeps ==
  ASSUME PredictInv, PredictNext
  PROVE  PredictInv'
<1>1. PICK p \in Predicts : PredictStep(p)
  BY DEF PredictNext
<1>2. CASE BeginPredict(p)
  <2>1. place[p] = "begin" /\ UNCHANGED <<accepts, sends, answered, repairs, turns, calls, out>>
    BY <1>2 DEF BeginPredict
  <2>2. CASE Fails(p)
    BY <2>1, <2>2, FailsKeeps
  <2>3. CASE Enter(p, "ask") /\ UNCHANGED outcome
    BY <2>1, <2>3, AsksKeeps
  <2>. QED
    BY <1>2, <2>2, <2>3 DEF BeginPredict
<1>3. CASE Ask(p)
  <2>1. place[p] = "ask" /\ UNCHANGED <<accepts, sends, answered, repairs, turns, calls, out>>
    BY <1>3 DEF Ask
  <2>2. CASE Fails(p)
    BY <2>1, <2>2, FailsKeeps
  <2>3. CASE Enter(p, "asking") /\ UNCHANGED outcome
    BY <2>1, <2>3, AsksKeeps
  <2>. QED
    BY <1>3, <2>2, <2>3 DEF Ask
<1>4. CASE AskFails(p)
  BY <1>4, FailsKeeps DEF AskFails
<1>5. CASE ToolCallFails(p)
  BY <1>5, FailsKeeps DEF ToolCallFails
<1>. QED
  BY <1>1, <1>2, <1>3, <1>4, <1>5, RepliesKeeps, CallsToolsKeeps, ToolCallAnswersKeeps, CheckKeeps DEF PredictStep

\* So does a step of others.
LEMMA PredictKeepsStill ==
  ASSUME PredictInv, UNCHANGED predictVars
  PROVE  PredictInv'
<1>1. /\ accepts' = accepts /\ place' = place /\ sends' = sends /\ answered' = answered /\ repairs' = repairs
      /\ turns' = turns /\ calls' = calls /\ out' = out /\ outcome' = outcome
  BY DEF predictVars
<1>2. PredictTyped'
  BY <1>1 DEF PredictInv, PredictTyped
<1>3. ASSUME NEW p \in Predicts
      PROVE  CallKeeps(p)'
  <2>1. PredictKeeps(p) /\ PredictOwes(p) /\ ReturnsLastReply(p) /\ RepairsLatest(p)
    BY DEF PredictInv
  <2>2. PredictKeeps(p)'
    BY <1>1, <2>1 DEF PredictKeeps
  <2>3. PredictOwes(p)'
    BY <1>1, <2>1 DEF PredictOwes
  <2>4. ReturnsLastReply(p)'
    BY <1>1, <2>1 DEF ReturnsLastReply
  <2>5. RepairsLatest(p)'
    BY <1>1, <2>1 DEF RepairsLatest
  <2>. QED
    BY <2>2, <2>3, <2>4, <2>5 DEF CallKeeps
<1>. QED
  BY <1>2, <1>3 DEF PredictInv, CallKeeps

-----------------------------------------------------------------------------
(* Every execution. *)

\* The budget's count of model calls stays within its limit.
LEMMA AdmittedKeeps ==
  ASSUME AdmittedTyped, [CallersNext]_callersVars
  PROVE  AdmittedTyped'
<1>1. CallLimit \in Nat
  BY LimitAssumption
<1>2. CASE UNCHANGED admitted
  BY <1>2 DEF AdmittedTyped
<1>3. CASE Admitted
  BY <1>1, <1>3 DEF Admitted, AdmittedTyped
<1>4. Admitted \/ UNCHANGED admitted
  <2>1. CASE AgentNext
    BY <2>1 DEF AgentNext, RunStep, BeginRun, BeginTurn, FinishMaxTurns, Chat, ChatFails, ChatReplies, BeginToolCall,
       ToolAnswers, ToolFails, Refused
  <2>2. CASE PredictNext
    BY <2>2 DEF PredictNext, PredictStep, BeginPredict, Ask, AskFails, Replies, CallsTools, ToolCallFails,
       ToolCallAnswers, Check, Refused
  <2>3. CASE UNCHANGED callersVars
    BY <2>3 DEF callersVars
  <2>. QED
    BY <2>1, <2>2, <2>3 DEF CallersNext
<1>. QED
  BY <1>2, <1>3, <1>4

\* The inductive invariant of agents and calls of Predict.
THEOREM CallersInvariant == CallersSpec => []CallersInv
<1>1. CallersInit => CallersInv
  <2>1. CallersInit => admitted = 0
    BY DEF CallersInit, AgentInit
  <2>2. 0 \in 0..CallLimit
    BY LimitAssumption
  <2>. QED
    BY <2>1, <2>2, AgentInvInit, PredictInvInit DEF CallersInit, CallersInv, AdmittedTyped
<1>2. CallersInv /\ [CallersNext]_callersVars => CallersInv'
  <2>1. ASSUME CallersInv, [CallersNext]_callersVars
        PROVE  CallersInv'
    <3>1. AdmittedTyped /\ AgentInv /\ PredictInv
      BY <2>1 DEF CallersInv
    <3>2. AdmittedTyped'
      BY <2>1, <3>1, AdmittedKeeps
    <3>3. AgentInv'
      BY <2>1, <3>1, AgentKeeps, AgentKeepsStill DEF CallersNext, callersVars
    <3>4. PredictInv'
      BY <2>1, <3>1, PredictStepKeeps, PredictKeepsStill DEF CallersNext, callersVars
    <3>. QED
      BY <3>2, <3>3, <3>4 DEF CallersInv
  <2>. QED
    BY <2>1
<1>. QED
  BY <1>1, <1>2, PTL DEF CallersSpec

\* The types of the variables, of agents and of calls of Predict.
THEOREM CallersTypes == CallersSpec => [](AgentTypeOK /\ PredictTypeOK)
<1>1. CallersInv => AgentTypeOK /\ PredictTypeOK
  <2>. SUFFICES ASSUME CallersInv
                PROVE  AgentTypeOK /\ PredictTypeOK
    OBVIOUS
  <2>1. AdmittedTyped /\ AgentInv /\ PredictInv
    BY DEF CallersInv
  <2>2. AgentTypeOK
    <3>1. pc \in [Runs -> AgentPlaces] /\ turn \in [Runs -> 0..MaxTurns]
      BY <2>1 DEF AgentInv, AgentTyped
    <3>2. ASSUME NEW r \in Runs
          PROVE  transcript[r] # <<>> /\ result[r].stop \in Range(StopReasons) \union {"", "max_turns", "tool_error"}
      <4>1. transcript[r] # <<>> /\ result[r] \in ResultRecords
        BY <2>1, RunIs DEF RunTyped
      <4>2. result[r].stop \in Stops
        BY <4>1 DEF ResultRecords
      <4>3. /\ StopReasons["stop"] = "complete" /\ StopReasons["length"] = "length"
            /\ StopReasons["filter"] = "content_filter"
            /\ DOMAIN StopReasons = {"stop", "length", "filter", "none"}
        BY DEF StopReasons
      <4>4. {"complete", "length", "content_filter"} \subseteq Range(StopReasons)
        BY <4>3 DEF Range
      <4>. QED
        BY <4>1, <4>2, <4>4 DEF Stops
    <3>. QED
      BY <2>1, <3>1, <3>2 DEF AgentTypeOK, AgentPlaces, AdmittedTyped
  <2>3. PredictTypeOK
    <3>1. PredictTyped
      BY <2>1 DEF PredictInv
    <3>2. ASSUME NEW p \in Predicts
          PROVE  /\ Range(answered[p]) \subseteq Answers
                 /\ repairs[p] \in Seq(Nat) /\ turns[p] \in 0..MaxToolTurns
                 /\ outcome[p] \in [prediction : 0..Len(answered[p]), failed : BOOLEAN]
                 /\ out[p] \in 0..Len(answered[p])
      <4>1. /\ answered[p] \in Seq(Answers) /\ repairs[p] \in Seq(Nat) /\ turns[p] \in 0..MaxToolTurns
            /\ outcome[p] \in [prediction : Nat, failed : BOOLEAN] /\ out[p] \in Nat /\ PredictKeeps(p)
        BY <2>1, CallIs
      <4>2. outcome[p].prediction <= Len(answered[p]) /\ out[p] <= Len(answered[p]) /\ Len(answered[p]) \in Nat
        BY <4>1 DEF PredictKeeps
      <4>3. out[p] \in 0..Len(answered[p]) /\ outcome[p].prediction \in 0..Len(answered[p])
        BY <4>1, <4>2
      <4>4. outcome[p] \in [prediction : 0..Len(answered[p]), failed : BOOLEAN]
        BY <4>1, <4>3
      <4>5. Range(answered[p]) \subseteq Answers
        BY <4>1 DEF Range
      <4>. QED
        BY <4>1, <4>3, <4>4, <4>5
    <3>. QED
      BY <3>1, <3>2 DEF PredictTypeOK, PredictTyped, PredictPlaces
  <2>. QED
    BY <2>2, <2>3
<1>. QED
  BY <1>1, CallersInvariant, PTL

\* Whoever calls a model, an agent or a Predict, each tool call in what it sends has its answer, in
\* order and before the next reply.
THEOREM CallsAreAnswered == CallersSpec => []CallsAnswered
<1>1. CallersInv => CallsAnswered
  <2>. SUFFICES ASSUME CallersInv
                PROVE  CallsAnswered
    OBVIOUS
  <2>1. AgentInv /\ PredictInv
    BY DEF CallersInv
  <2>2. ASSUME NEW r \in Runs, pc[r] = "calling" \/ (pc[r] = "done" /\ ~result[r].failed)
        PROVE  EachAnswered(transcript[r])
    <3>1. RunTyped(pc[r], turn[r], transcript[r], todo[r], result[r], traces[r])
          /\ RunOwes(pc[r], transcript[r], todo[r], result[r].failed)
      BY <2>1, RunIs
    <3>2. transcript[r] \in Seq(MessageRecords)
      BY <3>1 DEF RunTyped
    <3>3. Owed(transcript[r], <<>>)
      BY <2>2, <3>1 DEF RunOwes
    <3>. QED
      BY <3>2, <3>3, OwedNone
  <2>3. ASSUME NEW p \in Predicts, place[p] = "asking"
        PROVE  EachAnswered(sends[p])
    <3>1. sends[p] \in Seq(MessageRecords) /\ PredictOwes(p)
      BY <2>1, CallIs
    <3>2. Owed(sends[p], <<>>)
      BY <2>3, <3>1 DEF PredictOwes
    <3>. QED
      BY <3>1, <3>2, OwedNone
  <2>. QED
    BY <2>2, <2>3 DEF CallsAnswered, AgentCallsAnswered, PredictCallsAnswered
<1>. QED
  BY <1>1, CallersInvariant, PTL

\* At any moment what an agent run reports adds up: its ledger, its spans and its usage.
THEOREM LedgersAddUp == CallersSpec => []LedgerAddsUp
<1>1. CallersInv => LedgerAddsUp
  <2>. SUFFICES ASSUME AgentInv, NEW r \in Runs PROVE AddsUp(result[r], pc[r])
    BY DEF CallersInv, LedgerAddsUp
  <2>1. CASE pc[r] = "done"
    BY <2>1 DEF AgentInv, RunFits
  <2>2. CASE pc[r] # "done"
    <3>1. result[r] \in ResultRecords /\ Balanced(result[r])
      BY <2>2, RunIs DEF RunTyped, RunGoesOn
    <3>. QED
      BY <2>2, <3>1, BalancedAddsUp
  <2>. QED
    BY <2>1, <2>2
<1>. QED
  BY <1>1, CallersInvariant, PTL

\* The summary of an agent run's trace tells what the run returned.
THEOREM SummariesTell == CallersSpec => []SummaryTellsRun
<1>1. CallersInv => SummaryTellsRun
  BY DEF CallersInv, AgentInv, RunFits, SummaryTellsRun
<1>. QED
  BY <1>1, CallersInvariant, PTL

\* A call of Predict returns the model's last reply or none, repairs the reply before the request,
\* and runs the tools of at most MaxToolTurns replies.
THEOREM TheLastReplyDecides == CallersSpec => []LastReplyDecides
<1>1. CallersInv => LastReplyDecides
  <2>. SUFFICES ASSUME CallersInv, NEW p \in Predicts
                PROVE  ReturnsLastReply(p) /\ RepairsLatest(p) /\ ToolTurnsBounded(p)
    BY DEF LastReplyDecides
  <2>1. /\ ReturnsLastReply(p) /\ RepairsLatest(p) /\ PredictOwes(p)
        /\ turns[p] \in 0..MaxToolTurns /\ MaxToolTurns \in Nat
    BY CallIs DEF CallersInv
  <2>2. Cardinality(Calling(sends[p])) <= MaxToolTurns
    BY <2>1 DEF PredictOwes
  <2>. QED
    BY <2>1, <2>2 DEF ToolTurnsBounded, Calling
<1>. QED
  BY <1>1, CallersInvariant, PTL

-----------------------------------------------------------------------------
(* Which sessions and steps a call concerns. *)

\* The sessions that govern a call are sessions, its own among them.
LEMMA GoverningType ==
  ASSUME NEW c \in Calls
  PROVE  SessionOf[c] \in Governing(c) /\ Governing(c) \subseteq Sessions
<1>1. SessionOf[c] \in Sessions /\ Env[c] \in Seq(Sessions)
  BY SessionsAssumption
<1>2. \A i \in DOMAIN Env[c] : Env[c][i] \in Sessions
  BY <1>1
<1>. QED
  BY <1>1, <1>2 DEF Governing, Enclosing

\* Some function satisfies the equation of StepsAround: the least sets closed under Parent do.
LEMMA StepsAroundRec ==
  \A st \in Steps \union {NoStep} :
    StepsAround[st] = IF st = NoStep THEN {} ELSE {st} \union StepsAround[Parent[st]]
<1>. DEFINE D == Steps \union {NoStep}
            Closed(X) == \A r \in X : Parent[r] # NoStep => Parent[r] \in X
            g == [st \in D |-> {r \in Steps : st # NoStep /\ \A X \in SUBSET Steps : st \in X /\ Closed(X) => r \in X}]
            rec(f) == [st \in D |-> IF st = NoStep THEN {} ELSE {st} \union f[Parent[st]]]
<1>1. Parent \in [Steps -> D] /\ NoStep \notin Steps
  BY StepsAssumption
<1>2. ASSUME NEW st \in Steps
      PROVE  g[st] = {st} \union g[Parent[st]]
  <2>1. st # NoStep /\ Parent[st] \in D
    BY <1>1
  <2>2. {st} \union g[Parent[st]] \subseteq g[st]
    <3>1. st \in g[st]
      BY <2>1
    <3>2. ASSUME NEW r \in g[Parent[st]]
          PROVE  r \in g[st]
      <4>1. r \in Steps /\ Parent[st] # NoStep
        BY <2>1
      <4>2. \A X \in SUBSET Steps : Parent[st] \in X /\ Closed(X) => r \in X
        BY <2>1, <3>2
      <4>3. \A X \in SUBSET Steps : st \in X /\ Closed(X) => r \in X
        BY <4>1, <4>2
      <4>. QED
        BY <4>1, <4>3, <2>1
    <3>. QED
      BY <3>1, <3>2
  <2>3. g[st] \subseteq {st} \union g[Parent[st]]
    <3>. DEFINE Y == {st} \union g[Parent[st]]
    <3>1. Y \in SUBSET Steps
      BY <2>1
    <3>2. ASSUME NEW r \in Y, Parent[r] # NoStep
          PROVE  Parent[r] \in Y
      <4>1. CASE r = st
        <5>1. Parent[st] \in Steps
          BY <4>1, <3>2, <2>1
        <5>. QED
          BY <4>1, <5>1, <2>1, <3>2
      <4>2. CASE r \in g[Parent[st]]
        <5>1. Parent[st] # NoStep /\ r \in Steps
          BY <4>2, <2>1
        <5>2. \A X \in SUBSET Steps : Parent[st] \in X /\ Closed(X) => r \in X
          BY <4>2, <2>1
        <5>3. \A X \in SUBSET Steps : Parent[st] \in X /\ Closed(X) => Parent[r] \in X
          BY <5>2, <3>2
        <5>4. Parent[r] \in Steps
          BY <5>1, <3>2, <1>1
        <5>. QED
          BY <5>1, <5>3, <5>4, <2>1
      <4>. QED
        BY <4>1, <4>2, <3>2
    <3>3. Closed(Y) /\ st \in Y
      BY <3>2
    <3>. HIDE DEF Y
    <3>4. \A r \in g[st] : \A X \in SUBSET Steps : st \in X /\ Closed(X) => r \in X
      OBVIOUS
    <3>5. \A r \in g[st] : r \in Y
      BY <3>1, <3>3, <3>4
    <3>. QED
      BY <3>5 DEF Y
  <2>. QED
    BY <2>2, <2>3
<1>3. g[NoStep] = {}
  OBVIOUS
<1>4. g = rec(g)
  <2>1. g = [st \in D |-> g[st]]
    OBVIOUS
  <2>. HIDE DEF g
  <2>2. \A st \in D : g[st] = IF st = NoStep THEN {} ELSE {st} \union g[Parent[st]]
    BY <1>2, <1>3
  <2>. QED
    BY <2>1, <2>2
<1>. HIDE DEF g
<1>5. StepsAround = CHOOSE f : f = rec(f)
  BY DEF StepsAround
<1>6. StepsAround = rec(StepsAround)
  BY <1>4, <1>5
<1>. QED
  BY <1>6

\* Nothing is around no step, and a step is around itself and inside its parent.
LEMMA StepsAroundSteps ==
  /\ StepsAround[NoStep] = {}
  /\ \A st \in Steps : StepsAround[st] = {st} \union StepsAround[Parent[st]]
<1>1. \A st \in Steps : st # NoStep
  BY StepsAssumption
<1>. QED
  BY <1>1, StepsAroundRec

\* What is around a step around st is around st.
LEMMA StepsAroundClosed ==
  ASSUME NEW st \in Steps \union {NoStep}, NEW r \in StepsAround[st]
  PROVE  r \in Steps /\ StepsAround[r] \subseteq StepsAround[st]
<1>1. PICK depth \in [Steps -> 1..Cardinality(Steps)] :
        \A x \in Steps : Parent[x] # NoStep => depth[Parent[x]] < depth[x]
  BY NestingAssumption
<1>2. \A x \in Steps : depth[x] \in Nat
  BY <1>1
<1>. DEFINE Good(x) == \A y \in StepsAround[x] : y \in Steps /\ StepsAround[y] \subseteq StepsAround[x]
            Bad == {depth[x] : x \in {x \in Steps : ~Good(x)}}
<1>3. \A x \in Steps : Good(x)
  <2>1. SUFFICES ASSUME Bad # {} PROVE FALSE
    OBVIOUS
  <2>2. Bad \in SUBSET Nat
    BY <1>2
  <2>3. PICK least \in Bad : \A d \in Bad : least <= d
    <3>. HIDE DEF Bad
    <3>. QED
      BY <2>1, <2>2, MinIn
  <2>4. PICK x \in Steps : ~Good(x) /\ depth[x] = least
    BY <2>3
  <2>5. PICK y \in StepsAround[x] : ~(y \in Steps /\ StepsAround[y] \subseteq StepsAround[x])
    BY <2>4
  <2>6. y # x /\ y \in StepsAround[Parent[x]]
    BY <2>5, StepsAroundSteps
  <2>7. Parent[x] \in Steps
    BY <2>6, StepsAroundSteps, StepsAssumption
  <2>8. ~Good(Parent[x])
    BY <2>5, <2>6, StepsAroundSteps
  <2>9. depth[Parent[x]] \in Bad
    BY <2>7, <2>8
  <2>10. depth[Parent[x]] < depth[x]
    BY <2>7, <1>1, StepsAssumption
  <2>. QED
    BY <2>3, <2>4, <2>9, <2>10, <2>7, <1>2
<1>. QED
  BY <1>3, StepsAroundSteps

-----------------------------------------------------------------------------
(* Types, and who holds which lock. *)

RecordOf == [call : Calls, result : Calls \union {NoCall}]

Labels ==
  {"idle", "barred", "stage", "cache", "reserve", "refused", "invoke", "store", "record", "done"}

CallTypes ==
  /\ callAt \in [Calls -> Labels]
  /\ answer \in [Calls -> Calls \union {NoCall}]
  /\ noted \in [Calls -> SUBSET Sessions]

CountTypes ==
  /\ toolCalls \in [Sessions -> [Tools -> Nat]]
  /\ total \in [Sessions -> Nat]
  /\ invoked \subseteq Calls

ResultTypes ==
  /\ records \in [Sessions -> Seq(RecordOf)]
  /\ cache = [s \in Sessions |-> cache[s]] /\ staged = [st \in Steps |-> staged[st]]
  /\ \A s \in Sessions : \A t \in DOMAIN cache[s] : cache[s][t] \in Calls
  /\ \A st \in Steps : \A k \in DOMAIN staged[st] : staged[st][k] \in Calls

StepTypes == stepState \in [Steps -> {"running", "returned", "committed", "dropped"}]

\* A mutex is held by the call that locked it, and a call holds locks only of the sessions that
\* govern it and only in reserve.
LocksOwned ==
  /\ holder \in [Sessions -> Calls \union {NoCall}]
  /\ locked \in [Calls -> SUBSET Sessions]
  /\ \A s \in Sessions, c \in Calls : holder[s] = c <=> s \in locked[c]
  /\ \A c \in Calls : locked[c] \subseteq Governing(c) /\ (callAt[c] # "reserve" => locked[c] = {})

LockInv == CallTypes /\ CountTypes /\ ResultTypes /\ StepTypes /\ LocksOwned

\* No session is locked at first.
LEMMA LockInvInit == Init => LockInv
<1>1. \A c \in Calls : c # NoCall
  BY SessionsAssumption
<1>. SUFFICES ASSUME Init PROVE LockInv
  OBVIOUS
<1>2. CallTypes /\ CountTypes
  BY DEF Init, CallTypes, CountTypes, Labels
<1>3. ResultTypes /\ StepTypes
  BY DEF Init, ResultTypes, StepTypes
<1>4. LocksOwned
  BY <1>1 DEF Init, LocksOwned
<1>. QED
  BY <1>2, <1>3, <1>4 DEF LockInv

\* Every step keeps the locks in order.
LEMMA LockInvStep == LockInv /\ [Next]_vars => LockInv'
<1>. SUFFICES ASSUME LockInv, [Next]_vars PROVE LockInv'
  OBVIOUS
<1>. USE DEF LockInv
<1>0. \A c \in Calls : c # NoCall /\ SessionOf[c] \in Governing(c) /\ Governing(c) \subseteq Sessions
  BY SessionsAssumption, GoverningType
<1>1. CASE UNCHANGED vars
  BY <1>1 DEF CallTypes, CountTypes, ResultTypes, StepTypes, LocksOwned, vars, callVars, counts
<1>2. ASSUME NEW c \in Calls, Start(c)
      PROVE  LockInv'
  <2>1. CallTypes'
    BY <1>2 DEF Start, MoveTo, CallTypes, Labels
  <2>2. LocksOwned'
    BY <1>2 DEF Start, MoveTo, LocksOwned, CallTypes
  <2>. QED
    BY <1>2, <2>1, <2>2 DEF Start, CountTypes, ResultTypes, StepTypes, counts
<1>3. ASSUME NEW c \in Calls, LookInStages(c)
      PROVE  LockInv'
  <2>1. StepsAround[StageOf(c)] \subseteq Steps
    BY StepsAroundClosed, StepsAssumption DEF StageOf
  <2>. DEFINE found == {staged[st][CacheKey(c)] : st \in {x \in StepsAround[StageOf(c)] : CacheKey(c) \in DOMAIN staged[x]}}
  <2>2. found \subseteq Calls
    BY <2>1 DEF ResultTypes
  <2>3. \/ UNCHANGED answer /\ callAt' = [callAt EXCEPT ![c] = "cache"]
        \/ \E r \in found : answer' = [answer EXCEPT ![c] = r] /\ callAt' = [callAt EXCEPT ![c] = "record"]
    BY <1>3 DEF LookInStages, Answer, MoveTo
  <2>. HIDE DEF found
  <2>4. CallTypes'
    BY <1>3, <2>2, <2>3 DEF LookInStages, CallTypes, Labels
  <2>5. LocksOwned'
    BY <1>3 DEF LookInStages, Answer, MoveTo, LocksOwned, CallTypes
  <2>. QED
    BY <1>3, <2>4, <2>5 DEF LookInStages, CountTypes, ResultTypes, StepTypes, counts
<1>4. ASSUME NEW c \in Calls, LookInCache(c)
      PROVE  LockInv'
  <2>. DEFINE r == cache[SessionOf[c]][ToolOf[c]]
  <2>3. \/ UNCHANGED answer /\ callAt' = [callAt EXCEPT ![c] = "reserve"]
        \/ /\ ToolOf[c] \in DOMAIN cache[SessionOf[c]]
           /\ answer' = [answer EXCEPT ![c] = r] /\ callAt' = [callAt EXCEPT ![c] = "record"]
    BY <1>4 DEF LookInCache, Answer, MoveTo
  <2>4. SessionOf[c] \in Sessions
    BY <1>0
  <2>5. ToolOf[c] \in DOMAIN cache[SessionOf[c]] => r \in Calls
    BY <2>4 DEF ResultTypes
  <2>. HIDE DEF r
  <2>1. CallTypes'
    BY <1>4, <2>3, <2>5 DEF LookInCache, CallTypes, Labels
  <2>2. LocksOwned'
    BY <1>4 DEF LookInCache, Answer, MoveTo, LocksOwned, CallTypes
  <2>. QED
    BY <1>4, <2>1, <2>2 DEF LookInCache, CountTypes, ResultTypes, StepTypes, counts
<1>5. ASSUME NEW c \in Calls, Lock(c)
      PROVE  LockInv'
  <2>1. LocksOwned'
    BY <1>0, <1>5 DEF Lock, LocksOwned
  <2>. QED
    BY <1>5, <2>1 DEF Lock, CallTypes, CountTypes, ResultTypes, StepTypes, counts
<1>6. ASSUME NEW c \in Calls, Reserve(c)
      PROVE  LockInv'
  <2>1. CountTypes'
    <3>1. CASE UNCHANGED counts
      BY <3>1 DEF CountTypes, counts
    <3>2. CASE /\ toolCalls' = [s \in Sessions |-> IF s \in Governing(c)
                                            THEN [toolCalls[s] EXCEPT ![ToolOf[c]] = @ + 1] ELSE toolCalls[s]]
               /\ total' = [s \in Sessions |-> IF s \in Governing(c) THEN total[s] + 1 ELSE total[s]]
               /\ invoked' = invoked \union {c}
      <4>1. toolCalls' \in [Sessions -> [Tools -> Nat]]
        BY <3>2, PolicyAssumption DEF CountTypes
      <4>. QED
        BY <3>2, <4>1 DEF CountTypes
    <3>. QED
      BY <1>6, <3>1, <3>2 DEF Reserve
  <2>2. CallTypes' /\ \A d \in Calls : d # c => callAt'[d] = callAt[d]
    BY <1>6 DEF Reserve, MoveTo, CallTypes, Labels
  <2>3. LocksOwned'
    <3>1. /\ locked' \in [Calls -> SUBSET Sessions]
          /\ locked'[c] = {}
          /\ \A d \in Calls : d # c => locked'[d] = locked[d]
      BY <1>6 DEF Reserve, Unlock, LocksOwned
    <3>2. /\ holder' \in [Sessions -> Calls \union {NoCall}]
          /\ \A s \in Sessions : holder'[s] = IF s \in locked[c] THEN NoCall ELSE holder[s]
      BY <1>6 DEF Reserve, Unlock, LocksOwned
    <3>3. \A s \in Sessions, d \in Calls : holder'[s] = d <=> s \in locked'[d]
      BY <1>0, <3>1, <3>2 DEF LocksOwned
    <3>. QED
      BY <2>2, <3>1, <3>2, <3>3 DEF LocksOwned
  <2>. QED
    BY <1>6, <2>1, <2>2, <2>3 DEF Reserve, ResultTypes, StepTypes
<1>7. ASSUME NEW c \in Calls, Invoke(c)
      PROVE  LockInv'
  <2>1. CallTypes'
    BY <1>7 DEF Invoke, Answer, MoveTo, CallTypes, Labels
  <2>2. LocksOwned'
    BY <1>7 DEF Invoke, Answer, MoveTo, LocksOwned, CallTypes
  <2>. QED
    BY <1>7, <2>1, <2>2 DEF Invoke, CountTypes, ResultTypes, StepTypes, counts
<1>8. ASSUME NEW c \in Calls, Store(c)
      PROVE  LockInv'
  <2>1. CallTypes'
    BY <1>8 DEF Store, MoveTo, CallTypes, Labels
  <2>2. LocksOwned'
    BY <1>8 DEF Store, MoveTo, LocksOwned, CallTypes
  <2>3. ResultTypes'
    <3>1. CASE /\ staged' = [staged EXCEPT ![StageOf(c)] = With(@, CacheKey(c), c)]
               /\ UNCHANGED <<cache, records>>
      <4>1. \A st \in Steps : \A k \in DOMAIN staged'[st] : staged'[st][k] \in Calls
        BY <3>1 DEF With, ResultTypes
      <4>2. staged' = [st \in Steps |-> staged'[st]]
        BY <3>1 DEF ResultTypes
      <4>. QED
        BY <3>1, <4>1, <4>2 DEF ResultTypes
    <3>2. CASE /\ cache' = [cache EXCEPT ![SessionOf[c]] = With(@, ToolOf[c], c)]
               /\ UNCHANGED <<staged, records>>
      <4>1. \A s \in Sessions : \A t \in DOMAIN cache'[s] : cache'[s][t] \in Calls
        BY <3>2 DEF With, ResultTypes
      <4>2. cache' = [s \in Sessions |-> cache'[s]]
        BY <3>2 DEF ResultTypes
      <4>. QED
        BY <3>2, <4>1, <4>2 DEF ResultTypes
    <3>. QED
      BY <1>8, <3>1, <3>2 DEF Store
  <2>. QED
    BY <1>8, <2>1, <2>2, <2>3 DEF Store, CountTypes, StepTypes, counts
<1>9. ASSUME NEW c \in Calls, Record(c)
      PROVE  LockInv'
  <2>. DEFINE entry == [call |-> c, result |-> answer[c]]
  <2>1. PICK s \in Governing(c) \ noted[c] :
          /\ records' = [records EXCEPT ![s] = Append(@, entry)]
          /\ noted' = [noted EXCEPT ![c] = @ \union {s}]
          /\ callAt' = callAt \/ callAt' = [callAt EXCEPT ![c] = "done"]
    BY <1>9 DEF Record, MoveTo
  <2>2. entry \in RecordOf /\ s \in Sessions
    BY <1>0 DEF CallTypes, RecordOf
  <2>3. ResultTypes'
    BY <1>9, <2>1, <2>2 DEF Record, ResultTypes
  <2>4. CallTypes'
    BY <1>9, <2>1, <2>2 DEF Record, CallTypes, Labels
  <2>5. LocksOwned'
    BY <1>9, <2>1 DEF Record, LocksOwned, CallTypes
  <2>. QED
    BY <1>9, <2>3, <2>4, <2>5 DEF Record, CountTypes, StepTypes, counts
<1>10. ASSUME NEW st \in Steps, EndStep(st) \/ DropStep(st)
       PROVE  LockInv'
  <2>1. StepTypes'
    BY <1>10 DEF EndStep, DropStep, StepTypes
  <2>. QED
    BY <1>10, <2>1
    DEF EndStep, DropStep, CallTypes, CountTypes, ResultTypes, LocksOwned, callVars, counts
<1>11. ASSUME NEW st \in Steps, CommitStep(st)
       PROVE  LockInv'
  <2>. DEFINE own(s) == {t \in Tools : <<s, t>> \in DOMAIN staged[st] /\ GoesToSession(st, s)}
              up == {k \in DOMAIN staged[st] : ~GoesToSession(st, k[1])}
  <2>3. /\ cache' = [s \in Sessions |-> Overlay(cache[s], [t \in own(s) |-> staged[st][<<s, t>>]])]
        /\ staged' = [r \in Steps |-> IF r = Parent[st]
                                      THEN Overlay(staged[r], [k \in up |-> staged[st][k]])
                                      ELSE staged[r]]
        /\ records' = records
    BY <1>11 DEF CommitStep, CommitTo, counts
  <2>4. \A s \in Sessions : \A t \in DOMAIN cache'[s] : cache'[s][t] \in Calls
    BY <2>3 DEF Overlay, ResultTypes
  <2>5. \A r \in Steps : \A k \in DOMAIN staged'[r] : staged'[r][k] \in Calls
    BY <2>3 DEF Overlay, ResultTypes
  <2>6. cache' = [s \in Sessions |-> cache'[s]] /\ staged' = [r \in Steps |-> staged'[r]]
    BY <2>3
  <2>1. ResultTypes'
    BY <2>3, <2>4, <2>5, <2>6 DEF ResultTypes
  <2>2. StepTypes'
    BY <1>11 DEF CommitStep, CommitTo, StepTypes
  <2>. QED
    BY <1>11, <2>1, <2>2
    DEF CommitStep, CommitTo, CallTypes, CountTypes, LocksOwned, callVars, counts
<1>. QED
  BY <1>1, <1>2, <1>3, <1>4, <1>5, <1>6, <1>7, <1>8, <1>9, <1>10, <1>11
  DEF Next, StepMoves, CallStep

\* In every reachable state a mutex is held by the call that locked it, and by no other.
THEOREM SessionTypes == Spec => []TypeOK
<1>1. LockInv => TypeOK
  BY DEF LockInv, CallTypes, CountTypes, ResultTypes, StepTypes, LocksOwned, TypeOK, Labels
<1>. QED
  BY LockInvInit, LockInvStep, <1>1, PTL DEF Spec

-----------------------------------------------------------------------------
(* Limits: what a session counts is what it governed. *)

InvokedOf(s, t) == {c \in InvokedUnder(s) : ToolOf[c] = t}

CountsExact ==
  /\ IsFiniteSet(invoked)
  /\ \A c \in invoked : callAt[c] \in {"invoke", "store", "record", "done"}
  /\ \A s \in Sessions : /\ total[s] = Cardinality(InvokedUnder(s))
                         /\ \A t \in Tools : toolCalls[s][t] = Cardinality(InvokedOf(s, t))

CountInv == LockInv /\ CountsExact /\ LimitsExact

\* No call is counted at first.
LEMMA CountInvInit == Init => CountInv
<1>. SUFFICES ASSUME Init PROVE CountInv
  OBVIOUS
<1>1. invoked = {} /\ \A s \in Sessions : InvokedUnder(s) = {} /\ \A t \in Tools : InvokedOf(s, t) = {}
  BY DEF Init, InvokedUnder, InvokedOf
<1>2. IsFiniteSet({}) /\ Cardinality({}) = 0
  BY FS_EmptySet
<1>3. CountsExact
  BY <1>1, <1>2 DEF Init, CountsExact
<1>4. ASSUME NEW s \in Sessions PROVE WithinLimits(s)
  <2>1. \A t \in Tools : {c \in InvokedUnder(s) : ToolOf[c] = t} = {} /\ MaxCallsPerTool[s][t] \in Nat
    BY <1>1, PolicyAssumption DEF InvokedOf
  <2>2. MaxCalls[s] \in Nat
    BY PolicyAssumption
  <2>. QED
    BY <1>1, <1>2, <2>1, <2>2 DEF WithinLimits
<1>5. \A c \in Calls : callAt[c] = "idle"
  BY DEF Init
<1>. QED
  BY <1>3, <1>4, <1>5, LockInvInit DEF CountInv, LimitsExact

\* The sets of invoked calls are finite, and so they have sizes.
LEMMA InvokedFinite ==
  ASSUME IsFiniteSet(invoked), NEW s, NEW t
  PROVE  /\ IsFiniteSet(InvokedUnder(s)) /\ Cardinality(InvokedUnder(s)) \in Nat
         /\ IsFiniteSet(InvokedOf(s, t)) /\ Cardinality(InvokedOf(s, t)) \in Nat
<1>1. InvokedUnder(s) \subseteq invoked /\ InvokedOf(s, t) \subseteq invoked
  BY DEF InvokedUnder, InvokedOf
<1>2. IsFiniteSet(InvokedUnder(s)) /\ IsFiniteSet(InvokedOf(s, t))
  BY <1>1, FS_Subset
<1>. QED
  BY <1>2, FS_CardinalityType

\* A limit once spent stays spent while calls are only added.
LEMMA SpentStays ==
  ASSUME CountsExact, NEW s \in Sessions, NEW t \in Tools, Spent(s, t), CountsExact',
         invoked \subseteq invoked'
  PROVE  Spent(s, t)'
<1>. DEFINE I == InvokedUnder(s)
            J == InvokedOf(s, t)
<1>1. I \subseteq I' /\ J \subseteq J'
  BY DEF InvokedUnder, InvokedOf
<1>2. /\ IsFiniteSet(I') /\ Cardinality(I') \in Nat
      /\ IsFiniteSet(J') /\ Cardinality(J') \in Nat
  <2>. DEFINE K == invoked'
              KI == {c \in K : s \in Governing(c)}
              KJ == {c \in KI : ToolOf[c] = t}
  <2>1. IsFiniteSet(K) /\ KI \subseteq K /\ KJ \subseteq K
    BY DEF CountsExact
  <2>2. IsFiniteSet(KI) /\ IsFiniteSet(KJ)
    BY <2>1, FS_Subset
  <2>3. Cardinality(KI) \in Nat /\ Cardinality(KJ) \in Nat
    BY <2>2, FS_CardinalityType
  <2>. QED
    BY <2>2, <2>3 DEF InvokedUnder, InvokedOf
<1>. HIDE DEF I, J
<1>3. Cardinality(I) <= Cardinality(I') /\ Cardinality(J) <= Cardinality(J')
  BY <1>1, <1>2, FS_Subset
<1>4. /\ MaxCalls[s] \in Nat /\ MaxCallsPerTool[s][t] \in Nat
      /\ Cardinality(I) \in Nat /\ Cardinality(J) \in Nat
  BY PolicyAssumption, InvokedFinite DEF CountsExact, I, J
<1>5. \/ MaxCalls[s] > 0 /\ Cardinality(I) >= MaxCalls[s]
      \/ MaxCallsPerTool[s][t] > 0 /\ Cardinality(J) >= MaxCallsPerTool[s][t]
  BY DEF Spent, InvokedOf, I, J
<1>6. \/ MaxCalls[s] > 0 /\ Cardinality(I') >= MaxCalls[s]
      \/ MaxCallsPerTool[s][t] > 0 /\ Cardinality(J') >= MaxCallsPerTool[s][t]
  BY <1>2, <1>3, <1>4, <1>5
<1>. QED
  BY <1>6 DEF Spent, InvokedOf, I, J

\* Every step keeps the counts exact.
LEMMA CountInvStep == CountInv /\ [Next]_vars => CountInv'
<1>. SUFFICES ASSUME CountInv, [Next]_vars PROVE CountInv'
  OBVIOUS
<1>1. LockInv /\ LockInv' /\ CountsExact /\ LimitsExact
  BY LockInvStep DEF CountInv
<1>2. \A c \in Calls : Governing(c) \subseteq Sessions /\ ToolOf[c] \in Tools
  BY GoverningType, PolicyAssumption
<1>3. CASE /\ UNCHANGED counts
           /\ \A c \in Calls : \/ callAt'[c] = callAt[c]
                               \/ callAt'[c] \in {"invoke", "store", "record", "done"}
                               \/ c \notin invoked /\ callAt'[c] # "refused"
                               \/ /\ c \notin invoked /\ callAt'[c] = "refused"
                                  /\ \E s \in Governing(c) : Spent(s, ToolOf[c])
  <2>1. /\ invoked' = invoked /\ total' = total /\ toolCalls' = toolCalls
        /\ \A s : InvokedUnder(s)' = InvokedUnder(s)
        /\ \A s, t : InvokedOf(s, t)' = InvokedOf(s, t)
    BY <1>3 DEF counts, InvokedUnder, InvokedOf
  <2>2. \A c \in invoked : callAt'[c] \in {"invoke", "store", "record", "done"}
    BY <1>1, <1>3 DEF CountsExact, LockInv, CountTypes
  <2>3. CountsExact'
    BY <1>1, <2>1, <2>2 DEF CountsExact
  <2>4. \A s : (WithinLimits(s) <=> WithinLimits(s)') /\ \A t : Spent(s, t) <=> Spent(s, t)'
    BY <2>1 DEF WithinLimits, Spent
  <2>5. LimitsExact'
    BY <1>1, <1>3, <2>4 DEF LimitsExact
  <2>. QED
    BY <1>1, <2>3, <2>5 DEF CountInv
<1>4. ASSUME NEW c \in Calls, Reserve(c), ~LimitRefusal(c)
      PROVE  CountInv'
  <2>1. /\ callAt[c] = "reserve" /\ callAt' = [callAt EXCEPT ![c] = "invoke"]
        /\ invoked' = invoked \union {c}
        /\ \A s \in Sessions : /\ total'[s] = IF s \in Governing(c) THEN total[s] + 1 ELSE total[s]
                               /\ toolCalls'[s] = IF s \in Governing(c)
                                                      THEN [toolCalls[s] EXCEPT ![ToolOf[c]] = @ + 1] ELSE toolCalls[s]
    BY <1>4 DEF Reserve, MoveTo
  <2>2. c \notin invoked /\ callAt \in [Calls -> Labels] /\ invoked \subseteq Calls
    BY <1>1, <2>1 DEF CountsExact, LockInv, CallTypes, CountTypes
  <2>3. IsFiniteSet(invoked') /\ \A d \in invoked' : callAt'[d] \in {"invoke", "store", "record", "done"}
    BY <1>1, <2>1, <2>2, FS_AddElement DEF CountsExact
  <2>4. ASSUME NEW s \in Sessions
        PROVE  InvokedUnder(s)' = IF s \in Governing(c) THEN InvokedUnder(s) \union {c} ELSE InvokedUnder(s)
    BY <2>1 DEF InvokedUnder
  <2>5. ASSUME NEW s \in Sessions, NEW t \in Tools
        PROVE  InvokedOf(s, t)' = IF s \in Governing(c) /\ t = ToolOf[c]
                                  THEN InvokedOf(s, t) \union {c} ELSE InvokedOf(s, t)
    BY <2>1 DEF InvokedOf, InvokedUnder
  <2>6. ASSUME NEW s \in Sessions, NEW t \in Tools
        PROVE  /\ IsFiniteSet(InvokedUnder(s)) /\ c \notin InvokedUnder(s)
               /\ IsFiniteSet(InvokedOf(s, t)) /\ c \notin InvokedOf(s, t)
    <3>1. IsFiniteSet(InvokedUnder(s)) /\ IsFiniteSet(InvokedOf(s, t))
      BY <1>1, InvokedFinite DEF CountsExact
    <3>2. c \notin InvokedUnder(s) /\ c \notin InvokedOf(s, t)
      BY <2>2 DEF InvokedUnder, InvokedOf
    <3>. QED
      BY <3>1, <3>2
  <2>7. ASSUME NEW s \in Sessions
        PROVE  /\ total'[s] = Cardinality(InvokedUnder(s)')
               /\ \A t \in Tools : toolCalls'[s][t] = Cardinality(InvokedOf(s, t)')
    <3>1. total'[s] = Cardinality(InvokedUnder(s)')
      <4>1. IsFiniteSet(InvokedUnder(s)) /\ c \notin InvokedUnder(s) /\ total[s] = Cardinality(InvokedUnder(s))
        BY <1>1, <1>2, <2>6 DEF CountsExact
      <4>. QED
        BY <2>1, <2>4, <4>1, FS_AddElement, ZenonT(30)
    <3>2. ASSUME NEW t \in Tools PROVE toolCalls'[s][t] = Cardinality(InvokedOf(s, t)')
      <4>1. IsFiniteSet(InvokedOf(s, t)) /\ c \notin InvokedOf(s, t) /\ toolCalls[s][t] = Cardinality(InvokedOf(s, t))
        BY <1>1, <2>6 DEF CountsExact
      <4>2. toolCalls'[s][t] = IF s \in Governing(c) /\ t = ToolOf[c] THEN toolCalls[s][t] + 1 ELSE toolCalls[s][t]
        BY <1>1, <2>1 DEF LockInv, CountTypes
      <4>. QED
        BY <2>5, <4>1, <4>2, FS_AddElement
    <3>. QED
      BY <3>1, <3>2
  <2>8. CountsExact'
    BY <2>3, <2>7 DEF CountsExact
  <2>9. ASSUME NEW s \in Sessions PROVE WithinLimits(s)'
    <3>1. /\ MaxCalls[s] \in Nat /\ MaxCallsPerTool[s] \in [Tools -> Nat]
          /\ total[s] \in Nat /\ toolCalls[s] \in [Tools -> Nat] /\ ToolOf[c] \in Tools
          /\ total'[s] = Cardinality(InvokedUnder(s)')
          /\ \A t \in Tools : toolCalls'[s][t] = Cardinality(InvokedOf(s, t)')
      BY <1>1, <1>2, <2>7, PolicyAssumption DEF LockInv, CountTypes
    <3>2. /\ MaxCalls[s] > 0 => total[s] <= MaxCalls[s]
          /\ \A t \in Tools : MaxCallsPerTool[s][t] > 0 => toolCalls[s][t] <= MaxCallsPerTool[s][t]
      BY <1>1 DEF LimitsExact, WithinLimits, CountsExact, InvokedOf
    <3>3. s \in Governing(c) =>
            /\ ~(MaxCallsPerTool[s][ToolOf[c]] > 0 /\ toolCalls[s][ToolOf[c]] >= MaxCallsPerTool[s][ToolOf[c]])
            /\ ~(MaxCalls[s] > 0 /\ total[s] >= MaxCalls[s])
      BY <1>4 DEF LimitRefusal
    <3>4. MaxCalls[s] > 0 => total'[s] <= MaxCalls[s]
      <4>1. total'[s] = IF s \in Governing(c) THEN total[s] + 1 ELSE total[s]
        BY <2>1
      <4>2. total[s] \in Nat /\ MaxCalls[s] \in Nat
        BY <3>1
      <4>. QED
        BY <3>2, <3>3, <4>1, <4>2
    <3>5. ASSUME NEW t \in Tools, MaxCallsPerTool[s][t] > 0
          PROVE  toolCalls'[s][t] <= MaxCallsPerTool[s][t]
      <4>1. toolCalls'[s][t] = IF s \in Governing(c) /\ t = ToolOf[c] THEN toolCalls[s][t] + 1 ELSE toolCalls[s][t]
        BY <2>1, <3>1
      <4>2. toolCalls[s][t] \in Nat /\ MaxCallsPerTool[s][t] \in Nat
        BY <3>1
      <4>. QED
        BY <3>2, <3>3, <3>5, <4>1, <4>2
    <3>. QED
      BY <3>1, <3>4, <3>5 DEF WithinLimits, InvokedOf
  <2>10. ASSUME NEW d \in Calls, callAt'[d] = "refused"
         PROVE  \E s \in Governing(d) : Spent(s, ToolOf[d])'
    <3>1. callAt[d] = "refused"
      BY <2>1, <2>2, <2>10
    <3>2. PICK s \in Governing(d) : Spent(s, ToolOf[d])
      BY <1>1, <3>1 DEF LimitsExact
    <3>3. Spent(s, ToolOf[d])'
      BY <1>1, <1>2, <2>1, <2>8, <3>2, SpentStays
    <3>. QED
      BY <3>3
  <2>. QED
    BY <1>1, <2>8, <2>9, <2>10 DEF CountInv, LimitsExact
<1>5. ASSUME NEW c \in Calls, Reserve(c), LimitRefusal(c)
      PROVE  CountInv'
  <2>1. PICK s \in Governing(c) :
          \/ MaxCallsPerTool[s][ToolOf[c]] > 0 /\ toolCalls[s][ToolOf[c]] >= MaxCallsPerTool[s][ToolOf[c]]
          \/ MaxCalls[s] > 0 /\ total[s] >= MaxCalls[s]
    BY <1>5 DEF LimitRefusal
  <2>2. Spent(s, ToolOf[c])
    BY <1>1, <1>2, <2>1 DEF CountsExact, Spent, InvokedOf
  <2>3. callAt[c] = "reserve" /\ callAt' = [callAt EXCEPT ![c] = "refused"] /\ UNCHANGED counts
    BY <1>5 DEF Reserve, MoveTo
  <2>4. c \notin invoked /\ callAt \in [Calls -> Labels]
    BY <1>1, <2>3 DEF CountsExact, LockInv, CallTypes
  <2>. QED
    BY <1>3, <2>2, <2>3, <2>4
<1>6. ASSUME NEW c \in Calls,
             Start(c) \/ LookInStages(c) \/ LookInCache(c) \/ Lock(c) \/ Invoke(c) \/ Store(c) \/ Record(c)
      PROVE  CountInv'
  <2>1. callAt \in [Calls -> Labels] /\ invoked \subseteq Calls
        /\ \A d \in invoked : callAt[d] \in {"invoke", "store", "record", "done"}
    BY <1>1 DEF LockInv, CallTypes, CountTypes, CountsExact
  <2>2. CASE Start(c)
    BY <1>3, <2>1, <2>2 DEF Start, MoveTo
  <2>3. CASE LookInStages(c)
    BY <1>3, <2>1, <2>3 DEF LookInStages, MoveTo, Answer
  <2>4. CASE LookInCache(c)
    BY <1>3, <2>1, <2>4 DEF LookInCache, MoveTo, Answer
  <2>5. CASE Lock(c)
    BY <1>3, <2>1, <2>5 DEF Lock, MoveTo
  <2>6. CASE Invoke(c)
    BY <1>3, <2>1, <2>6 DEF Invoke, MoveTo, Answer
  <2>7. CASE Store(c)
    BY <1>3, <2>1, <2>7 DEF Store, MoveTo
  <2>8. CASE Record(c)
    BY <1>3, <2>1, <2>8 DEF Record, MoveTo
  <2>. QED
    BY <1>6, <2>2, <2>3, <2>4, <2>5, <2>6, <2>7, <2>8
<1>7. ASSUME NEW st \in Steps, EndStep(st) \/ CommitStep(st) \/ DropStep(st)
      PROVE  CountInv'
  <2>1. UNCHANGED <<callAt, counts>>
    BY <1>7 DEF EndStep, CommitStep, CommitTo, DropStep, callVars
  <2>. QED
    BY <1>3, <2>1
<1>8. CASE UNCHANGED vars
  BY <1>3, <1>8 DEF vars, callVars
<1>. QED
  BY <1>4, <1>5, <1>6, <1>7, <1>8 DEF Next, StepMoves, CallStep

\* However calls race, no session's limits are exceeded, and a call is refused only when a limit
\* that governs it is spent.
THEOREM LimitsHold == Spec => []LimitsExact
<1>1. CountInv => LimitsExact
  BY DEF CountInv
<1>. QED
  BY CountInvInit, CountInvStep, <1>1, PTL DEF Spec

-----------------------------------------------------------------------------
(* Records. *)

RecordsOf(c, s) == {i \in DOMAIN records[s] : records[s][i].call = c}

\* The one record of a call is in the sessions it has noted, and nowhere else.
NotedAreRecorded ==
  \A c \in Calls, s \in Sessions :
    /\ s \in noted[c] => \E i \in RecordsOf(c, s) : RecordsOf(c, s) = {i} /\ records[s][i].result = answer[c]
    /\ s \notin noted[c] => RecordsOf(c, s) = {}

NotingInRecord ==
  \A c \in Calls :
    /\ noted[c] \subseteq Governing(c)
    /\ callAt[c] \notin {"record", "done"} => noted[c] = {}
    /\ callAt[c] = "done" => noted[c] = Governing(c)

RecordInv == LockInv /\ NotedAreRecorded /\ NotingInRecord

\* Nothing is recorded at first.
LEMMA RecordInvInit == Init => RecordInv
  BY LockInvInit DEF Init, RecordInv, NotedAreRecorded, NotingInRecord, RecordsOf

\* Every step keeps the records complete.
LEMMA RecordInvStep == RecordInv /\ [Next]_vars => RecordInv'
<1>. SUFFICES ASSUME RecordInv, [Next]_vars PROVE RecordInv'
  OBVIOUS
<1>1. LockInv /\ LockInv' /\ NotedAreRecorded /\ NotingInRecord
  BY LockInvStep DEF RecordInv
<1>2. \A c \in Calls : Governing(c) \subseteq Sessions
  BY GoverningType
<1>3. CASE /\ UNCHANGED <<noted, records>>
           /\ \A c \in Calls : \/ callAt'[c] = callAt[c] /\ answer'[c] = answer[c]
                               \/ callAt[c] \notin {"record", "done"} /\ callAt'[c] # "done"
  <2>1. \A c \in Calls, s \in Sessions : RecordsOf(c, s)' = RecordsOf(c, s)
    BY <1>3 DEF RecordsOf
  <2>2. \A c \in Calls : noted[c] = {} \/ answer'[c] = answer[c]
    BY <1>1, <1>3 DEF NotingInRecord
  <2>3. NotedAreRecorded'
    BY <1>1, <1>3, <2>1, <2>2 DEF NotedAreRecorded
  <2>4. NotingInRecord'
    BY <1>1, <1>3 DEF NotingInRecord
  <2>. QED
    BY <1>1, <2>3, <2>4 DEF RecordInv
<1>4. ASSUME NEW c \in Calls, Record(c)
      PROVE  RecordInv'
  <2>. DEFINE entry == [call |-> c, result |-> answer[c]]
  <2>1. PICK s \in Governing(c) \ noted[c] :
          /\ records' = [records EXCEPT ![s] = Append(@, entry)]
          /\ noted' = [noted EXCEPT ![c] = @ \union {s}]
          /\ IF Governing(c) \ noted[c] = {s} THEN callAt' = [callAt EXCEPT ![c] = "done"] ELSE callAt' = callAt
    BY <1>4 DEF Record, MoveTo
  <2>2. /\ s \in Sessions /\ answer' = answer /\ callAt[c] = "record"
        /\ callAt \in [Calls -> Labels] /\ noted \in [Calls -> SUBSET Sessions]
        /\ answer[c] \in Calls \union {NoCall}
    BY <1>1, <1>2, <1>4 DEF Record, LockInv, CallTypes
  <2>3. entry \in RecordOf /\ entry.call = c /\ entry.result = answer[c]
    BY <2>2 DEF RecordOf
  <2>. HIDE DEF entry
  <2>4. RecordsOf(c, s) = {}
    BY <1>1, <2>1, <2>2 DEF NotedAreRecorded
  <2>5. /\ \A d \in Calls, r \in Sessions : d # c \/ r # s =>
             /\ RecordsOf(d, r)' = RecordsOf(d, r)
             /\ \A i \in RecordsOf(d, r) : records'[r][i] = records[r][i]
        /\ \E i : RecordsOf(c, s)' = {i} /\ records'[s][i] = entry
    <3>. DEFINE old == records[s]
                n == Len(old) + 1
    <3>1. /\ records \in [Sessions -> Seq(RecordOf)] /\ old \in Seq(RecordOf)
          /\ Len(old) \in Nat /\ DOMAIN old = 1..Len(old)
      BY <1>1, <2>2 DEF LockInv, ResultTypes
    <3>2. records'[s] = Append(old, entry) /\ \A r \in Sessions : r # s => records'[r] = records[r]
      BY <3>1, <2>1, <2>2 DEF entry
    <3>3. /\ DOMAIN records'[s] = 1..n
          /\ records'[s][n] = entry
          /\ \A i \in 1..Len(old) : records'[s][i] = old[i]
      <4>1. /\ Append(old, entry) \in Seq(RecordOf)
            /\ Len(Append(old, entry)) = n
            /\ \A i \in 1..Len(old) : Append(old, entry)[i] = old[i]
            /\ Append(old, entry)[n] = entry
        BY <2>3, <3>1
      <4>. QED
        BY <3>2, <4>1
    <3>4. 1..n = 1..Len(old) \union {n} /\ n \notin 1..Len(old)
      BY <3>1
    <3>. HIDE DEF n, old
    <3>5. ASSUME NEW d \in Calls, NEW r \in Sessions, d # c \/ r # s
          PROVE  /\ RecordsOf(d, r)' = RecordsOf(d, r)
                 /\ \A i \in RecordsOf(d, r) : records'[r][i] = records[r][i]
      <4>1. CASE r # s
        BY <3>2, <4>1 DEF RecordsOf
      <4>2. CASE r = s /\ d # c
        <5>1. RecordsOf(d, s)' = {i \in 1..n : records'[s][i].call = d}
          BY <3>3 DEF RecordsOf
        <5>2. RecordsOf(d, s) = {i \in 1..Len(old) : old[i].call = d}
          BY <3>1 DEF RecordsOf, old
        <5>3. RecordsOf(d, s)' = RecordsOf(d, s)
          BY <2>3, <3>3, <3>4, <4>2, <5>1, <5>2
        <5>. QED
          BY <3>3, <4>2, <5>2, <5>3 DEF old
      <4>. QED
        BY <3>5, <4>1, <4>2
    <3>6. RecordsOf(c, s)' = {n}
      <4>1. RecordsOf(c, s)' = {i \in 1..n : records'[s][i].call = c}
        BY <3>3 DEF RecordsOf
      <4>2. {i \in 1..Len(old) : old[i].call = c} = {}
        BY <2>4, <3>1 DEF RecordsOf, old
      <4>. QED
        BY <2>3, <3>3, <3>4, <4>1, <4>2
    <3>. QED
      BY <3>3, <3>5, <3>6
  <2>6. ASSUME NEW d \in Calls, NEW r \in Sessions
        PROVE  /\ r \in noted'[d] => \E i \in RecordsOf(d, r)' :
                    RecordsOf(d, r)' = {i} /\ records'[r][i].result = answer'[d]
               /\ r \notin noted'[d] => RecordsOf(d, r)' = {}
    <3>1. CASE d = c /\ r = s
      <4>1. s \in noted'[c] /\ answer'[c] = answer[c]
        BY <2>1, <2>2
      <4>2. PICK i : RecordsOf(c, s)' = {i} /\ records'[s][i] = entry
        BY <2>5
      <4>. QED
        BY <2>3, <3>1, <4>1, <4>2
    <3>2. CASE d # c \/ r # s
      <4>1. r \in noted'[d] <=> r \in noted[d]
        BY <2>1, <2>2, <3>2
      <4>2. RecordsOf(d, r)' = RecordsOf(d, r) /\ \A i \in RecordsOf(d, r) : records'[r][i] = records[r][i]
        BY <2>5, <3>2
      <4>. QED
        BY <1>1, <2>2, <4>1, <4>2 DEF NotedAreRecorded
    <3>. QED
      BY <3>1, <3>2
  <2>7. NotedAreRecorded'
    BY <2>6 DEF NotedAreRecorded
  <2>8. NotingInRecord'
    BY <1>1, <2>1, <2>2 DEF NotingInRecord
  <2>. QED
    BY <1>1, <2>7, <2>8 DEF RecordInv
<1>5. ASSUME NEW c \in Calls,
             \/ Start(c) \/ LookInStages(c) \/ LookInCache(c) \/ Lock(c) \/ Reserve(c)
             \/ Invoke(c) \/ Store(c)
      PROVE  RecordInv'
  <2>1. callAt \in [Calls -> Labels] /\ answer \in [Calls -> Calls \union {NoCall}]
    BY <1>1 DEF LockInv, CallTypes
  <2>2. CASE Start(c)
    BY <1>3, <2>1, <2>2 DEF Start, MoveTo
  <2>3. CASE LookInStages(c)
    BY <1>3, <2>1, <2>3 DEF LookInStages, MoveTo, Answer
  <2>4. CASE LookInCache(c)
    BY <1>3, <2>1, <2>4 DEF LookInCache, MoveTo, Answer
  <2>5. CASE Lock(c)
    BY <1>3, <2>1, <2>5 DEF Lock, MoveTo
  <2>6. CASE Reserve(c)
    BY <1>3, <2>1, <2>6 DEF Reserve, MoveTo
  <2>7. CASE Invoke(c)
    BY <1>3, <2>1, <2>7 DEF Invoke, MoveTo, Answer
  <2>8. CASE Store(c)
    BY <1>3, <2>1, <2>8 DEF Store, MoveTo
  <2>. QED
    BY <1>5, <2>2, <2>3, <2>4, <2>5, <2>6, <2>7, <2>8
<1>6. ASSUME NEW st \in Steps, EndStep(st) \/ CommitStep(st) \/ DropStep(st)
      PROVE  RecordInv'
  <2>1. UNCHANGED <<callAt, answer, noted, records>>
    BY <1>6 DEF EndStep, CommitStep, CommitTo, DropStep, callVars
  <2>. QED
    BY <1>3, <2>1
<1>7. CASE UNCHANGED vars
  BY <1>3, <1>7 DEF vars, callVars
<1>. QED
  BY <1>4, <1>5, <1>6, <1>7 DEF Next, StepMoves, CallStep

\* A call that reached the tool or the cache is recorded once, with its result, in every session
\* that governs it by the time it returns, and any other call in none.
THEOREM RecordsAreComplete == Spec => []RecordsComplete
<1>1. RecordInv => RecordsComplete
  <2>1. SUFFICES ASSUME RecordInv, NEW c \in Calls, NEW s \in Sessions
        PROVE  /\ callAt[c] = "done" /\ s \in Governing(c) =>
                    \E i \in RecordsOf(c, s) : RecordsOf(c, s) = {i} /\ records[s][i].result = answer[c]
               /\ callAt[c] \in {"barred", "refused"} \/ s \notin Governing(c) => RecordsOf(c, s) = {}
    BY DEF RecordsComplete, RecordsOf
  <2>2. /\ callAt[c] = "done" => noted[c] = Governing(c)
        /\ callAt[c] \in {"barred", "refused"} \/ s \notin Governing(c) => s \notin noted[c]
    BY <2>1 DEF RecordInv, NotingInRecord
  <2>. QED
    BY <2>1, <2>2 DEF RecordInv, NotedAreRecorded
<1>. QED
  BY RecordInvInit, RecordInvStep, <1>1, PTL DEF Spec

-----------------------------------------------------------------------------
(* Nobody waits in a circle. *)

\* The locks that reserve still wants come after those it has.
LocksClimb ==
  \A c \in Calls : \A s \in locked[c], r \in Governing(c) \ locked[c] : s < r

ClimbInv == LockInv /\ LocksClimb

\* No call waits at first.
LEMMA ClimbInvInit == Init => ClimbInv
  BY LockInvInit DEF Init, ClimbInv, LocksClimb

\* Every step keeps the order in which calls lock sessions.
LEMMA ClimbInvStep == ClimbInv /\ [Next]_vars => ClimbInv'
<1>. SUFFICES ASSUME ClimbInv, [Next]_vars PROVE ClimbInv'
  OBVIOUS
<1>1. LockInv /\ LockInv' /\ LocksClimb
  BY LockInvStep DEF ClimbInv
<1>2. CASE locked' = locked
  BY <1>1, <1>2 DEF ClimbInv, LocksClimb
<1>3. ASSUME NEW c \in Calls, Lock(c)
      PROVE  ClimbInv'
  <2>1. PICK s \in Governing(c) \ locked[c] :
          MayLock(c, s) /\ locked' = [locked EXCEPT ![c] = @ \union {s}]
    BY <1>3 DEF Lock
  <2>2. locked \in [Calls -> SUBSET Sessions] /\ Governing(c) \subseteq Sessions /\ Sessions \subseteq Nat
    BY <1>1, GoverningType, SessionsAssumption DEF LockInv, LocksOwned
  <2>3. ASSUME NEW q \in locked'[c], NEW r \in Governing(c) \ locked'[c]
        PROVE  q < r
    <3>1. r \in Governing(c) \ locked[c] /\ r # s /\ r \in Nat /\ s \in Nat
      BY <2>1, <2>2
    <3>2. s < r
      BY <2>1, <3>1 DEF MayLock
    <3>3. q \in locked[c] \/ q = s
      BY <2>1, <2>2
    <3>. QED
      BY <1>1, <3>1, <3>2, <3>3 DEF LocksClimb
  <2>. QED
    BY <1>1, <2>1, <2>2, <2>3 DEF ClimbInv, LocksClimb
<1>4. ASSUME NEW c \in Calls, Reserve(c)
      PROVE  ClimbInv'
  BY <1>1, <1>4 DEF Reserve, Unlock, ClimbInv, LocksClimb, LockInv, LocksOwned
<1>5. ASSUME NEW c \in Calls,
             \/ Start(c) \/ LookInStages(c) \/ LookInCache(c) \/ Invoke(c) \/ Store(c) \/ Record(c)
      PROVE  locked' = locked
  BY <1>5 DEF Start, LookInStages, LookInCache, Invoke, Store, Record
<1>6. ASSUME NEW st \in Steps, EndStep(st) \/ CommitStep(st) \/ DropStep(st)
      PROVE  locked' = locked
  BY <1>6 DEF EndStep, CommitStep, CommitTo, DropStep, callVars
<1>7. CASE UNCHANGED vars
  BY <1>2, <1>7 DEF vars, callVars
<1>. QED
  BY <1>2, <1>3, <1>4, <1>5, <1>6, <1>7 DEF Next, StepMoves, CallStep

\* Call c of reserve has every lock, or the next one it takes is free.
CanGoOn(c) ==
  \/ locked[c] = Governing(c)
  \/ \E s \in Governing(c) \ locked[c] : MayLock(c, s) /\ holder[s] = NoCall

\* While any call is in reserve, one of them can go on.
NoCircle ==
  \A c \in Calls : callAt[c] = "reserve" => \E d \in Calls : callAt[d] = "reserve" /\ CanGoOn(d)

\* reserve never deadlocks: whichever sessions the calls lock, and in whatever order those enclose
\* one another, some call that is reserving has all its locks or finds its next one free.
THEOREM ReserveNeverDeadlocks == Spec => []NoCircle
<1>1. ClimbInv => NoCircle
  <2>. SUFFICES ASSUME ClimbInv, NEW c0 \in Calls, callAt[c0] = "reserve",
                       \A d \in Calls : callAt[d] = "reserve" => ~CanGoOn(d)
                PROVE  FALSE
    BY DEF NoCircle
  <2>. DEFINE W == {s \in Sessions : \E c \in Calls :
                      callAt[c] = "reserve" /\ s \in Governing(c) \ locked[c] /\ MayLock(c, s)}
  <2>1. ASSUME NEW c \in Calls, callAt[c] = "reserve"
        PROVE  \E s \in Governing(c) \ locked[c] : MayLock(c, s) /\ s \in W
    <3>. DEFINE R == Governing(c) \ locked[c]
    <3>. /\ locked[c] \subseteq Governing(c) /\ Governing(c) \subseteq Sessions
         /\ Sessions \subseteq Nat /\ locked[c] # Governing(c)
      BY <2>1, GoverningType, SessionsAssumption DEF CanGoOn, ClimbInv, LockInv, LocksOwned
    <3>1. R # {} /\ R \in SUBSET Nat /\ R \subseteq Sessions
      OBVIOUS
    <3>2. PICK s \in R : \A r \in R : s <= r
      <4>. HIDE DEF R
      <4>. QED
        BY <3>1, MinIn
    <3>. QED
      BY <2>1, <3>1, <3>2 DEF MayLock
  <2>2. ASSUME NEW s \in W
        PROVE  \E r \in W : s < r
    <3>1. PICK c \in Calls : callAt[c] = "reserve" /\ s \in Governing(c) \ locked[c] /\ MayLock(c, s)
      OBVIOUS
    <3>2. holder[s] \in Calls
      BY <3>1 DEF CanGoOn, ClimbInv, LockInv, LocksOwned
    <3>3. s \in locked[holder[s]] /\ callAt[holder[s]] = "reserve"
      BY <3>2 DEF ClimbInv, LockInv, LocksOwned
    <3>4. PICK r \in Governing(holder[s]) \ locked[holder[s]] : r \in W
      BY <2>1, <3>2, <3>3
    <3>. QED
      BY <3>2, <3>3, <3>4 DEF ClimbInv, LocksClimb
  <2>3. W # {} /\ W \subseteq Nat /\ IsFiniteSet(W)
    <3>1. W \subseteq Sessions
      OBVIOUS
    <3>2. IsFiniteSet(W)
      <4>. HIDE DEF W
      <4>. QED
        BY <3>1, SessionsAssumption, FS_Subset
    <3>. QED
      BY <2>1, <3>1, <3>2, SessionsAssumption
  <2>. HIDE DEF W
  <2>4. PICK s \in W : \A r \in W : r <= s
    BY <2>3, MaxOfFinite
  <2>5. PICK r \in W : s < r
    BY <2>2
  <2>. QED
    BY <2>3, <2>4, <2>5
<1>. QED
  BY ClimbInvInit, ClimbInvStep, <1>1, PTL DEF Spec

-----------------------------------------------------------------------------
(* What a cache serves stands. *)

\* Result r was returned by its tool, one of calls, for a call of session s to tool t.
Returned(made, r, s, t) == r \in made /\ SessionOf[r] = s /\ ToolOf[r] = t

\* The step executions around the call that returned r and not in S committed.
Stands(states, r, S) == \A st \in StepsAround[StepOf[r]] \ S : states[st] = "committed"

\* What a step has staged stands but for the steps around it.
StagedStands ==
  \A st \in Steps : \A k \in DOMAIN staged[st] :
    /\ Returned(invoked, staged[st][k], k[1], k[2])
    /\ Stands(stepState, staged[st][k], StepsAround[st])

\* What a session that stages has cached stands but for the steps around every call it makes.
CachedStands ==
  \A s \in Sessions : \A t \in DOMAIN cache[s] :
    /\ Returned(invoked, cache[s][t], s, t)
    /\ s \in Staging => \A c \in Calls :
         SessionOf[c] = s => Stands(stepState, cache[s][t], StepsAround[StepOf[c]])

InvokedInOrder == \A c \in Calls : callAt[c] \in {"invoke", "store"} => c \in invoked

StandInv == LockInv /\ StagedStands /\ CachedStands /\ InvokedInOrder

\* Nothing is cached at first.
LEMMA StandInvInit == Init => StandInv
  BY LockInvInit DEF Init, StandInv, StagedStands, CachedStands, InvokedInOrder

\* What stands keeps standing: no step execution leaves "committed", and calls are only added to
\* the invoked ones.
LEMMA StandsStays ==
  ASSUME LockInv, [Next]_vars
  PROVE  /\ invoked \subseteq invoked'
         /\ \A st \in Steps : stepState[st] = "committed" => stepState'[st] = "committed"
<1>1. CASE UNCHANGED vars
  BY <1>1 DEF vars, counts
<1>2. ASSUME NEW c \in Calls, CallStep(c)
      PROVE  invoked \subseteq invoked' /\ stepState' = stepState
  BY <1>2 DEF CallStep, Start, LookInStages, LookInCache, Lock, Reserve, Invoke, Store, Record, counts
<1>3. ASSUME NEW st \in Steps, EndStep(st) \/ CommitStep(st) \/ DropStep(st)
      PROVE  /\ invoked' = invoked
             /\ \A x \in Steps : stepState[x] = "committed" => stepState'[x] = "committed"
  BY <1>3 DEF EndStep, CommitStep, CommitTo, DropStep, counts, LockInv, StepTypes
<1>. QED
  BY <1>1, <1>2, <1>3 DEF Next, StepMoves

\* Every step keeps the caches to results that stand.
LEMMA StandInvStep == StandInv /\ [Next]_vars => StandInv'
<1>. SUFFICES ASSUME StandInv, [Next]_vars PROVE StandInv'
  OBVIOUS
<1>1. /\ LockInv /\ LockInv' /\ StagedStands /\ CachedStands /\ InvokedInOrder
      /\ invoked \subseteq invoked'
      /\ \A st \in Steps : stepState[st] = "committed" => stepState'[st] = "committed"
  BY LockInvStep, StandsStays DEF StandInv
<1>2. ASSUME NEW r \in Calls
      PROVE  /\ \A s, t : Returned(invoked, r, s, t) => Returned(invoked', r, s, t)
             /\ \A S : Stands(stepState, r, S) => Stands(stepState', r, S)
  <2>1. \A st \in StepsAround[StepOf[r]] : st \in Steps
    BY StepsAroundClosed, StepsAssumption
  <2>. QED
    BY <1>1, <2>1 DEF Returned, Stands
<1>3. /\ \A st \in Steps : \A k \in DOMAIN staged[st] : staged[st][k] \in Calls
      /\ \A s \in Sessions : \A t \in DOMAIN cache[s] : cache[s][t] \in Calls
  BY <1>1 DEF LockInv, ResultTypes
<1>4. staged' = staged => StagedStands'
  BY <1>1, <1>2, <1>3 DEF StagedStands
<1>5. cache' = cache => CachedStands'
  BY <1>1, <1>2, <1>3 DEF CachedStands
<1>6. ASSUME NEW c \in Calls,
             Start(c) \/ LookInStages(c) \/ LookInCache(c) \/ Lock(c) \/ Invoke(c) \/ Record(c)
      PROVE  StandInv'
  <2>1. callAt \in [Calls -> Labels]
    BY <1>1 DEF LockInv, CallTypes
  <2>2. staged' = staged /\ cache' = cache /\ invoked' = invoked
    BY <1>6 DEF Start, LookInStages, LookInCache, Lock, Invoke, Record, counts
  <2>3. InvokedInOrder'
    BY <1>1, <1>6, <2>1, <2>2
    DEF Start, LookInStages, LookInCache, Lock, Invoke, Record, MoveTo, Answer, InvokedInOrder
  <2>. QED
    BY <1>1, <1>4, <1>5, <2>2, <2>3 DEF StandInv
<1>7. ASSUME NEW c \in Calls, Reserve(c)
      PROVE  StandInv'
  <2>1. callAt \in [Calls -> Labels]
    BY <1>1 DEF LockInv, CallTypes
  <2>2. InvokedInOrder'
    BY <1>1, <1>7, <2>1 DEF Reserve, MoveTo, InvokedInOrder
  <2>. QED
    BY <1>1, <1>4, <1>5, <1>7, <2>2 DEF StandInv, Reserve
<1>8. ASSUME NEW c \in Calls, Store(c)
      PROVE  StandInv'
  <2>1. callAt \in [Calls -> Labels] /\ callAt[c] = "store" /\ callAt' = [callAt EXCEPT ![c] = "record"]
        /\ invoked' = invoked /\ stepState' = stepState
    BY <1>1, <1>8 DEF Store, MoveTo, LockInv, CallTypes, counts
  <2>2. InvokedInOrder'
    BY <1>1, <2>1 DEF InvokedInOrder
  <2>3. Returned(invoked', c, SessionOf[c], ToolOf[c]) /\ \A S : Stands(stepState, c, S) => Stands(stepState', c, S)
    BY <1>1, <1>2, <2>1 DEF InvokedInOrder, Returned
  <2>4. CASE /\ StageOf(c) # NoStep /\ cache' = cache
             /\ staged' = [staged EXCEPT ![StageOf(c)] = With(@, CacheKey(c), c)]
    <3>1. StageOf(c) = StepOf[c] /\ StepOf[c] \in Steps
      BY <2>4, StepsAssumption DEF StageOf
    <3>2. Stands(stepState, c, StepsAround[StepOf[c]])
      BY DEF Stands
    <3>3. ASSUME NEW st \in Steps, NEW k \in DOMAIN staged'[st]
          PROVE  Returned(invoked', staged'[st][k], k[1], k[2]) /\ Stands(stepState', staged'[st][k], StepsAround[st])
      <4>1. CASE st = StepOf[c] /\ k = CacheKey(c)
        <5>1. staged'[st][k] = c
          BY <1>1, <2>4, <3>1, <4>1 DEF With, LockInv, ResultTypes
        <5>2. k[1] = SessionOf[c] /\ k[2] = ToolOf[c]
          BY <4>1 DEF CacheKey
        <5>3. Stands(stepState', c, StepsAround[st])
          BY <2>3, <3>2, <4>1
        <5>. QED
          BY <2>3, <5>1, <5>2, <5>3
      <4>2. CASE ~(st = StepOf[c] /\ k = CacheKey(c))
        <5>1. k \in DOMAIN staged[st] /\ staged'[st][k] = staged[st][k]
          BY <1>1, <2>4, <3>1, <3>3, <4>2 DEF With, LockInv, ResultTypes
        <5>2. Returned(invoked, staged[st][k], k[1], k[2]) /\ Stands(stepState, staged[st][k], StepsAround[st])
          BY <1>1, <5>1 DEF StagedStands
        <5>3. Returned(invoked', staged[st][k], k[1], k[2]) /\ Stands(stepState', staged[st][k], StepsAround[st])
          BY <1>2, <1>3, <5>1, <5>2, <2>1 DEF Returned, Stands
        <5>. QED
          BY <5>1, <5>3
      <4>. QED
        BY <4>1, <4>2
    <3>4. StagedStands'
      BY <3>3 DEF StagedStands
    <3>. QED
      BY <1>1, <1>5, <2>2, <2>4, <3>4 DEF StandInv
  <2>5. CASE /\ StageOf(c) = NoStep /\ staged' = staged
             /\ cache' = [cache EXCEPT ![SessionOf[c]] = With(@, ToolOf[c], c)]
    <3>1. SessionOf[c] \in Staging => \A S : Stands(stepState, c, S)
      BY <2>5, StepsAroundSteps DEF StageOf, Stands
    <3>2. ASSUME NEW s \in Sessions, NEW t \in DOMAIN cache'[s]
          PROVE  /\ Returned(invoked', cache'[s][t], s, t)
                 /\ s \in Staging => \A d \in Calls :
                      SessionOf[d] = s => Stands(stepState', cache'[s][t], StepsAround[StepOf[d]])
      <4>1. CASE s = SessionOf[c] /\ t = ToolOf[c]
        <5>1. cache'[s][t] = c
          BY <1>1, <2>5, <4>1 DEF With, LockInv, ResultTypes
        <5>. QED
          BY <2>3, <3>1, <4>1, <5>1
      <4>2. CASE ~(s = SessionOf[c] /\ t = ToolOf[c])
        <5>1. t \in DOMAIN cache[s] /\ cache'[s][t] = cache[s][t]
          BY <1>1, <2>5, <3>2, <4>2 DEF With, LockInv, ResultTypes
        <5>. QED
          BY <1>1, <5>1, <2>1 DEF CachedStands, Returned, Stands
      <4>. QED
        BY <4>1, <4>2
    <3>3. CachedStands'
      BY <3>2 DEF CachedStands
    <3>. QED
      BY <1>1, <1>4, <2>2, <2>5, <3>3 DEF StandInv
  <2>. QED
    BY <1>8, <2>4, <2>5 DEF Store
<1>9. ASSUME NEW st \in Steps, EndStep(st) \/ DropStep(st)
      PROVE  StandInv'
  <2>1. staged' = staged /\ cache' = cache /\ invoked' = invoked /\ callAt' = callAt
    BY <1>9 DEF EndStep, DropStep, callVars, counts
  <2>. QED
    BY <1>1, <1>4, <1>5, <2>1 DEF StandInv, InvokedInOrder
<1>10. ASSUME NEW st \in Steps, CommitStep(st)
       PROVE  StandInv'
  <2>. DEFINE own(s) == {t \in Tools : <<s, t>> \in DOMAIN staged[st] /\ GoesToSession(st, s)}
              up == {k \in DOMAIN staged[st] : ~GoesToSession(st, k[1])}
  <2>1. /\ cache' = [s \in Sessions |-> Overlay(cache[s], [t \in own(s) |-> staged[st][<<s, t>>]])]
        /\ staged' = [r \in Steps |-> IF r = Parent[st]
                                      THEN Overlay(staged[r], [k \in up |-> staged[st][k]])
                                      ELSE staged[r]]
        /\ stepState' = [stepState EXCEPT ![st] = "committed"]
        /\ invoked' = invoked /\ callAt' = callAt
    BY <1>10 DEF CommitStep, CommitTo, counts, callVars
  <2>2. stepState'[st] = "committed"
    BY <1>1, <2>1 DEF LockInv, StepTypes
  <2>3. Parent[st] \in Steps \union {NoStep} /\ StepsAround[st] = {st} \union StepsAround[Parent[st]]
    BY StepsAroundSteps, StepsAssumption
  <2>4. ASSUME NEW k \in DOMAIN staged[st]
        PROVE  /\ Returned(invoked', staged[st][k], k[1], k[2])
               /\ Stands(stepState', staged[st][k], StepsAround[Parent[st]])
    <3>1. Returned(invoked, staged[st][k], k[1], k[2]) /\ Stands(stepState, staged[st][k], StepsAround[st])
      BY <1>1 DEF StagedStands
    <3>2. staged[st][k] \in Calls
      BY <1>3
    <3>3. StepsAround[StepOf[staged[st][k]]] \subseteq Steps
      BY <3>2, StepsAroundClosed, StepsAssumption
    <3>. QED
      BY <1>1, <2>1, <2>2, <2>3, <3>1, <3>3 DEF Returned, Stands
  <2>5. ASSUME NEW r \in Steps, NEW k \in DOMAIN staged'[r]
        PROVE  Returned(invoked', staged'[r][k], k[1], k[2]) /\ Stands(stepState', staged'[r][k], StepsAround[r])
    <3>1. CASE r = Parent[st] /\ k \in up
      <4>1. staged'[r][k] = staged[st][k]
        BY <2>1, <3>1 DEF Overlay
      <4>. QED
        BY <2>4, <3>1, <4>1
    <3>2. CASE ~(r = Parent[st] /\ k \in up)
      <4>1. k \in DOMAIN staged[r] /\ staged'[r][k] = staged[r][k]
        BY <2>1, <2>5, <3>2 DEF Overlay
      <4>2. Returned(invoked, staged[r][k], k[1], k[2]) /\ Stands(stepState, staged[r][k], StepsAround[r])
        BY <1>1, <4>1 DEF StagedStands
      <4>3. StepsAround[StepOf[staged[r][k]]] \subseteq Steps
        BY <1>3, <4>1, StepsAroundClosed, StepsAssumption
      <4>. QED
        BY <1>1, <2>1, <4>1, <4>2, <4>3 DEF Returned, Stands
    <3>. QED
      BY <3>1, <3>2
  <2>6. ASSUME NEW s \in Sessions, NEW t \in DOMAIN cache'[s]
        PROVE  /\ Returned(invoked', cache'[s][t], s, t)
               /\ s \in Staging => \A d \in Calls :
                    SessionOf[d] = s => Stands(stepState', cache'[s][t], StepsAround[StepOf[d]])
    <3>1. CASE t \in own(s)
      <4>1. cache'[s][t] = staged[st][<<s, t>>] /\ <<s, t>> \in DOMAIN staged[st] /\ GoesToSession(st, s)
        BY <2>1, <3>1 DEF Overlay
      <4>2. Returned(invoked', staged[st][<<s, t>>], s, t) /\ Stands(stepState', staged[st][<<s, t>>], StepsAround[Parent[st]])
        BY <2>4, <4>1
      <4>3. ASSUME NEW d \in Calls, SessionOf[d] = s
            PROVE  StepsAround[Parent[st]] \subseteq StepsAround[StepOf[d]]
        BY <4>1, <4>3, NestingAssumption, StepsAroundSteps DEF GoesToSession
      <4>. QED
        BY <4>1, <4>2, <4>3 DEF Stands
    <3>2. CASE t \notin own(s)
      <4>1. t \in DOMAIN cache[s] /\ cache'[s][t] = cache[s][t]
        BY <2>1, <2>6, <3>2 DEF Overlay
      <4>2. StepsAround[StepOf[cache[s][t]]] \subseteq Steps
        BY <1>3, <4>1, StepsAroundClosed, StepsAssumption
      <4>. QED
        BY <1>1, <2>1, <4>1, <4>2 DEF CachedStands, Returned, Stands
    <3>. QED
      BY <3>1, <3>2
  <2>7. StagedStands' /\ CachedStands'
    BY <2>5, <2>6 DEF StagedStands, CachedStands
  <2>. QED
    BY <1>1, <2>1, <2>7 DEF StandInv, InvokedInOrder
<1>11. CASE UNCHANGED vars
  BY <1>1, <1>4, <1>5, <1>11 DEF StandInv, InvokedInOrder, vars, callVars, counts
<1>. QED
  BY <1>6, <1>7, <1>8, <1>9, <1>10, <1>11 DEF Next, StepMoves, CallStep

\* A call is answered from a cache only with a result of its own session that stands for it:
\* every step execution around the call that cached it committed, or is around this call too.
THEOREM CachesServeWhatStands == Spec => HitsStand
<1>. DEFINE Hit(c) ==
       callAt[c] \in {"stage", "cache"} /\ callAt'[c] = "record" =>
         LET from == answer'[c] IN
         /\ from \in invoked /\ SessionOf[from] = SessionOf[c] /\ ToolOf[from] = ToolOf[c]
         /\ SessionOf[c] \in Staging =>
              \A st \in StepsAround[StepOf[from]] \ StepsAround[StepOf[c]] :
                stepState[st] = "committed"
<1>1. StandInv /\ [Next]_vars => [\A c \in Calls : Hit(c)]_vars
  <2>. SUFFICES ASSUME StandInv, Next, NEW c \in Calls,
                       callAt[c] \in {"stage", "cache"}, callAt'[c] = "record"
                PROVE  /\ Returned(invoked, answer'[c], SessionOf[c], ToolOf[c])
                       /\ SessionOf[c] \in Staging => Stands(stepState, answer'[c], StepsAround[StepOf[c]])
    BY DEF Returned, Stands
  <2>1. /\ callAt \in [Calls -> Labels] /\ answer \in [Calls -> Calls \union {NoCall}]
        /\ SessionOf[c] \in Sessions
    BY SessionsAssumption DEF StandInv, LockInv, CallTypes
  <2>2. LookInStages(c) \/ LookInCache(c)
    <3>1. ASSUME NEW d \in Calls, CallStep(d)
          PROVE  d = c /\ (LookInStages(d) \/ LookInCache(d))
      <4>1. d = c
        BY <2>1, <3>1 DEF CallStep, Start, LookInStages, LookInCache, Lock, Reserve, Invoke, Store,
                          Record, MoveTo, Answer
      <4>. QED
        BY <2>1, <3>1, <4>1 DEF CallStep, Start, Lock, Reserve, Invoke, Store, Record
    <3>2. ASSUME NEW st \in Steps, EndStep(st) \/ CommitStep(st) \/ DropStep(st)
          PROVE  FALSE
      BY <3>2 DEF EndStep, CommitStep, CommitTo, DropStep, callVars
    <3>. QED
      BY <3>1, <3>2 DEF Next, StepMoves
  <2>3. CASE LookInStages(c)
    <3>1. PICK st \in StepsAround[StageOf(c)] :
            /\ CacheKey(c) \in DOMAIN staged[st]
            /\ answer' = [answer EXCEPT ![c] = staged[st][CacheKey(c)]]
      BY <2>1, <2>3 DEF LookInStages, MoveTo, Answer
    <3>2. st \in Steps /\ StepsAround[st] \subseteq StepsAround[StepOf[c]]
      BY <3>1, StepsAroundClosed, StepsAroundSteps, StepsAssumption DEF StageOf
    <3>3. /\ Returned(invoked, staged[st][CacheKey(c)], CacheKey(c)[1], CacheKey(c)[2])
          /\ Stands(stepState, staged[st][CacheKey(c)], StepsAround[st])
      BY <3>1, <3>2 DEF StandInv, StagedStands
    <3>4. answer'[c] = staged[st][CacheKey(c)] /\ CacheKey(c)[1] = SessionOf[c] /\ CacheKey(c)[2] = ToolOf[c]
      BY <2>1, <3>1 DEF CacheKey
    <3>. QED
      BY <3>2, <3>3, <3>4 DEF Stands
  <2>4. CASE LookInCache(c)
    <3>1. /\ ToolOf[c] \in DOMAIN cache[SessionOf[c]]
          /\ answer'[c] = cache[SessionOf[c]][ToolOf[c]]
      BY <2>1, <2>4 DEF LookInCache, MoveTo, Answer
    <3>. QED
      BY <2>1, <3>1 DEF StandInv, CachedStands
  <2>. QED
    BY <2>2, <2>3, <2>4
<1>. QED
  BY StandInvInit, StandInvStep, <1>1, PTL DEF Spec, HitsStand
=============================================================================
