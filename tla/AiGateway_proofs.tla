--------------------------- MODULE AiGateway_proofs ---------------------------
(***************************************************************************)
(* The money of the AI gateway, proved for any number of requests, rounds  *)
(* and mails, any cap, batch and backlog, and any provider.                *)
(*                                                                         *)
(* What a step of a request or of a round does to the bill, the ledger and *)
(* the loss is one of a few cases (RequestEffect, RoundEffect); the two    *)
(* invariants are read off them. The overrun needs the stronger Promised:  *)
(* what is in the ledger and what those that passed the gate may still put *)
(* there stay below the cap and one call for each slot.                    *)
(***************************************************************************)
EXTENDS AiGateway, FiniteSetTheorems, SequenceTheorems, TLAPS

Texts == Says \cup {out.says : out \in Outcomes}
RequestStates == [phase : {"idle", "body", "gate", "chat", "save", "record"},
                  job : {"summary", "draft", "probe"}, mail : Mails \cup {IdleRequest.mail}, text : Texts]
RoundStates == [phase : {"idle", "take", "gate", "chat", "write"}, targets : Seq(Mails), done : Seq(Mails)]

WorkTypes == /\ ledger \in Nat /\ billed \in Nat /\ lost \in Nat /\ unread \in Nat
             /\ request \in [Requests -> RequestStates]
             /\ round \in [Rounds -> RoundStates]
             /\ backlog \in Seq(Mails)

\* A batch is no longer than TRIAGE_PER_ROUND, and a round that waits for an answer
\* or writes has something to wait for or write.
Slots == \A t \in Rounds :
    /\ Len(round[t].targets) + Len(round[t].done) <= PerRound
    /\ round[t].phase \in {"idle", "take"} => round[t].targets = <<>> /\ round[t].done = <<>>
    /\ round[t].phase = "chat" => round[t].targets # <<>>
    /\ round[t].phase = "write" => round[t].done # <<>>

\* The calls that passed the gate and are not in the ledger yet, of requests and of
\* rounds; a round that waits for an answer has one more than it has answers.
Committing(r) == request[r].phase \in {"chat", "save", "record"}
Passed(t)     == Len(round[t].done) + IF round[t].phase = "chat" THEN 1 ELSE 0
CommittedRequests == {r \in Requests : Committing(r)}
CommittedMails    == UNION {{t} \X (1..Passed(t)) : t \in Rounds}

Ceiling  == Cap - 1 + Cardinality(Requests) + PerRound * Cardinality(Rounds)
Promised == Cap > 0 => ledger + Cardinality(CommittedRequests) + Cardinality(CommittedMails) <= Ceiling

IInv == WorkTypes /\ Slots /\ EveryCallIsAccounted /\ Promised

-----------------------------------------------------------------------------
(* Counting *)

\* Two sets that differ in one element at most.
LEMMA OneChanges ==
    ASSUME NEW A, NEW B, IsFiniteSet(A), NEW x, A \ {x} = B \ {x}
    PROVE  /\ IsFiniteSet(B)
           /\ x \in A /\ x \in B => Cardinality(B) = Cardinality(A)
           /\ x \notin A /\ x \notin B => Cardinality(B) = Cardinality(A)
           /\ x \notin A /\ x \in B => Cardinality(B) = Cardinality(A) + 1
           /\ x \in A /\ x \notin B => Cardinality(B) = Cardinality(A) - 1
<1>1. CASE x \in A <=> x \in B
  <2>1. A = B
    BY <1>1
  <2> QED BY <1>1, <2>1
<1>2. CASE x \notin A /\ x \in B
  <2>1. B = A \cup {x}
    BY <1>2
  <2> QED BY <1>2, <2>1, FS_AddElement
<1>3. CASE x \in A /\ x \notin B
  <2>1. B = A \ {x}
    BY <1>3
  <2> QED BY <1>3, <2>1, FS_RemoveElement
<1> QED BY <1>1, <1>2, <1>3

\* Every round has at most a batch of numbers.
LEMMA BatchesAreFew ==
    ASSUME NEW P \in SUBSET (Rounds \X (1..PerRound))
    PROVE  IsFiniteSet(P) /\ Cardinality(P) \in Nat /\ Cardinality(P) <= PerRound * Cardinality(Rounds)
<1>1. IsFiniteSet(Rounds) /\ PerRound \in Nat
  BY GatewayAssumption
<1>2. IsFiniteSet(1..PerRound) /\ Cardinality(1..PerRound) = PerRound
  BY <1>1, GatewayAssumption, FS_Interval
<1>3. /\ IsFiniteSet(Rounds \X (1..PerRound))
      /\ Cardinality(Rounds \X (1..PerRound)) = Cardinality(Rounds) * PerRound
  BY <1>1, <1>2, FS_Product
<1>4. IsFiniteSet(P) /\ Cardinality(P) <= Cardinality(Rounds \X (1..PerRound))
  BY <1>3, FS_Subset
<1>5. Cardinality(P) \in Nat /\ Cardinality(Rounds) \in Nat
  BY <1>1, <1>4, FS_CardinalityType
<1> QED BY <1>1, <1>3, <1>4, <1>5

LEMMA SomeRequests ==
    ASSUME NEW R \in SUBSET Requests
    PROVE  IsFiniteSet(R) /\ Cardinality(R) \in Nat /\ Cardinality(R) <= Cardinality(Requests)
BY GatewayAssumption, FS_Subset, FS_CardinalityType

LEMMA BatchTypes ==
    ASSUME WorkTypes, Slots
    PROVE  /\ \A t \in Rounds : /\ Len(round[t].done) \in 0..PerRound /\ Passed(t) \in 0..PerRound
                                /\ DOMAIN round[t].done = 1..Len(round[t].done)
           /\ Unwritten \in SUBSET (Rounds \X (1..PerRound))
           /\ CommittedMails \in SUBSET (Rounds \X (1..PerRound))
<1>1. ASSUME NEW t \in Rounds
      PROVE  /\ Len(round[t].done) \in 0..PerRound /\ Passed(t) \in 0..PerRound
             /\ DOMAIN round[t].done = 1..Len(round[t].done)
  <2>1. round[t].done \in Seq(Mails) /\ round[t].targets \in Seq(Mails)
    BY DEF WorkTypes, RoundStates
  <2>2. /\ Len(round[t].done) \in Nat /\ Len(round[t].targets) \in Nat
        /\ DOMAIN round[t].done = 1..Len(round[t].done)
        /\ round[t].targets # <<>> => Len(round[t].targets) > 0
    BY <2>1, LenProperties, EmptySeq
  <2> DEFINE d == Len(round[t].done)
             g == Len(round[t].targets)
             one == IF round[t].phase = "chat" THEN 1 ELSE 0
  <2>3. g + d <= PerRound /\ (round[t].phase = "chat" => g > 0) /\ Passed(t) = d + one
    BY <2>2 DEF Slots, Passed
  <2>4. PerRound \in Nat /\ d \in Nat /\ g \in Nat /\ one \in {0, 1} /\ (one = 1 => g > 0)
    BY <2>2, <2>3, GatewayAssumption
  <2>5. DOMAIN round[t].done = 1..d
    BY <2>2
  <2> HIDE DEF d, g, one
  <2>6. d \in 0..PerRound /\ d + one \in 0..PerRound
    BY <2>3, <2>4
  <2> QED BY <2>3, <2>5, <2>6 DEF d
<1>2. \A t \in Rounds : /\ {t} \X (1..Passed(t)) \subseteq Rounds \X (1..PerRound)
                       /\ {t} \X DOMAIN round[t].done \subseteq Rounds \X (1..PerRound)
  <2>1. \A t \in Rounds : 1..Passed(t) \subseteq 1..PerRound /\ DOMAIN round[t].done \subseteq 1..PerRound
    BY <1>1, GatewayAssumption
  <2> QED BY <2>1
<1> QED BY <1>1, <1>2 DEF Unwritten, CommittedMails

\* Each round u numbers what it has 1 to f[u].
Numbers(f) == UNION {{u} \X (1..f[u]) : u \in Rounds}

\* When one round has one more or one less, so have all of them together.
LEMMA NumbersChange ==
    ASSUME NEW f \in [Rounds -> Nat], NEW g \in [Rounds -> Nat], NEW t \in Rounds,
           \A u \in Rounds \ {t} : g[u] = f[u],
           g[t] = f[t] \/ g[t] = f[t] + 1 \/ g[t] = f[t] - 1,
           IsFiniteSet(Numbers(f))
    PROVE  Cardinality(Numbers(g)) = Cardinality(Numbers(f)) + (g[t] - f[t])
<1> DEFINE had  == f[t]
           has  == g[t]
           last == IF has > had THEN has ELSE had
           x    == <<t, last>>
           n    == Cardinality(Numbers(f))
           k    == Cardinality(Numbers(g))
<1>1. /\ Numbers(f) = {p \in Rounds \X Nat : p[2] \in 1..f[p[1]]}
      /\ Numbers(g) = {p \in Rounds \X Nat : p[2] \in 1..g[p[1]]}
  BY DEF Numbers
<1>2. had \in Nat /\ has \in Nat /\ last \in Nat /\ (has = had \/ has = had + 1 \/ has = had - 1)
  OBVIOUS
<1>3. /\ \A i \in Nat : i # last => (i \in 1..had <=> i \in 1..has)
      /\ last \in 1..had <=> ~(has > had) /\ had > 0
      /\ last \in 1..has <=> (has > had \/ (has = had /\ had > 0))
  <2> HIDE DEF had, has
  <2> QED BY <1>2
<1>4. (x \in Numbers(f) <=> last \in 1..had) /\ (x \in Numbers(g) <=> last \in 1..has)
  <2>1. x \in Rounds \X Nat /\ x[1] = t /\ x[2] = last
    BY <1>2
  <2> HIDE DEF x, last
  <2> QED BY <1>1, <2>1
<1>5. \A p \in Rounds \X Nat : p # x => (p \in Numbers(f) <=> p \in Numbers(g))
  <2>1. SUFFICES ASSUME NEW p \in Rounds \X Nat, p # x PROVE p[2] \in 1..f[p[1]] <=> p[2] \in 1..g[p[1]]
    BY <1>1
  <2>2. p[1] \in Rounds /\ p[2] \in Nat /\ (p[1] # t \/ p[2] # last)
    BY <2>1
  <2>3. CASE p[1] = t
    BY <1>3, <2>2, <2>3
  <2>4. CASE p[1] # t
    BY <2>2, <2>4
  <2> QED BY <2>3, <2>4
<1>6. Numbers(f) \ {x} = Numbers(g) \ {x}
  BY <1>1, <1>5
<1> HIDE DEF x
<1>7. /\ x \in Numbers(f) /\ x \in Numbers(g) => k = n
      /\ x \notin Numbers(f) /\ x \notin Numbers(g) => k = n
      /\ x \notin Numbers(f) /\ x \in Numbers(g) => k = n + 1
      /\ x \in Numbers(f) /\ x \notin Numbers(g) => k = n - 1
  BY <1>6, OneChanges
<1>8. n \in Nat
  BY FS_CardinalityType
<1> HIDE DEF n, k, had, has, last
<1>9. k = n + (has - had)
  BY <1>2, <1>3, <1>4, <1>7, <1>8
<1> QED BY <1>9 DEF n, k, had, has

LEMMA FewCommitted == WorkTypes /\ Slots => CommittedMails \in SUBSET (Rounds \X (1..PerRound))
BY BatchTypes

\* The same after a step.
LEMMA FewCommittedNext == (WorkTypes /\ Slots => CommittedMails \in SUBSET (Rounds \X (1..PerRound)))'
BY FewCommitted, PTL

-----------------------------------------------------------------------------
(* What a request does *)

\* From where to where a request r goes, and what it does to the bill, the ledger and
\* the loss; it goes to the provider below the cap only.
RequestEffect(r) ==
    /\ request' \in [Requests -> RequestStates] /\ UNCHANGED round
    /\ \A q \in Requests \ {r} : request'[q] = request[q]
    /\ LET from == request[r].phase
           to   == request'[r].phase
       IN  \/ /\ from \in {"idle", "body", "gate", "chat"} /\ to \in {"idle", "body", "gate", "chat"}
              /\ to = "chat" => BudgetSpent = FALSE
              /\ UNCHANGED <<billed, ledger, lost, unread>>
           \/ /\ from = "chat" /\ to \in {"save", "record"}
              /\ billed' = billed + 1 /\ UNCHANGED <<ledger, lost, unread>>
           \/ /\ from = "chat" /\ to = "idle" /\ billed' = billed + 1 /\ UNCHANGED ledger
              /\ \/ lost' = lost + 1 /\ UNCHANGED unread
                 \/ unread' = unread + 1 /\ UNCHANGED lost
           \/ from = "save" /\ to = "record" /\ UNCHANGED <<billed, ledger, lost, unread>>
           \/ /\ from = "record" /\ to = "idle" /\ UNCHANGED <<billed, unread>>
              /\ \/ ledger' = ledger + 1 /\ UNCHANGED lost
                 \/ lost' = lost + 1 /\ UNCHANGED ledger

\* The steps of a request.
RequestActs(r) ==
    \/ RequestStep(r) \/ Dropped(r) \/ AskProbe(r)
    \/ \E m \in Opened : AskSummary(r, m) \/ AskDraft(r, m)

LEMMA IdleRequestType == IdleRequest \in RequestStates /\ IdleRequest.phase = "idle"
BY DEF IdleRequest, RequestStates, Texts, Says

LEMMA RequestSteps ==
    ASSUME WorkTypes, NEW r \in Requests, RequestActs(r)
    PROVE  RequestEffect(r)
<1> DEFINE c == request[r]
<1>1. c \in RequestStates /\ request \in [Requests -> RequestStates]
  BY DEF WorkTypes
<1>2. ASSUME NEW phase \in {"idle", "body", "gate", "chat", "save", "record"}, Becomes(r, phase)
      PROVE  /\ request' \in [Requests -> RequestStates] /\ request'[r].phase = phase
             /\ \A q \in Requests \ {r} : request'[q] = request[q]
  BY <1>1, <1>2 DEF Becomes, RequestStates
<1>3. ASSUME Ends(r)
      PROVE  /\ request' \in [Requests -> RequestStates] /\ request'[r].phase = "idle"
             /\ \A q \in Requests \ {r} : request'[q] = request[q]
  BY <1>1, <1>3, IdleRequestType DEF Ends
<1>4. ASSUME NEW job \in {"summary", "draft"}, NEW m \in Opened,
             request' = [request EXCEPT ![r] = [@ EXCEPT !.phase = "body", !.job = job, !.mail = m]]
      PROVE  /\ request' \in [Requests -> RequestStates] /\ request'[r].phase = "body"
             /\ \A q \in Requests \ {r} : request'[q] = request[q]
  <2>1. m \in Mails
    BY GatewayAssumption
  <2>2. [c EXCEPT !.phase = "body", !.job = job, !.mail = m] \in RequestStates
    BY <1>1, <2>1 DEF RequestStates
  <2> QED BY <1>1, <1>4, <2>2 DEF RequestStates
<1>5. ASSUME NEW m \in Opened, AskSummary(r, m) \/ AskDraft(r, m) PROVE RequestEffect(r)
  BY <1>4, <1>5 DEF AskSummary, AskDraft, RequestEffect, store, bill
<1>6. CASE AskProbe(r)
  <2>1. [c EXCEPT !.phase = "chat", !.job = "probe"] \in RequestStates
    BY <1>1 DEF RequestStates
  <2>2. /\ request' \in [Requests -> RequestStates] /\ request'[r].phase = "chat"
        /\ \A q \in Requests \ {r} : request'[q] = request[q]
    BY <1>1, <1>6, <2>1 DEF AskProbe, RequestStates
  <2> QED BY <1>6, <2>2 DEF AskProbe, MayProbe, RequestEffect, store, bill
<1>7. CASE BodyText(r)
  BY <1>2, <1>3, <1>7 DEF BodyText, RequestEffect, store, bill
<1>8. CASE Complete(r)
  BY <1>2, <1>3, <1>8 DEF Complete, MayAsk, RequestEffect, store, bill
<1>9. ASSUME NEW out \in Outcomes, Answered(r, out) PROVE RequestEffect(r)
  <2>1. c.phase = "chat" /\ UNCHANGED <<ledger, lost, round>>
    BY <1>9 DEF Answered, store
  <2>2. CASE out.kind = "reply"
    <3> DEFINE d == [c EXCEPT !.phase = IF c.job = "summary" THEN "save" ELSE "record",
                              !.text = IF c.job = "draft" THEN out.says ELSE "nothing"]
    <3>1. d \in RequestStates /\ d.phase \in {"save", "record"}
      BY <1>1 DEF RequestStates, Texts, Says
    <3>2. request' = [request EXCEPT ![r] = d] /\ billed' = billed + 1 /\ UNCHANGED unread
      BY <1>1, <1>9, <2>2 DEF Answered
    <3> HIDE DEF d
    <3> QED BY <1>1, <2>1, <3>1, <3>2 DEF RequestEffect
  <2>3. CASE out.kind # "reply"
    <3>1. Ends(r) /\ Charged(out)
      BY <1>9, <2>3 DEF Answered
    <3> QED BY <1>3, <2>1, <3>1 DEF Charged, RequestEffect
  <2> QED BY <2>2, <2>3
<1>10. CASE SaveSummary(r)
  BY <1>2, <1>10 DEF SaveSummary, RequestEffect, bill
<1>11. CASE RecordUsage(r)
  BY <1>3, <1>11 DEF RecordUsage, Recorded, Forgone, RequestEffect
<1>12. CASE Dropped(r)
  BY <1>3, <1>12 DEF Dropped, RequestEffect, store
<1> QED BY <1>5, <1>6, <1>7, <1>8, <1>9, <1>10, <1>11, <1>12 DEF RequestActs, RequestStep

\* A request that goes on counts once for the ledger it owes, and once below the cap.
LEMMA RequestCounts ==
    ASSUME NEW r \in Requests, RequestEffect(r)
    PROVE  LET A == {q \in Requests : Owing(q)}
               B == {q \in Requests : Owing(q)'}
           IN  /\ A \ {r} = B \ {r}
               /\ CommittedRequests \ {r} = CommittedRequests' \ {r}
               /\ r \in A <=> request[r].phase \in {"save", "record"}
               /\ r \in B <=> request'[r].phase \in {"save", "record"}
               /\ r \in CommittedRequests <=> request[r].phase \in {"chat", "save", "record"}
               /\ r \in CommittedRequests' <=> request'[r].phase \in {"chat", "save", "record"}
BY DEF RequestEffect, Owing, CommittedRequests, Committing

LEMMA RequestKeeps ==
    ASSUME IInv, NEW r \in Requests, RequestEffect(r), UNCHANGED backlog
    PROVE  IInv'
<1> DEFINE A == {q \in Requests : Owing(q)}
           B == {q \in Requests : Owing(q)'}
           a == Cardinality(A)
           b == Cardinality(B)
           u == Cardinality(Unwritten)
           c == Cardinality(CommittedRequests)
           d == Cardinality(CommittedRequests')
           e == Cardinality(CommittedMails)
           from == request[r].phase
           to   == request'[r].phase
<1>1. /\ ledger \in Nat /\ billed \in Nat /\ lost \in Nat /\ unread \in Nat
      /\ billed = ledger + (a + u) + lost + unread
  BY DEF IInv, WorkTypes, EveryCallIsAccounted, Owed
<1>2. WorkTypes' /\ Slots'
  <2>1. ledger' \in Nat /\ billed' \in Nat /\ lost' \in Nat /\ unread' \in Nat
    BY <1>1 DEF RequestEffect
  <2> QED BY <2>1 DEF IInv, WorkTypes, Slots, RequestEffect
<1>3. Unwritten' = Unwritten /\ CommittedMails' = CommittedMails
  BY DEF Unwritten, CommittedMails, Passed, RequestEffect
<1>4. /\ a \in Nat /\ b \in Nat /\ u \in Nat /\ c \in Nat /\ d \in Nat /\ e \in Nat
      /\ Cardinality(Requests) \in Nat /\ d <= Cardinality(Requests)
      /\ e <= PerRound * Cardinality(Rounds)
  <2>1. IsFiniteSet(Requests) /\ CommittedRequests \in SUBSET Requests /\ CommittedRequests' \in SUBSET Requests
    BY GatewayAssumption DEF CommittedRequests
  <2> QED BY <2>1, SomeRequests, BatchTypes, BatchesAreFew, FS_CardinalityType DEF IInv
<1>5. /\ (from \in {"save", "record"}) /\ (to \in {"save", "record"}) => b = a
      /\ (from \notin {"save", "record"}) /\ (to \notin {"save", "record"}) => b = a
      /\ (from \notin {"save", "record"}) /\ (to \in {"save", "record"}) => b = a + 1
      /\ (from \in {"save", "record"}) /\ (to \notin {"save", "record"}) => b = a - 1
  <2>1. IsFiniteSet(A)
    BY SomeRequests
  <2> QED BY <2>1, RequestCounts, OneChanges
<1>6. /\ (from \in {"chat", "save", "record"}) /\ (to \in {"chat", "save", "record"}) => d = c
      /\ (from \notin {"chat", "save", "record"}) /\ (to \notin {"chat", "save", "record"}) => d = c
      /\ (from \in {"chat", "save", "record"}) /\ (to \notin {"chat", "save", "record"}) => d = c - 1
  <2>1. IsFiniteSet(CommittedRequests)
    BY SomeRequests DEF CommittedRequests
  <2> QED BY <2>1, RequestCounts, OneChanges
<1> HIDE DEF a, b, c, d, u, e
<1>7. billed' = ledger' + (b + u) + lost' + unread'
  BY <1>1, <1>4, <1>5 DEF RequestEffect
<1>8. ASSUME Cap > 0 PROVE ledger' + d + e <= Ceiling
  <2>1. ledger + c + e <= Ceiling /\ Ceiling \in Int /\ Cap \in Nat
    <3>1. ledger + Cardinality(CommittedRequests) + Cardinality(CommittedMails) <= Ceiling
      BY <1>8 DEF IInv, Promised
    <3>2. Cardinality(Rounds) \in Nat /\ PerRound \in Nat /\ Cap \in Nat
      BY GatewayAssumption, FS_CardinalityType
    <3> QED BY <1>4, <3>1, <3>2 DEF Ceiling, c, e
  <2>2. CASE from \notin {"chat", "save", "record"} /\ to = "chat"
    <3>1. ledger < Cap /\ ledger' = ledger
      BY <1>1, <1>8, <2>1, <2>2 DEF RequestEffect, BudgetSpent
    <3>2. PerRound * Cardinality(Rounds) \in Nat
      BY GatewayAssumption, FS_CardinalityType
    <3> QED BY <1>1, <1>4, <2>1, <3>1, <3>2 DEF Ceiling
  <2>3. CASE ~(from \notin {"chat", "save", "record"} /\ to = "chat")
    BY <1>1, <1>4, <1>6, <2>1, <2>3 DEF RequestEffect
  <2> QED BY <2>2, <2>3
<1>9. EveryCallIsAccounted'
  BY <1>3, <1>7 DEF EveryCallIsAccounted, Owed, b, u
<1>10. Promised'
  BY <1>3, <1>8 DEF Promised, Ceiling, d, e
<1> QED BY <1>2, <1>9, <1>10 DEF IInv

-----------------------------------------------------------------------------
(* What a round does *)

\* What a step of round t does to its answers, which of them is recorded or lost, and
\* who passes the gate; the other rounds and all requests stay.
RoundEffect(t) ==
    /\ round' \in [Rounds -> RoundStates] /\ UNCHANGED request
    /\ \A u \in Rounds \ {t} : round'[u] = round[u]
    /\ LET had  == Len(round[t].done)
           has  == Len(round'[t].done)
           from == round[t].phase
           to   == round'[t].phase
       IN  \/ /\ has = had /\ UNCHANGED <<billed, ledger, lost, unread>>
              /\ from # "chat" /\ to = "chat" => BudgetSpent = FALSE
           \/ /\ from = "chat" /\ to # "chat" /\ billed' = billed + 1 /\ UNCHANGED <<ledger, lost>>
              /\ \/ has = had + 1 /\ UNCHANGED unread
                 \/ has = had /\ unread' = unread + 1
           \/ /\ from # "chat" /\ to # "chat" /\ has = had - 1 /\ had > 0 /\ UNCHANGED <<billed, unread>>
              /\ \/ ledger' = ledger + 1 /\ UNCHANGED lost
                 \/ lost' = lost + 1 /\ UNCHANGED ledger

RoundActs(t) == RoundStep(t) \/ \E new \in Upserts : FillBacklog(t, new)

LEMMA IdleRoundType == IdleRound \in RoundStates /\ IdleRound.phase = "idle" /\ IdleRound.done = <<>>
BY EmptySeq DEF IdleRound, RoundStates

LEMMA SmallerOfTwo ==
    ASSUME NEW a \in Int, NEW b \in Int
    PROVE  Min({a, b}) \in {a, b} /\ Min({a, b}) <= a /\ Min({a, b}) <= b
<1>1. \E x \in {a, b} : \A y \in {a, b} : x <= y
  OBVIOUS
<1>2. Min({a, b}) \in {a, b} /\ \A y \in {a, b} : Min({a, b}) <= y
  BY <1>1 DEF Min
<1> QED BY <1>2

LEMMA PartOfMails ==
    ASSUME NEW s, NEW N \in Nat, \A i \in 1..N : s[i] \in Mails,
           NEW m \in Int, NEW n \in Int, 1 <= m, n <= N
    PROVE  /\ SubSeq(s, m, n) \in Seq(Mails)
           /\ Len(SubSeq(s, m, n)) = IF m <= n THEN n - m + 1 ELSE 0
<1>1. \A i \in m..n : s[i] \in Mails
  OBVIOUS
<1> QED BY <1>1, SubSeqProperties

\* The backlog grows by some of the new mails and shrinks by a batch.
LEMMA FillsWithMails ==
    ASSUME WorkTypes, NEW t \in Rounds, NEW new \in Upserts, FillBacklog(t, new)
    PROVE  backlog' \in Seq(Mails)
<1>1. PICK m \in Nat : new \in [1..m -> Mails]
  BY DEF Upserts, SeqOf
<1>2. Len(new) = m /\ (\A i \in 1..m : new[i] \in Mails) /\ backlog \in Seq(Mails)
  BY <1>1 DEF WorkTypes
<1>3. m \in Int /\ BacklogLimit - Len(backlog) \in Int /\ 1 \in Int /\ 1 <= 1
  BY <1>1, <1>2, GatewayAssumption, LenProperties
<1> DEFINE n == Min({Len(new), BacklogLimit - Len(backlog)})
<1>4. n \in Int /\ n <= m
  BY <1>2, <1>3, SmallerOfTwo
<1>5. backlog' = backlog \o SubSeq(new, 1, n)
  BY DEF FillBacklog
<1> HIDE DEF n
<1>6. SubSeq(new, 1, n) \in Seq(Mails)
  BY <1>1, <1>2, <1>3, <1>4, PartOfMails
<1> QED BY <1>2, <1>5, <1>6, ConcatProperties

LEMMA TakesABatch ==
    ASSUME WorkTypes, NEW t \in Rounds, TakeTargets(t)
    PROVE  /\ backlog' \in Seq(Mails)
           /\ \/ round' = [round EXCEPT ![t] = IdleRound]
              \/ \E targets \in Seq(Mails) :
                    /\ Len(targets) <= PerRound
                    /\ round' = [round EXCEPT ![t] = [phase |-> "gate", targets |-> targets, done |-> <<>>]]
<1> DEFINE count == Min({PerRound, Len(backlog)})
           length == Len(backlog)
<1>1. length \in Nat /\ PerRound \in Nat /\ \A i \in 1..length : backlog[i] \in Mails
  BY GatewayAssumption, LenProperties, ElementOfSeq DEF WorkTypes
<1>2. count \in {PerRound, length} /\ count <= PerRound /\ count <= length
  <2>1. PerRound \in Int /\ length \in Int
    BY <1>1
  <2> QED BY <2>1, SmallerOfTwo
<1>3. /\ backlog' = SubSeq(backlog, count + 1, length)
      /\ round' = [round EXCEPT ![t] = IF count = 0 THEN IdleRound
                    ELSE [phase |-> "gate", targets |-> SubSeq(backlog, 1, count), done |-> <<>>]]
  BY DEF TakeTargets, Goes
<1> HIDE DEF count, length
<1>4. /\ count \in Nat /\ count \in Int /\ length \in Int /\ count + 1 \in Int
      /\ 1 \in Int /\ 1 <= 1 /\ 1 <= count + 1 /\ length <= length
      /\ (IF 1 <= count THEN count - 1 + 1 ELSE 0) <= PerRound
  BY <1>1, <1>2
<1>5. /\ SubSeq(backlog, 1, count) \in Seq(Mails)
      /\ Len(SubSeq(backlog, 1, count)) = IF 1 <= count THEN count - 1 + 1 ELSE 0
  BY <1>1, <1>2, <1>4, PartOfMails
<1>6. SubSeq(backlog, count + 1, length) \in Seq(Mails)
  BY <1>1, <1>4, PartOfMails
<1> QED BY <1>3, <1>4, <1>5, <1>6

\* A round keeps its places: the slots that hold for it after the step.
SlotsOf(c) ==
    /\ Len(c.targets) + Len(c.done) <= PerRound
    /\ c.phase \in {"idle", "take"} => c.targets = <<>> /\ c.done = <<>>
    /\ c.phase = "chat" => c.targets # <<>>
    /\ c.phase = "write" => c.done # <<>>

\* The state a round goes to is a state of a round.
LEMMA GoesTo ==
    ASSUME WorkTypes, Slots, NEW t \in Rounds, NEW c \in RoundStates, SlotsOf(c),
           round' = [round EXCEPT ![t] = c]
    PROVE  /\ round' \in [Rounds -> RoundStates] /\ round'[t] = c
           /\ \A u \in Rounds \ {t} : round'[u] = round[u]
           /\ Slots'
<1>1. round \in [Rounds -> RoundStates]
  BY DEF WorkTypes
<1>2. /\ round' \in [Rounds -> RoundStates] /\ round'[t] = c
      /\ \A u \in Rounds \ {t} : round'[u] = round[u]
  BY <1>1
<1>3. \A u \in Rounds : SlotsOf(round'[u])
  BY <1>2 DEF Slots, SlotsOf
<1> QED BY <1>2, <1>3 DEF Slots, SlotsOf

\* An answer moves one mail from the targets; a mail written leaves the answers.
LEMMA OneMoves ==
    \A a \in Nat, b \in Nat, n \in Nat : a + b <= n => (a - 1) + (b + 1) <= n /\ a + (b - 1) <= n
OBVIOUS

LEMMA IdleSlots == SlotsOf(IdleRound)
BY GatewayAssumption, EmptySeq DEF SlotsOf, IdleRound

\* The batch stops with the answers it has, or is over when it has none.
LEMMA BatchStops ==
    ASSUME WorkTypes, Slots, NEW t \in Rounds, StopsBatch(t)
    PROVE  /\ round' \in [Rounds -> RoundStates] /\ Slots'
           /\ \A u \in Rounds \ {t} : round'[u] = round[u]
           /\ round'[t].done = round[t].done /\ round'[t].phase # "chat"
<1> DEFINE c == [round[t] EXCEPT !.phase = "write", !.targets = <<>>]
<1>1. round[t] \in RoundStates /\ Len(<<>>) = 0 /\ <<>> \in Seq(Mails)
  BY EmptySeq DEF WorkTypes
<1>2. Len(round[t].done) + 0 <= PerRound
  BY BatchTypes, GatewayAssumption
<1>3. CASE round[t].done = <<>>
  <2>1. round' = [round EXCEPT ![t] = IdleRound]
    BY <1>3 DEF StopsBatch, Goes
  <2> QED BY <1>3, <2>1, GoesTo, IdleSlots, IdleRoundType
<1>4. CASE round[t].done # <<>>
  <2>1. c \in RoundStates /\ c.phase = "write" /\ c.targets = <<>> /\ c.done = round[t].done
    BY <1>1 DEF RoundStates
  <2>2. round' = [round EXCEPT ![t] = c]
    BY <1>4 DEF StopsBatch, Goes
  <2> HIDE DEF c
  <2>3. Len(c.targets) + Len(c.done) <= PerRound
    BY <1>1, <1>2, <2>1, BatchTypes
  <2>4. SlotsOf(c)
    BY <1>4, <2>1, <2>3 DEF SlotsOf
  <2> QED BY <2>1, <2>2, <2>4, GoesTo
<1> QED BY <1>3, <1>4

LEMMA RoundSteps ==
    ASSUME WorkTypes, Slots, NEW t \in Rounds, RoundActs(t)
    PROVE  RoundEffect(t) /\ Slots' /\ backlog' \in Seq(Mails)
<1> DEFINE c == round[t]
<1>1. /\ c \in RoundStates /\ c.done \in Seq(Mails) /\ c.targets \in Seq(Mails) /\ backlog \in Seq(Mails)
      /\ Len(c.done) \in Nat /\ Len(c.targets) \in Nat /\ Len(c.targets) + Len(c.done) <= PerRound
      /\ c.phase \in {"idle", "take"} => c.done = <<>>
      /\ Len(<<>>) = 0 /\ <<>> \in Seq(Mails) /\ PerRound \in Nat
  BY GatewayAssumption, LenProperties, EmptySeq DEF WorkTypes, RoundStates, Slots
<1>2. ASSUME NEW new \in Upserts, FillBacklog(t, new)
      PROVE  RoundEffect(t) /\ Slots' /\ backlog' \in Seq(Mails)
  <2> DEFINE d == [IdleRound EXCEPT !.phase = "take"]
  <2>0. d \in RoundStates /\ d.phase = "take" /\ d.done = <<>> /\ d.targets = <<>>
    BY <1>1 DEF IdleRound, RoundStates
  <2>1. d \in RoundStates /\ SlotsOf(d) /\ d.phase = "take" /\ d.done = <<>>
    <3> HIDE DEF d
    <3>1. Len(<<>>) + Len(<<>>) <= PerRound
      BY <1>1
    <3> QED BY <2>0, <3>1 DEF SlotsOf
  <2>2. /\ round' = [round EXCEPT ![t] = d] /\ c.done = <<>>
        /\ UNCHANGED <<request, billed, ledger, lost, unread>>
    BY <1>1, <1>2 DEF FillBacklog, Goes, store, bill
  <2> HIDE DEF d
  <2> QED BY <1>2, <2>1, <2>2, GoesTo, FillsWithMails DEF RoundEffect
<1>3. CASE TakeTargets(t)
  <2>1. c.done = <<>> /\ UNCHANGED <<request, billed, ledger, lost, unread>>
    BY <1>1, <1>3 DEF TakeTargets, store, bill
  <2>2. CASE round' = [round EXCEPT ![t] = IdleRound]
    BY <1>3, <2>1, <2>2, TakesABatch, GoesTo, IdleSlots, IdleRoundType DEF RoundEffect
  <2>3. ASSUME NEW targets \in Seq(Mails), Len(targets) <= PerRound,
               round' = [round EXCEPT ![t] = [phase |-> "gate", targets |-> targets, done |-> <<>>]]
        PROVE  RoundEffect(t) /\ Slots' /\ backlog' \in Seq(Mails)
    <3> DEFINE d == [phase |-> "gate", targets |-> targets, done |-> <<>>]
    <3>1. d \in RoundStates /\ d.phase = "gate" /\ d.done = <<>>
      BY <1>1 DEF RoundStates
    <3>2. SlotsOf(d)
      <4>1. Len(targets) + 0 <= PerRound
        BY <2>3, LenProperties
      <4> QED BY <1>1, <4>1 DEF SlotsOf
    <3>3. round' = [round EXCEPT ![t] = d]
      BY <2>3
    <3> HIDE DEF d
    <3> QED BY <1>3, <2>1, <3>1, <3>2, <3>3, TakesABatch, GoesTo DEF RoundEffect
  <2> QED BY <1>3, <2>2, <2>3, TakesABatch
<1>4. CASE ClassifyNext(t)
  <2>1. c.phase = "gate" /\ UNCHANGED <<request, billed, ledger, lost, unread, backlog>>
    BY <1>4 DEF ClassifyNext, store, bill
  <2>2. CASE c.targets # <<>> /\ MayAsk("classify")
    <3> DEFINE d == [c EXCEPT !.phase = "chat"]
    <3>1. d \in RoundStates /\ d.phase = "chat" /\ d.done = c.done /\ d.targets = c.targets
      BY <1>1 DEF RoundStates
    <3>2. round' = [round EXCEPT ![t] = d]
      BY <1>4, <2>2 DEF ClassifyNext, Goes
    <3> HIDE DEF d
    <3>3. SlotsOf(d) /\ BudgetSpent = FALSE
      BY <1>1, <2>2, <3>1 DEF SlotsOf, MayAsk, BudgetSpent
    <3> QED BY <1>1, <2>1, <3>1, <3>2, <3>3, GoesTo DEF RoundEffect
  <2>3. CASE ~(c.targets # <<>> /\ MayAsk("classify"))
    <3>1. StopsBatch(t)
      BY <1>4, <2>3 DEF ClassifyNext
    <3> QED BY <1>1, <2>1, <3>1, BatchStops DEF RoundEffect
  <2> QED BY <2>2, <2>3
<1>5. ASSUME NEW out \in Outcomes, Classified(t, out)
      PROVE  RoundEffect(t) /\ Slots' /\ backlog' \in Seq(Mails)
  <2>1. c.phase = "chat" /\ UNCHANGED <<request, ledger, lost, backlog>> /\ c.targets # <<>>
    BY <1>5 DEF Classified, store, Slots
  <2>2. CASE out.kind = "reply"
    <3> DEFINE d == [phase |-> "gate", targets |-> Tail(c.targets), done |-> Append(c.done, Head(c.targets))]
    <3>1. /\ Head(c.targets) \in Mails /\ Tail(c.targets) \in Seq(Mails)
          /\ Len(Tail(c.targets)) = Len(c.targets) - 1
      BY <1>1, <2>1, HeadTailProperties
    <3>2. /\ Append(c.done, Head(c.targets)) \in Seq(Mails)
          /\ Len(Append(c.done, Head(c.targets))) = Len(c.done) + 1
      BY <1>1, <3>1, AppendProperties
    <3>3. d \in RoundStates /\ d.phase = "gate" /\ Len(d.done) = Len(c.done) + 1
      BY <3>1, <3>2 DEF RoundStates
    <3>4. Len(d.targets) + Len(d.done) <= PerRound
      <4>1. /\ (Len(c.targets) - 1) + (Len(c.done) + 1) <= PerRound
            /\ Len(c.targets) \in Nat /\ Len(c.done) \in Nat
        <5> HIDE DEF c, d
        <5> QED BY <1>1, OneMoves
      <4>2. d.targets = Tail(c.targets) /\ d.done = Append(c.done, Head(c.targets))
        OBVIOUS
      <4> HIDE DEF c, d
      <4> QED BY <3>1, <3>2, <4>1, <4>2
    <3>5. round' = [round EXCEPT ![t] = d] /\ billed' = billed + 1 /\ UNCHANGED unread
      BY <1>5, <2>2 DEF Classified, Goes
    <3> HIDE DEF d
    <3>6. SlotsOf(d)
      BY <3>3, <3>4 DEF SlotsOf
    <3> QED BY <1>1, <2>1, <3>3, <3>5, <3>6, GoesTo DEF RoundEffect
  <2>3. CASE out.kind # "reply"
    <3>1. StopsBatch(t) /\ Charged(out)
      BY <1>5, <2>3 DEF Classified
    <3>2. \/ UNCHANGED <<billed, unread>>
          \/ billed' = billed + 1 /\ unread' = unread + 1
      BY <3>1 DEF Charged
    <3> QED BY <1>1, <2>1, <3>1, <3>2, BatchStops DEF RoundEffect
  <2> QED BY <2>2, <2>3
<1>6. CASE WriteNext(t)
  <2>1. /\ c.phase = "write" /\ c.done # <<>> /\ UNCHANGED <<request, billed, unread, backlog>>
        /\ \/ ledger' = ledger + 1 /\ UNCHANGED lost
           \/ lost' = lost + 1 /\ UNCHANGED ledger
    BY <1>6 DEF WriteNext, Recorded, Forgone, Slots
  <2> DEFINE left == Tail(c.done)
             d == [c EXCEPT !.done = left]
  <2>2. left \in Seq(Mails) /\ Len(left) = Len(c.done) - 1 /\ Len(left) \in Nat /\ Len(c.done) > 0
    BY <1>1, <2>1, HeadTailProperties, LenProperties, EmptySeq
  <2>3. round' = [round EXCEPT ![t] = IF left = <<>> THEN IdleRound ELSE d]
    BY <1>6 DEF WriteNext, Goes
  <2>4. d \in RoundStates /\ d.phase = "write" /\ d.done = left /\ d.targets = c.targets
    BY <1>1, <2>1, <2>2 DEF RoundStates
  <2> HIDE DEF left, d
  <2>5. CASE left = <<>>
    <3>1. round' = [round EXCEPT ![t] = IdleRound] /\ Len(IdleRound.done) = Len(c.done) - 1
      BY <1>1, <2>2, <2>3, <2>5, IdleRoundType
    <3> QED BY <1>1, <2>1, <2>2, <3>1, GoesTo, IdleSlots, IdleRoundType DEF RoundEffect
  <2>6. CASE left # <<>>
    <3>1. Len(d.targets) + Len(d.done) <= PerRound
      <4>1. /\ Len(c.targets) + (Len(c.done) - 1) <= PerRound
            /\ Len(c.targets) \in Nat /\ Len(c.done) \in Nat
        <5> HIDE DEF c
        <5> QED BY <1>1, OneMoves
      <4> HIDE DEF c
      <4> QED BY <2>2, <2>4, <4>1
    <3>2. SlotsOf(d) /\ round' = [round EXCEPT ![t] = d]
      BY <2>3, <2>4, <2>6, <3>1 DEF SlotsOf
    <3> QED BY <1>1, <2>1, <2>2, <2>4, <3>2, GoesTo DEF RoundEffect
  <2> QED BY <2>5, <2>6
<1> QED BY <1>2, <1>3, <1>4, <1>5, <1>6 DEF RoundActs, RoundStep

\* A round that goes on counts once for each answer it has not written, and once below
\* the cap for each answer and for the one it waits for.
LEMMA RoundCounts ==
    ASSUME IInv, Slots', NEW t \in Rounds, RoundEffect(t)
    PROVE  /\ Cardinality(Unwritten') = Cardinality(Unwritten) + (Len(round'[t].done) - Len(round[t].done))
           /\ Cardinality(CommittedMails') = Cardinality(CommittedMails) + (Passed(t)' - Passed(t))
<1> DEFINE had    == Len(round[t].done)
           has    == Len(round'[t].done)
           passed == Passed(t)
           passes == Passed(t)'
           waits  == IF round[t].phase = "chat" THEN 1 ELSE 0
           waited == IF round'[t].phase = "chat" THEN 1 ELSE 0
<1>1. /\ round \in [Rounds -> RoundStates] /\ round' \in [Rounds -> RoundStates]
      /\ \A u \in Rounds \ {t} : round'[u] = round[u]
  BY DEF IInv, WorkTypes, RoundEffect
<1>2. /\ \A u \in Rounds : DOMAIN round[u].done = 1..Len(round[u].done) /\ Len(round[u].done) \in Nat
      /\ \A u \in Rounds : DOMAIN round'[u].done = 1..Len(round'[u].done) /\ Len(round'[u].done) \in Nat
  BY <1>1, LenProperties DEF RoundStates
<1>3. /\ had \in Nat /\ has \in Nat /\ passed \in Nat /\ passes \in Nat
      /\ passed = had + waits /\ passes = has + waited /\ waits \in {0, 1} /\ waited \in {0, 1}
  <2>1. passed = had + waits /\ passes = has + waited
    BY DEF Passed
  <2>2. had \in Nat /\ has \in Nat /\ waits \in {0, 1} /\ waited \in {0, 1}
    BY <1>2
  <2> HIDE DEF had, has, passed, passes, waits, waited
  <2> QED BY <2>1, <2>2
<1>4. /\ Unwritten = UNION {{u} \X (1..Len(round[u].done)) : u \in Rounds}
      /\ Unwritten' = UNION {{u} \X (1..Len(round'[u].done)) : u \in Rounds}
  BY <1>2 DEF Unwritten
<1>5. \A u \in Rounds \ {t} : Passed(u)' = Passed(u) /\ Len(round'[u].done) = Len(round[u].done)
  BY <1>1 DEF Passed
<1>6. IsFiniteSet(Unwritten) /\ IsFiniteSet(CommittedMails)
  BY BatchTypes, BatchesAreFew DEF IInv
<1>7. /\ has = had \/ has = had + 1 \/ has = had - 1
      /\ passes = passed \/ passes = passed + 1 \/ passes = passed - 1
  <2>1. \/ has = had
        \/ waits = 1 /\ waited = 0 /\ has \in {had, had + 1}
        \/ has = had - 1 /\ waits = 0 /\ waited = 0
    BY DEF RoundEffect
  <2> HIDE DEF had, has, passed, passes, waits, waited
  <2> QED BY <1>3, <2>1
<1>8. \A u \in Rounds : Passed(u) \in Nat /\ Passed(u)' \in Nat
  <2>1. ASSUME NEW n \in Nat, NEW P \in BOOLEAN PROVE n + (IF P THEN 1 ELSE 0) \in Nat
    OBVIOUS
  <2> QED BY <1>2, <2>1 DEF Passed
<1>9. Cardinality(Unwritten') = Cardinality(Unwritten) + (has - had)
  <2> DEFINE f == [u \in Rounds |-> Len(round[u].done)]
             g == [u \in Rounds |-> Len(round'[u].done)]
  <2>1. /\ f \in [Rounds -> Nat] /\ g \in [Rounds -> Nat]
        /\ f[t] = had /\ g[t] = has /\ \A u \in Rounds \ {t} : g[u] = f[u]
    BY <1>2, <1>5
  <2>2. Unwritten = Numbers(f) /\ Unwritten' = Numbers(g)
    BY <1>4 DEF Numbers
  <2> HIDE DEF f, g, had, has
  <2> QED BY <1>6, <1>7, <2>1, <2>2, NumbersChange
<1>10. Cardinality(CommittedMails') = Cardinality(CommittedMails) + (passes - passed)
  <2> DEFINE f == [u \in Rounds |-> Passed(u)]
             g == [u \in Rounds |-> Passed(u)']
  <2>1. /\ f[t] = passed /\ g[t] = passes /\ \A u \in Rounds \ {t} : g[u] = f[u]
    BY <1>5
  <2>2. CommittedMails = Numbers(f) /\ CommittedMails' = Numbers(g)
    BY DEF Numbers, CommittedMails
  <2>3. f \in [Rounds -> Nat] /\ g \in [Rounds -> Nat]
    BY <1>8
  <2> HIDE DEF f, g, passed, passes
  <2> QED BY <1>6, <1>7, <2>1, <2>2, <2>3, NumbersChange
<1> QED BY <1>9, <1>10

LEMMA RoundKeeps ==
    ASSUME IInv, Slots', backlog' \in Seq(Mails), NEW t \in Rounds, RoundEffect(t)
    PROVE  IInv'
<1> DEFINE a == Cardinality({q \in Requests : Owing(q)})
           u == Cardinality(Unwritten)
           v == Cardinality(Unwritten')
           d == Cardinality(CommittedRequests)
           e == Cardinality(CommittedMails)
           f == Cardinality(CommittedMails')
           had    == Len(round[t].done)
           has    == Len(round'[t].done)
           passed == Passed(t)
           passes == Passed(t)'
           limit == PerRound * Cardinality(Rounds)
           waits  == IF round[t].phase = "chat" THEN 1 ELSE 0
           waited == IF round'[t].phase = "chat" THEN 1 ELSE 0
<1>1. /\ ledger \in Nat /\ billed \in Nat /\ lost \in Nat /\ unread \in Nat
      /\ billed = ledger + (a + u) + lost + unread
  BY DEF IInv, WorkTypes, EveryCallIsAccounted, Owed
<1>2. WorkTypes' /\ Slots'
  <2>1. had \in Nat /\ has \in Nat
    BY LenProperties DEF IInv, WorkTypes, RoundStates, RoundEffect
  <2>2. ledger' \in Nat /\ billed' \in Nat /\ lost' \in Nat /\ unread' \in Nat
    BY <1>1 DEF RoundEffect
  <2> QED BY <2>2 DEF IInv, WorkTypes, RoundEffect
<1>3. /\ {q \in Requests : Owing(q)}' = {q \in Requests : Owing(q)}
      /\ CommittedRequests' = CommittedRequests
  BY DEF Owing, CommittedRequests, Committing, RoundEffect
<1>4. v = u + (has - had) /\ f = e + (passes - passed)
  BY <1>2, RoundCounts
<1>5. /\ had \in Nat /\ has \in Nat /\ passed = had + waits /\ passes = has + waited
      /\ waits \in {0, 1} /\ waited \in {0, 1}
  <2>1. had \in Nat /\ has \in Nat
    BY LenProperties DEF IInv, WorkTypes, RoundStates, RoundEffect
  <2>2. passed = had + waits /\ passes = has + waited
    BY DEF Passed
  <2>3. waits \in {0, 1} /\ waited \in {0, 1}
    OBVIOUS
  <2> QED BY <2>1, <2>2, <2>3
<1>6. /\ a \in Nat /\ u \in Nat /\ d \in Nat /\ e \in Nat /\ f \in Nat
      /\ Cardinality(Requests) \in Nat /\ d <= Cardinality(Requests)
      /\ f <= limit /\ limit \in Nat
  <2>1. IsFiniteSet(Requests) /\ CommittedRequests \in SUBSET Requests
        /\ {q \in Requests : Owing(q)} \in SUBSET Requests
        /\ CommittedMails' \in SUBSET (Rounds \X (1..PerRound))
    BY <1>2, GatewayAssumption, FewCommittedNext DEF CommittedRequests
  <2>2. limit \in Nat
    BY GatewayAssumption, FS_CardinalityType
  <2> QED BY <2>1, <2>2, SomeRequests, BatchTypes, BatchesAreFew, FS_CardinalityType DEF IInv
<1>7. \/ /\ has = had /\ UNCHANGED <<billed, ledger, lost, unread>>
         /\ waits = 0 /\ waited = 1 => BudgetSpent = FALSE
      \/ /\ waits = 1 /\ waited = 0 /\ billed' = billed + 1 /\ UNCHANGED <<ledger, lost>>
         /\ \/ has = had + 1 /\ UNCHANGED unread
            \/ has = had /\ unread' = unread + 1
      \/ /\ has = had - 1 /\ waits = 0 /\ waited = 0 /\ UNCHANGED <<billed, unread>>
         /\ \/ ledger' = ledger + 1 /\ UNCHANGED lost
            \/ lost' = lost + 1 /\ UNCHANGED ledger
  BY DEF RoundEffect
<1>8. Cap > 0 => ledger + d + e <= Ceiling
  BY DEF IInv, Promised
<1>9. Ceiling = Cap - 1 + Cardinality(Requests) + limit /\ Cap \in Nat
  BY GatewayAssumption DEF Ceiling
<1>10. Cap > 0 /\ BudgetSpent = FALSE => ledger <= Cap - 1
  BY <1>1, <1>9 DEF BudgetSpent
<1> HIDE DEF a, u, v, d, e, f, had, has, passed, passes, limit, waits, waited
<1>11. /\ passed \in Nat /\ passes \in Nat
       /\ \/ passes = passed + 1 /\ ledger' = ledger /\ BudgetSpent = FALSE
          \/ passes <= passed /\ ledger' = ledger
          \/ passes = passed - 1 /\ ledger' \in {ledger, ledger + 1}
  BY <1>5, <1>7
<1>12. billed' = ledger' + (a + v) + lost' + unread'
  BY <1>1, <1>4, <1>5, <1>6, <1>7
<1>13. ASSUME Cap > 0 PROVE ledger' + d + f <= Ceiling
  <2>1. CASE passes = passed + 1 /\ ledger' = ledger /\ BudgetSpent = FALSE
    BY <1>1, <1>6, <1>9, <1>10, <1>13, <2>1
  <2>2. CASE passes <= passed /\ ledger' = ledger
    <3>1. f <= e
      BY <1>4, <1>6, <1>11, <2>2
    <3> QED BY <1>1, <1>6, <1>8, <1>9, <1>13, <2>2, <3>1
  <2>3. CASE passes = passed - 1 /\ ledger' \in {ledger, ledger + 1}
    <3>1. f = e - 1
      BY <1>4, <1>6, <1>11, <2>3
    <3> QED BY <1>1, <1>6, <1>8, <1>9, <1>13, <2>3, <3>1
  <2> QED BY <1>11, <2>1, <2>2, <2>3
<1>14. EveryCallIsAccounted'
  BY <1>3, <1>12 DEF EveryCallIsAccounted, Owed, a, v
<1>15. Promised'
  BY <1>3, <1>13 DEF Promised, Ceiling, d, f
<1> QED BY <1>2, <1>14, <1>15 DEF IInv

-----------------------------------------------------------------------------
(* The invariant *)

\* The provider files, the user and the clock touch none of it.
LEMMA OthersKeep ==
    ASSUME IInv, UNCHANGED <<ledger, bill, request, round, backlog>>
    PROVE  IInv'
<1>1. WorkTypes' /\ Slots'
  BY DEF IInv, WorkTypes, Slots, bill
<1>2. Unwritten' = Unwritten /\ CommittedMails' = CommittedMails /\ CommittedRequests' = CommittedRequests
  BY DEF Unwritten, CommittedMails, Passed, CommittedRequests, Committing
<1>3. {q \in Requests : Owing(q)}' = {q \in Requests : Owing(q)}
  BY DEF Owing
<1>4. EveryCallIsAccounted'
  BY <1>2, <1>3 DEF IInv, EveryCallIsAccounted, Owed, bill
<1>5. Promised'
  BY <1>2 DEF IInv, Promised, Ceiling
<1> QED BY <1>1, <1>4, <1>5 DEF IInv

\* Nobody works on anything: nothing is owed and nobody has passed the gate.
LEMMA NobodyWorks ==
    ASSUME request = [r \in Requests |-> IdleRequest], round = [t \in Rounds |-> IdleRound]
    PROVE  /\ request \in [Requests -> RequestStates] /\ round \in [Rounds -> RoundStates] /\ Slots
           /\ Owed = 0 /\ Cardinality(CommittedRequests) = 0 /\ Cardinality(CommittedMails) = 0
<1>1. request \in [Requests -> RequestStates] /\ round \in [Rounds -> RoundStates]
  BY IdleRequestType, IdleRoundType
<1>2. Slots
  BY IdleSlots DEF Slots, SlotsOf
<1>3. {r \in Requests : Owing(r)} = {} /\ CommittedRequests = {}
  BY IdleRequestType DEF Owing, CommittedRequests, Committing
<1>4. \A t \in Rounds : DOMAIN round[t].done = {} /\ 1..Passed(t) = {}
  <2>1. Len(<<>>) = 0 /\ DOMAIN <<>> = {}
    BY EmptySeq
  <2>2. ASSUME NEW t \in Rounds PROVE Passed(t) = 0
    <3>1. round[t] = IdleRound /\ Len(round[t].done) = 0 /\ round[t].phase # "chat"
      BY <2>1, IdleRoundType
    <3>2. Passed(t) = 0 + 0
      BY <3>1 DEF Passed
    <3> QED BY <3>2
  <2> QED BY <2>1, <2>2, IdleRoundType
<1>5. Unwritten = {} /\ CommittedMails = {}
  BY <1>4 DEF Unwritten, CommittedMails
<1> QED BY <1>1, <1>2, <1>3, <1>5, FS_EmptySet DEF Owed

LEMMA NobodyWorksNow ==
    request = [r \in Requests |-> IdleRequest] /\ round = [t \in Rounds |-> IdleRound] =>
        /\ request \in [Requests -> RequestStates] /\ round \in [Rounds -> RoundStates] /\ Slots
        /\ Owed = 0 /\ Cardinality(CommittedRequests) = 0 /\ Cardinality(CommittedMails) = 0
BY NobodyWorks

\* The same after a crash.
LEMMA NobodyWorksNext ==
    (request = [r \in Requests |-> IdleRequest] /\ round = [t \in Rounds |-> IdleRound] =>
        /\ request \in [Requests -> RequestStates] /\ round \in [Rounds -> RoundStates] /\ Slots
        /\ Owed = 0 /\ Cardinality(CommittedRequests) = 0 /\ Cardinality(CommittedMails) = 0)'
BY NobodyWorksNow, PTL

LEMMA CrashKeeps == ASSUME IInv, Crash PROVE IInv'
<1>1. /\ request' = [r \in Requests |-> IdleRequest] /\ round' = [t \in Rounds |-> IdleRound]
      /\ backlog' = <<>> /\ lost' = billed' - ledger - unread /\ UNCHANGED <<ledger, unread>>
      /\ \E charged \in Nat : billed' = billed + charged
  BY DEF Crash, store
<1>2. /\ request' \in [Requests -> RequestStates] /\ round' \in [Rounds -> RoundStates] /\ Slots'
      /\ Owed' = 0 /\ Cardinality(CommittedRequests)' = 0 /\ Cardinality(CommittedMails)' = 0
  BY <1>1, NobodyWorksNext
<1> DEFINE a == Cardinality({q \in Requests : Owing(q)})
           u == Cardinality(Unwritten)
           d == Cardinality(CommittedRequests)
           e == Cardinality(CommittedMails)
<1>3. /\ ledger \in Nat /\ billed \in Nat /\ lost \in Nat /\ unread \in Nat
      /\ billed = ledger + (a + u) + lost + unread
      /\ Cap > 0 => ledger + d + e <= Ceiling
  BY DEF IInv, WorkTypes, EveryCallIsAccounted, Owed, Promised
<1>4. a \in Nat /\ u \in Nat /\ d \in Nat /\ e \in Nat /\ Ceiling \in Int
  <2>1. CommittedRequests \in SUBSET Requests /\ {q \in Requests : Owing(q)} \in SUBSET Requests
    BY DEF CommittedRequests
  <2>2. Ceiling \in Int
    BY GatewayAssumption, FS_CardinalityType DEF Ceiling
  <2> QED BY <2>1, <2>2, SomeRequests, BatchTypes, BatchesAreFew DEF IInv
<1> HIDE DEF a, u, d, e
<1>5. lost' \in Nat /\ billed' \in Nat /\ billed' = ledger' + 0 + lost' + unread'
  BY <1>1, <1>3, <1>4
<1>6. Cap > 0 => ledger' + 0 + 0 <= Ceiling
  BY <1>1, <1>3, <1>4
<1>7. backlog' \in Seq(Mails)
  BY <1>1, EmptySeq
<1>8. WorkTypes'
  BY <1>1, <1>2, <1>3, <1>5, <1>7 DEF WorkTypes
<1>9. EveryCallIsAccounted'
  BY <1>2, <1>5 DEF EveryCallIsAccounted
<1>10. Promised'
  BY <1>2, <1>6 DEF Promised, Ceiling
<1> QED BY <1>2, <1>8, <1>9, <1>10 DEF IInv

LEMMA InvInit == Init => IInv
<1> SUFFICES ASSUME Init PROVE IInv
  OBVIOUS
<1>1. /\ request = [r \in Requests |-> IdleRequest] /\ round = [t \in Rounds |-> IdleRound]
      /\ backlog = <<>> /\ ledger = 0 /\ billed = 0 /\ lost = 0 /\ unread = 0
  BY DEF Init
<1>2. /\ request \in [Requests -> RequestStates] /\ round \in [Rounds -> RoundStates] /\ Slots
      /\ Owed = 0 /\ Cardinality(CommittedRequests) = 0 /\ Cardinality(CommittedMails) = 0
  BY <1>1, NobodyWorks
<1>3. WorkTypes
  BY <1>1, <1>2, EmptySeq DEF WorkTypes
<1>4. EveryCallIsAccounted
  BY <1>1, <1>2 DEF EveryCallIsAccounted
<1>5. Promised
  <2>1. PerRound * Cardinality(Rounds) \in Nat /\ Cardinality(Requests) \in Nat /\ Cap \in Nat
    BY GatewayAssumption, FS_CardinalityType
  <2> QED BY <1>1, <1>2, <2>1 DEF Promised, Ceiling
<1> QED BY <1>2, <1>3, <1>4, <1>5 DEF IInv

LEMMA InvStep == IInv /\ [Next]_vars => IInv'
<1> SUFFICES ASSUME IInv, [Next]_vars PROVE IInv'
  OBVIOUS
<1>1. ASSUME NEW r \in Requests, RequestActs(r) PROVE IInv'
  <2>1. UNCHANGED backlog
    BY <1>1 DEF RequestActs, RequestStep, BodyText, Complete, SaveSummary, RecordUsage, Answered,
                Dropped, AskProbe, AskSummary, AskDraft
  <2> QED BY <1>1, <2>1, RequestSteps, RequestKeeps DEF IInv
<1>2. ASSUME NEW t \in Rounds, RoundActs(t) PROVE IInv'
  BY <1>2, RoundSteps, RoundKeeps DEF IInv
<1>3. ASSUME NEW doc \in Documents, Reload(doc) PROVE IInv'
  BY <1>3, OthersKeep DEF Reload, store
<1>4. ASSUME NEW m \in Mails, NEW decision \in {"accepted", "dismissed"}, Decide(m, decision) PROVE IInv'
  BY <1>4, OthersKeep DEF Decide
<1>5. CASE Tick
  BY <1>5, OthersKeep DEF Tick, store
<1>6. CASE Crash
  BY <1>6, CrashKeeps
<1>7. CASE UNCHANGED vars
  BY <1>7, OthersKeep DEF vars, store
<1> QED BY <1>1, <1>2, <1>3, <1>4, <1>5, <1>6, <1>7 DEF Next, RequestActs, RoundActs

\* The inductive invariant of the gateway.
THEOREM AiInvariant == Spec => []IInv
<1>1. Init => IInv
  BY InvInit
<1>2. IInv /\ [Next]_vars => IInv'
  BY InvStep
<1> QED BY <1>1, <1>2, PTL DEF Spec

\* Every call the provider bills is recorded, about to be recorded by whoever made it,
\* was lost to a failed write, a dropped request or a crash, or had an answer that the
\* transport could not read (routes_ai.rs, sync/triage, gateway.rs).  The last part is
\* money no row shows; HalfwayCallsAreRecorded, which leaves it out, is false.
THEOREM EveryCallAccounted == Spec => []EveryCallIsAccounted
<1>1. IInv => EveryCallIsAccounted
  BY DEF IInv
<1> QED BY <1>1, AiInvariant, PTL

\* The ledger passes the cap by at most a call for each request and a batch for each
\* round, whatever passed the gate together (gateway.rs, the budget check).
THEOREM OverrunBounded == Spec => []OverrunIsBounded
<1>1. IInv => OverrunIsBounded
  <2> SUFFICES ASSUME IInv, Cap > 0 PROVE ledger <= Ceiling
    BY DEF OverrunIsBounded, Ceiling
  <2>1. CommittedRequests \in SUBSET Requests
    BY DEF CommittedRequests
  <2>2. Cardinality(CommittedRequests) \in Nat /\ Cardinality(CommittedMails) \in Nat
    BY <2>1, SomeRequests, BatchTypes, BatchesAreFew DEF IInv
  <2>3. Ceiling \in Int
    BY GatewayAssumption, FS_CardinalityType DEF Ceiling
  <2>4. ledger \in Nat /\ ledger + Cardinality(CommittedRequests) + Cardinality(CommittedMails) <= Ceiling
    BY DEF IInv, WorkTypes, Promised
  <2> QED BY <2>2, <2>3, <2>4
<1> QED BY <1>1, AiInvariant, PTL
=============================================================================
