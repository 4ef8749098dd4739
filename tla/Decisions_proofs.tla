-------------------------- MODULE Decisions_proofs --------------------------
(* Proofs about Decisions, for any number of cards, children and requests.   *)
(*                                                                           *)
(* The argument: an action that closes cards does it through SettleUnder,    *)
(* with a map from pending cards to outcomes (Closing).  The lemmas named    *)
(* Settle... show once that such a step keeps each part of the invariant, so *)
(* an action is left with what it does besides.                              *)
EXTENDS Decisions, TLAPS

-----------------------------------------------------------------------------
(* The inductive invariant.                                                  *)

(* A card nobody opened has left no trace; a pending one has been told to    *)
(* nobody and has written nothing; a closed one has its future set, if any.  *)
CardOK(c) ==
    /\ row[c].state = "none" => row[c].plan = FALSE /\ future[c] = "none"
    /\ row[c].state \in {"none", "pending"} => review[c] = "none" /\ heard[c] = None
    /\ future[c] = "set" => row[c].state \in Outcomes

Ledger(c) ==
    /\ review[c] = "approved" =>
          row[c].plan /\ row[c].state = "approved" /\ row[c].bind = "ok"
    /\ review[c] = "changes_requested" <=>
          row[c].plan /\ row[c].kind = "approval" /\ row[c].state = "rejected"

HeardOK(c) == heard[c] # None => heard[c] = row[c].state
ToldOK == \A t \in told : row[t[1]].inv = t[2] /\ row[t[1]].state = t[3]
DueOK == due \subseteq Pending

IInv ==
    /\ TypeOK
    /\ \A c \in Cards : CardOK(c) /\ Ledger(c) /\ HeardOK(c)
    /\ ToldOK
    /\ DueOK
    /\ WaiterIsWoken

-----------------------------------------------------------------------------
(* Closing cards.                                                            *)

(* What a step may hand to Settle: pending cards, each with an outcome, and  *)
(* the owner's answer only to a card that is fresh, under an invocation.     *)
Closing(out, inv) ==
    /\ DOMAIN out \subseteq Pending
    /\ \A c \in DOMAIN out : /\ out[c] \in Outcomes
                             /\ out[c] \in Answers => Fresh(c)
    /\ inv \in Invocations \cup {None}

(* What happens to one card when some are settled.                           *)
LEMMA SettledCard ==
    ASSUME TypeOK, NEW out, NEW inv, NEW blocked, Closing(out, inv), SettleUnder(out, inv, blocked),
           NEW c \in Cards
    PROVE  /\ row'[c] \in RowType
           /\ row'[c].kind = row[c].kind
           /\ row'[c].plan = row[c].plan
           /\ row'[c].bind = row[c].bind
           /\ c \in DOMAIN out => /\ row'[c].state = out[c]
                                  /\ review'[c] = PlanRow(c, out[c], blocked)
                                  /\ out[c] \in Outcomes
                                  /\ row[c].state = "pending"
           /\ c \notin DOMAIN out => row'[c] = row[c] /\ review'[c] = review[c]
           /\ future'[c] = IF c \in DOMAIN out /\ future[c] = "open" THEN "set" ELSE future[c]
<1>1. row[c] \in RowType
  BY DEF TypeOK
<1>2. CASE c \in DOMAIN out
  <2> DEFINE i == IF out[c] \in Answers THEN inv ELSE None
  <2>1. row'[c] = [row[c] EXCEPT !.state = out[c], !.inv = i]
    BY <1>2 DEF SettleUnder
  <2>2. out[c] \in Outcomes /\ i \in Invocations \cup {None} /\ row[c].state = "pending"
    BY <1>2 DEF Closing, Pending
  <2>3. row'[c] \in RowType /\ row'[c].state = out[c]
        /\ row'[c].kind = row[c].kind /\ row'[c].plan = row[c].plan /\ row'[c].bind = row[c].bind
    <3> HIDE DEF i
    <3> QED  BY <1>1, <2>1, <2>2 DEF RowType
  <2>4. review'[c] = PlanRow(c, out[c], blocked)
        /\ future'[c] = IF future[c] = "open" THEN "set" ELSE future[c]
    BY <1>2 DEF SettleUnder
  <2> QED  BY <1>2, <2>2, <2>3, <2>4
<1>3. CASE c \notin DOMAIN out
  <2>1. row'[c] = row[c] /\ review'[c] = review[c] /\ future'[c] = future[c]
    BY <1>3 DEF SettleUnder
  <2> QED  BY <1>1, <1>3, <2>1
<1> QED  BY <1>2, <1>3

LEMMA SettleTypes ==
    ASSUME TypeOK, NEW out, NEW inv, NEW blocked, Closing(out, inv), SettleUnder(out, inv, blocked)
    PROVE  /\ row' \in [Cards -> RowType]
           /\ review' \in [Cards -> {"none", "approved", "changes_requested"}]
           /\ future' \in [Cards -> {"none", "open", "set"}]
           /\ due' \subseteq Cards
<1>1. row' \in [Cards -> RowType]
  <2>1. row' = [c \in Cards |-> row'[c]]
    BY DEF SettleUnder
  <2> QED  BY <2>1, SettledCard
<1>2. review' \in [Cards -> {"none", "approved", "changes_requested"}]
  BY DEF PlanRow, TypeOK, SettleUnder
<1>3. future' \in [Cards -> {"none", "open", "set"}]
  BY DEF TypeOK, SettleUnder
<1>4. due' \subseteq Cards
  BY DEF TypeOK, SettleUnder
<1> QED  BY <1>1, <1>2, <1>3, <1>4

LEMMA SettleCards ==
    ASSUME IInv, NEW out, NEW inv, NEW blocked, Closing(out, inv), SettleUnder(out, inv, blocked),
           UNCHANGED heard,
           NEW c \in Cards
    PROVE  (CardOK(c) /\ Ledger(c) /\ HeardOK(c))'
<1>1. TypeOK /\ CardOK(c) /\ Ledger(c) /\ HeardOK(c)
  BY DEF IInv
<1>2. CASE c \notin DOMAIN out
  <2>1. row'[c] = row[c] /\ review'[c] = review[c] /\ future'[c] = future[c] /\ heard'[c] = heard[c]
    BY <1>1, <1>2, SettledCard
  <2> QED  BY <1>1, <2>1 DEF CardOK, Ledger, HeardOK, Open
<1>3. CASE c \in DOMAIN out
  <2>1. /\ row'[c].kind = row[c].kind /\ row'[c].plan = row[c].plan /\ row'[c].bind = row[c].bind
        /\ row'[c].state = out[c] /\ review'[c] = PlanRow(c, out[c], blocked)
        /\ out[c] \in Outcomes /\ row[c].state = "pending"
    BY <1>1, <1>3, SettledCard
  <2>2. review[c] = "none" /\ heard[c] = None
    BY <1>1, <2>1 DEF CardOK
  <2>3. CardOK(c)'
    BY <2>1 DEF CardOK, Open, Outcomes, Answers
  <2>4. HeardOK(c)'
    BY <2>2 DEF HeardOK
  <2>5. out[c] = "approved" /\ row[c].plan /\ Passed(blocked) => row[c].bind = "ok"
    BY <1>3 DEF Closing, Fresh, Current, Answers, Passed
  <2>6. Ledger(c)'
    BY <2>1, <2>2, <2>5 DEF Ledger, PlanRow
  <2> QED  BY <2>3, <2>4, <2>6
<1> QED  BY <1>2, <1>3

(* A closed card is out of reach: what was told of it stays true.            *)
LEMMA SettleFinal ==
    ASSUME IInv, NEW out, NEW inv, NEW blocked, Closing(out, inv), SettleUnder(out, inv, blocked),
           NEW c \in Cards, row[c].state \in Outcomes
    PROVE  row'[c] = row[c]
<1>1. c \notin DOMAIN out
  BY DEF Closing, Pending, Outcomes, Answers
<1> QED  BY <1>1, SettledCard DEF IInv

LEMMA SettleTold ==
    ASSUME IInv, NEW out, NEW inv, NEW blocked, Closing(out, inv), SettleUnder(out, inv, blocked)
    PROVE  \A t \in told : row'[t[1]].inv = t[2] /\ row'[t[1]].state = t[3]
<1> SUFFICES ASSUME NEW t \in told  PROVE row'[t[1]].inv = t[2] /\ row'[t[1]].state = t[3]
  OBVIOUS
<1>1. t[1] \in Cards /\ t[3] \in Answers /\ row[t[1]].inv = t[2] /\ row[t[1]].state = t[3]
  BY DEF IInv, ToldOK, TypeOK
<1> QED  BY <1>1, SettleFinal DEF Outcomes

LEMMA SettleDue ==
    ASSUME IInv, NEW out, NEW inv, NEW blocked, Closing(out, inv), SettleUnder(out, inv, blocked)
    PROVE  DueOK'
<1> SUFFICES ASSUME NEW c \in due'  PROVE c \in Cards /\ row'[c].state = "pending"
  BY DEF DueOK, Pending
<1>1. c \in due /\ c \notin DOMAIN out
  BY DEF SettleUnder
<1>2. c \in Cards /\ row[c].state = "pending"
  BY <1>1 DEF IInv, DueOK, Pending
<1> QED  BY <1>1, <1>2, SettledCard DEF IInv

(* Whoever still waits afterwards is woken if the card was closed.           *)
LEMMA SettleWakes ==
    ASSUME IInv, NEW out, NEW inv, NEW blocked, Closing(out, inv), SettleUnder(out, inv, blocked),
           \A a \in Askers : waits'[a] \in {waits[a], None}
    PROVE  WaiterIsWoken'
<1> SUFFICES ASSUME NEW a \in Askers, waits'[a] # None
             PROVE  future'[waits[a]] = IF Open(waits[a])' THEN "open" ELSE "set"
  BY DEF WaiterIsWoken, Open
<1> DEFINE c == waits[a]
<1>1. TypeOK /\ c # None /\ c \in Cards
  BY DEF IInv, TypeOK
<1>2. future[c] = IF Open(c) THEN "open" ELSE "set"
  BY <1>1 DEF IInv, WaiterIsWoken
<1>3. CASE c \in DOMAIN out
  BY <1>1, <1>2, <1>3, SettledCard DEF Open, Outcomes, Answers
<1>4. CASE c \notin DOMAIN out
  BY <1>1, <1>2, <1>4, SettledCard DEF Open
<1> QED  BY <1>3, <1>4

(* The maps the actions use.                                                 *)
LEMMA ExpiredCloses == ASSUME IInv PROVE Closing(Expired, None)
BY DEF IInv, DueOK, Closing, Expired, Outcomes, Answers

LEMMA TimedOutCloses == ASSUME IInv, NEW c \in Cards, Open(c) PROVE Closing(TimedOut(c), None)
BY DEF Closing, TimedOut, Outcomes, Answers, Open, Pending

LEMMA StoppedCloses == ASSUME IInv PROVE Closing(Stopped, None)
BY DEF Closing, Stopped, Outcomes, Answers

LEMMA AnsweredCloses ==
    ASSUME IInv, NEW c \in Cards, NEW o \in Answers, NEW i \in Invocations, NEW ok,
           NEW blocked, Accepted(c, o, i, ok, blocked)
    PROVE  Closing(Answered(c, o), i)
BY DEF IInv, DueOK, Closing, Answered, Accepted, Open, Pending, Outcomes, Answers

LEMMA ExpiredClosesFor == ASSUME IInv, NEW i \in Invocations PROVE Closing(Expired, i)
BY DEF IInv, DueOK, Closing, Expired, Outcomes, Answers

LEMMA ResumeType == ASSUME NEW out, NEW s \in Statuses PROVE Resume(out, s) \in Statuses
BY DEF Resume, Statuses, Busy

-----------------------------------------------------------------------------
(* The invariant holds initially and every action keeps it.                  *)

LEMMA InitInv == Init => IInv
<1> SUFFICES ASSUME Init PROVE IInv
  OBVIOUS
<1>1. TypeOK
  <2>1. NoRow \in RowType
    BY DEF NoRow, RowType
  <2>2. row \in [Cards -> RowType] /\ heard \in [Cards -> Outcomes \cup {None}]
    BY <2>1 DEF Init
  <2>3. stopping \in (SUBSET Kids) \cup {None}
    BY DEF Init
  <2> QED  BY <2>2, <2>3 DEF Init, TypeOK, Statuses, Verdicts, Busy
<1>2. \A c \in Cards : CardOK(c) /\ Ledger(c) /\ HeardOK(c)
  BY DEF Init, CardOK, Ledger, HeardOK, Open, NoRow
<1>3. ToldOK /\ DueOK /\ WaiterIsWoken
  BY DEF Init, ToldOK, DueOK, WaiterIsWoken
<1> QED  BY <1>1, <1>2, <1>3 DEF IInv

(* A step that closes cards and lets no coroutine start to wait.             *)
LEMMA SettleStep ==
    ASSUME IInv, NEW out, NEW inv, NEW blocked, Closing(out, inv), SettleUnder(out, inv, blocked),
           UNCHANGED <<heard, told>>, TypeOK',
           \A a \in Askers : waits'[a] \in {waits[a], None}
    PROVE  IInv'
<1>1. \A c \in Cards : (CardOK(c) /\ Ledger(c) /\ HeardOK(c))'
  <2> TAKE c \in Cards
  <2> QED  BY SettleCards
<1>2. ToldOK'
  BY SettleTold DEF ToldOK
<1>3. DueOK' /\ WaiterIsWoken'
  BY SettleDue, SettleWakes
<1> QED  BY <1>1, <1>2, <1>3 DEF IInv

(* A step that touches no card and lets no coroutine start to wait.          *)
LEMMA QuietStep ==
    ASSUME IInv, UNCHANGED <<row, review, future, heard, told, due>>, TypeOK',
           \A a \in Askers : waits'[a] \in {waits[a], None}
    PROVE  IInv'
<1>1. \A c \in Cards : (CardOK(c) /\ Ledger(c) /\ HeardOK(c))'
  BY DEF IInv, CardOK, Ledger, HeardOK, Open
<1>2. ToldOK' /\ DueOK'
  BY DEF IInv, ToldOK, DueOK, Pending
<1>3. WaiterIsWoken'
  BY DEF IInv, WaiterIsWoken, Open
<1> QED  BY <1>1, <1>2, <1>3 DEF IInv

LEMMA StartInv == ASSUME IInv, Start PROVE IInv'
<1>1. TypeOK'
  BY DEF IInv, TypeOK, Start, durable, Statuses, Busy
<1> QED  BY <1>1, QuietStep DEF Start, durable

LEMMA SpawnInv == ASSUME IInv, NEW k \in Kids, Spawn(k) PROVE IInv'
<1>1. TypeOK'
  BY DEF IInv, TypeOK, Spawn, durable
<1> QED  BY <1>1, QuietStep DEF Spawn, durable

LEMMA KidEndsInv == ASSUME IInv, NEW k \in Kids, KidEnds(k) PROVE IInv'
<1>1. TypeOK'
  BY DEF IInv, TypeOK, KidEnds, durable
<1> QED  BY <1>1, QuietStep DEF KidEnds, durable

LEMMA StopKidInv == ASSUME IInv, NEW k \in Kids, StopKid(k) PROVE IInv'
<1>1. TypeOK'
  BY DecisionsAssumption DEF IInv, TypeOK, StopKid, durable, Statuses
<1>2. \A a \in Askers : waits'[a] \in {waits[a], None}
  BY DEF IInv, TypeOK, StopKid
<1> QED  BY <1>1, <1>2, QuietStep DEF StopKid, durable

LEMMA ReapInv == ASSUME IInv, NEW owned \in SUBSET Kids, Reap(owned) PROVE IInv'
<1>1. TypeOK'
  BY DEF IInv, TypeOK, Reap, durable, Statuses
<1>2. \A a \in Askers : waits'[a] \in {waits[a], None}
  BY DEF Reap
<1> QED  BY <1>1, <1>2, QuietStep DEF Reap, durable

LEMMA StopBeginInv == ASSUME IInv, StopBegin PROVE IInv'
<1>1. TypeOK'
  BY DEF IInv, TypeOK, StopBegin, durable
<1> QED  BY <1>1, QuietStep DEF StopBegin, durable

LEMMA ExpireInv == ASSUME IInv, NEW a \in Askers, Expire(a) PROVE IInv'
<1> DEFINE c == waits[a]
<1>1. c \in Cards /\ Open(c)
  BY DEF IInv, TypeOK, Expire
<1>2. Closing(TimedOut(c), None) /\ SettleUnder(TimedOut(c), None, FALSE)
  BY <1>1, TimedOutCloses DEF Expire, Settle
<1>3. status' \in Statuses
  BY ResumeType DEF IInv, TypeOK, Expire
<1>4. TypeOK'
  BY <1>2, <1>3, SettleTypes DEF IInv, TypeOK, Expire
<1> QED  BY <1>2, <1>4, SettleStep DEF Expire

LEMMA EndTurnInv == ASSUME IInv, NEW s \in {"completed", "failed"}, EndTurn(s) PROVE IInv'
<1>1. Closing(Expired, None) /\ SettleUnder(Expired, None, FALSE)
  BY ExpiredCloses DEF EndTurn, Settle
<1>2. TypeOK'
  BY <1>1, SettleTypes DEF IInv, TypeOK, EndTurn, Statuses
<1> QED  BY <1>1, <1>2, SettleStep DEF EndTurn

LEMMA CancelledInv == ASSUME IInv, Cancelled PROVE IInv'
<1>1. Closing(Expired, None) /\ SettleUnder(Expired, None, FALSE)
  BY ExpiredCloses DEF Cancelled, Settle
<1>2. TypeOK'
  BY <1>1, SettleTypes DEF IInv, TypeOK, Cancelled, Statuses
<1>3. \A a \in Askers : waits'[a] \in {waits[a], None}
  BY DEF IInv, TypeOK, Cancelled
<1> QED  BY <1>1, <1>2, <1>3, SettleStep DEF Cancelled

LEMMA LookInv == ASSUME IInv, Look PROVE IInv'
<1>1. Closing(Expired, None) /\ SettleUnder(Expired, None, FALSE)
  BY ExpiredCloses DEF Look, Settle
<1>2. status' \in Statuses
  BY ResumeType DEF IInv, TypeOK, Look
<1>3. TypeOK'
  BY <1>1, <1>2, SettleTypes DEF IInv, TypeOK, Look
<1> QED  BY <1>1, <1>3, SettleStep DEF Look

LEMMA StopRootInv == ASSUME IInv, StopRoot PROVE IInv'
<1>1. Closing(Stopped, None) /\ SettleUnder(Stopped, None, FALSE)
  BY StoppedCloses DEF StopRoot, Settle
<1>2. status' \in Statuses
  BY ResumeType DEF IInv, TypeOK, StopRoot
<1>3. TypeOK'
  BY <1>1, <1>2, SettleTypes DEF IInv, TypeOK, StopRoot
<1> QED  BY <1>1, <1>3, SettleStep DEF StopRoot

(* Opening a card: c is new, so nobody waits for it and nothing was told.    *)
LEMMA RequestInv ==
    ASSUME IInv, NEW a \in Askers, NEW c \in Cards,
           NEW kind \in {"question", "approval"}, NEW plan \in BOOLEAN,
           Request(a, c, kind, plan),
           UNCHANGED <<review, verdict, heard, due, told>>, TypeOK'
    PROVE  IInv'
<1> DEFINE new == [state |-> "pending", kind |-> kind, plan |-> plan,
                   bind |-> IF plan THEN verdict ELSE None, inv |-> None]
<1>1. TypeOK /\ DueOK /\ ToldOK /\ WaiterIsWoken
  BY DEF IInv
<1>2. /\ row[c].state = "none"
      /\ row'[c] = new /\ future'[c] = "open"
      /\ \A d \in Cards : d # c => row'[d] = row[d] /\ future'[d] = future[d]
  BY <1>1 DEF Request, TypeOK
<1>3. ASSUME NEW d \in Cards  PROVE (CardOK(d) /\ Ledger(d) /\ HeardOK(d))'
  <2>1. CardOK(d) /\ Ledger(d) /\ HeardOK(d) /\ review'[d] = review[d] /\ heard'[d] = heard[d]
    BY DEF IInv
  <2>2. CASE d # c
    BY <1>2, <2>1, <2>2 DEF CardOK, Ledger, HeardOK, Open
  <2>3. CASE d = c
    <3>1. review'[c] = "none" /\ heard'[c] = None
      BY <1>2, <2>1, <2>3 DEF CardOK
    <3> QED  BY <1>2, <2>3, <3>1 DEF CardOK, Ledger, HeardOK, Open
  <2> QED  BY <2>2, <2>3
<1>4. ToldOK'
  <2> SUFFICES ASSUME NEW t \in told  PROVE row'[t[1]].inv = t[2] /\ row'[t[1]].state = t[3]
    BY DEF ToldOK
  <2>1. t[1] \in Cards /\ t[3] \in Answers /\ row[t[1]].inv = t[2] /\ row[t[1]].state = t[3]
    BY <1>1 DEF ToldOK, TypeOK
  <2>2. t[1] # c
    BY <1>2, <2>1 DEF Answers
  <2> QED  BY <1>2, <2>1, <2>2
<1>5. DueOK'
  BY <1>1, <1>2 DEF DueOK, Pending
<1>6. WaiterIsWoken'
  <2> SUFFICES ASSUME NEW b \in Askers, waits'[b] # None
               PROVE  future'[waits'[b]] = IF row'[waits'[b]].state = "pending" THEN "open" ELSE "set"
    BY DEF WaiterIsWoken, Open
  <2>1. CASE b = a
    <3>1. waits'[b] = c
      BY <1>1, <2>1 DEF Request, TypeOK
    <3> QED  BY <1>2, <3>1 DEF Open
  <2>2. CASE b # a
    <3>1. waits'[b] = waits[b] /\ waits[b] \in Cards
      BY <1>1, <2>2 DEF Request, TypeOK
    <3>2. future[waits[b]] = IF Open(waits[b]) THEN "open" ELSE "set"
      BY <1>1, <3>1 DEF WaiterIsWoken
    <3>3. waits[b] # c
      BY <1>2, <3>2 DEF Open, IInv, CardOK
    <3> QED  BY <1>2, <3>1, <3>2, <3>3 DEF Open
  <2> QED  BY <2>1, <2>2
<1> QED  BY <1>3, <1>4, <1>5, <1>6 DEF IInv

LEMMA RequestTypes ==
    ASSUME TypeOK, NEW a \in Askers, NEW c \in Cards,
           NEW kind \in {"question", "approval"}, NEW plan \in BOOLEAN,
           Request(a, c, kind, plan)
    PROVE  /\ row' \in [Cards -> RowType]
           /\ future' \in [Cards -> {"none", "open", "set"}]
           /\ waits' \in [Askers -> Cards \cup {None}]
           /\ status' \in Statuses
<1> DEFINE new == [state |-> "pending", kind |-> kind, plan |-> plan,
                   bind |-> IF plan THEN verdict ELSE None, inv |-> None]
<1>1. new \in RowType
  BY DEF TypeOK, RowType
<1>2. row' = [row EXCEPT ![c] = new]
  BY DEF Request
<1>3. row' \in [Cards -> RowType]
  <2> HIDE DEF new
  <2> QED  BY <1>1, <1>2 DEF TypeOK
<1> QED  BY <1>3 DEF Request, TypeOK, Statuses, Busy

LEMMA AskInv ==
    ASSUME IInv, NEW c \in Cards, NEW kind \in {"question", "approval"}, NEW plan \in BOOLEAN,
           NEW blocked \in BOOLEAN, Ask(c, kind, plan, blocked)
    PROVE  IInv'
<1>1. Root \in Askers
  BY DEF Askers
<1>2. TypeOK'
  BY <1>1, RequestTypes DEF IInv, TypeOK, Ask
<1> QED  BY <1>1, <1>2, RequestInv DEF Ask

LEMMA AskForKidInv == ASSUME IInv, NEW k \in Kids, NEW c \in Cards, AskForKid(k, c) PROVE IInv'
<1>1. k \in Askers
  BY DEF Askers
<1>2. TypeOK'
  BY <1>1, RequestTypes DEF IInv, TypeOK, AskForKid
<1> QED  BY <1>1, <1>2, RequestInv DEF AskForKid

(* A coroutine goes on: its card is closed, and it takes the row's outcome.  *)
LEMMA HearInv == ASSUME IInv, NEW a \in Askers, Hear(a) PROVE IInv'
<1> DEFINE c == waits[a]
<1>1. /\ c \in Cards /\ row[c].state \in Outcomes
      /\ heard' = [heard EXCEPT ![c] = row[c].state]
  BY DEF IInv, TypeOK, CardOK, Hear
<1>2. TypeOK'
  <2>1. status' \in Statuses /\ prev' \in [Kids -> Statuses]
    BY DEF IInv, TypeOK, Hear, Statuses
  <2>2. waits' \in [Askers -> Cards \cup {None}]
    BY DEF IInv, TypeOK, Hear
  <2> QED  BY <1>1, <2>1, <2>2 DEF IInv, TypeOK, Hear, durable
<1>3. UNCHANGED <<row, review, future, told, due, verdict>>
  BY DEF Hear, durable
<1>4. ASSUME NEW d \in Cards  PROVE (CardOK(d) /\ Ledger(d) /\ HeardOK(d))'
  <2>1. CardOK(d) /\ Ledger(d) /\ HeardOK(d)
    BY DEF IInv
  <2>2. CASE d = c
    <3>1. heard'[d] = row[d].state /\ row[d].state \notin {"none", "pending"}
      BY <1>1, <2>2 DEF IInv, TypeOK, Outcomes, Answers
    <3> QED  BY <1>3, <2>1, <3>1 DEF CardOK, Ledger, HeardOK, Open
  <2>3. CASE d # c
    <3>1. heard'[d] = heard[d]
      BY <1>1, <2>3 DEF IInv, TypeOK
    <3> QED  BY <1>3, <2>1, <3>1 DEF CardOK, Ledger, HeardOK, Open
  <2> QED  BY <2>2, <2>3
<1>5. ToldOK' /\ DueOK'
  BY <1>3 DEF IInv, ToldOK, DueOK, Pending
<1>6. WaiterIsWoken'
  BY <1>3 DEF IInv, TypeOK, WaiterIsWoken, Open, Hear
<1> QED  BY <1>2, <1>4, <1>5, <1>6 DEF IInv

LEMMA AnswerInv ==
    ASSUME IInv, NEW c \in Cards, NEW o \in Answers, NEW i \in Invocations, NEW ok \in BOOLEAN,
           NEW blocked \in BOOLEAN, Answer(c, o, i, ok, blocked)
    PROVE  IInv'
<1>1. CASE Repeated(c, o, i)
  <2>1. /\ UNCHANGED <<row, review, future, status, due, verdict, waits, heard, task, prev, stopping>>
        /\ told' = told \cup {<<c, i, o>>}
    BY <1>1 DEF Answer
  <2>2. ToldOK'
    BY <1>1, <2>1 DEF IInv, ToldOK, Repeated
  <2>3. TypeOK'
    BY <2>1 DEF IInv, TypeOK
  <2>4. \A d \in Cards : (CardOK(d) /\ Ledger(d) /\ HeardOK(d))'
    BY <2>1 DEF IInv, CardOK, Ledger, HeardOK, Open
  <2>5. DueOK' /\ WaiterIsWoken'
    BY <2>1 DEF IInv, DueOK, Pending, WaiterIsWoken, Open
  <2> QED  BY <2>2, <2>3, <2>4, <2>5 DEF IInv
<1>2. CASE ~Repeated(c, o, i) /\ ~Accepted(c, o, i, ok, blocked)
  <2>1. /\ SettleUnder(Expired, i, blocked) /\ status' = Resume(Expired, status)
        /\ UNCHANGED <<verdict, waits, heard, task, prev, stopping, told>>
    BY <1>2 DEF Answer
  <2>2. Closing(Expired, i)
    BY ExpiredClosesFor
  <2>3. TypeOK'
    BY <2>1, <2>2, SettleTypes, ResumeType DEF IInv, TypeOK
  <2> QED  BY <2>1, <2>2, <2>3, SettleStep
<1>3. CASE ~Repeated(c, o, i) /\ Accepted(c, o, i, ok, blocked)
  <2> DEFINE out == Answered(c, o)
  <2>1. /\ SettleUnder(out, i, blocked) /\ status' = Resume(out, status)
        /\ told' = told \cup {<<c, i, o>>}
        /\ UNCHANGED <<verdict, waits, heard, task, prev, stopping>>
    BY <1>3 DEF Answer
  <2>2. Closing(out, i)
    BY <1>3, AnsweredCloses
  <2>3. status' \in Statuses
    BY <2>1, ResumeType DEF IInv, TypeOK
  <2>4. TypeOK'
    BY <2>1, <2>2, <2>3, SettleTypes DEF IInv, TypeOK
  <2>5. \A d \in Cards : (CardOK(d) /\ Ledger(d) /\ HeardOK(d))'
    <3> SUFFICES ASSUME NEW d \in Cards  PROVE (CardOK(d) /\ Ledger(d) /\ HeardOK(d))'
      OBVIOUS
    <3> QED  BY <2>1, <2>2, SettleCards
  <2>6. ToldOK' /\ DueOK'
    <3>1. \A t \in told : row'[t[1]].inv = t[2] /\ row'[t[1]].state = t[3]
      BY <2>1, <2>2, SettleTold
    <3>2. row'[c].inv = i /\ row'[c].state = o
      <4>1. c \in DOMAIN out /\ out[c] = o
        BY DEF Answered
      <4>2. row'[c] = [row[c] EXCEPT !.state = o, !.inv = i]
        BY <2>1, <4>1 DEF SettleUnder
      <4>3. row[c] \in RowType
        BY DEF IInv, TypeOK
      <4> QED  BY <4>2, <4>3 DEF RowType
    <3>3. DueOK'
      BY <2>1, <2>2, SettleDue
    <3> QED  BY <2>1, <3>1, <3>2, <3>3 DEF ToldOK
  <2>7. WaiterIsWoken'
    BY <2>1, <2>2, SettleWakes
  <2> QED  BY <2>4, <2>5, <2>6, <2>7 DEF IInv
<1> QED  BY <1>1, <1>2, <1>3

LEMMA PassInv == ASSUME IInv, NEW c \in Cards, Pass(c) PROVE IInv'
<1>1. TypeOK'
  BY DEF IInv, TypeOK, Pass
<1>2. \A d \in Cards : (CardOK(d) /\ Ledger(d) /\ HeardOK(d))'
  BY DEF IInv, CardOK, Ledger, HeardOK, Open, Pass
<1>3. ToldOK' /\ DueOK' /\ WaiterIsWoken'
  BY DEF IInv, ToldOK, DueOK, Pending, WaiterIsWoken, Open, Pass
<1> QED  BY <1>1, <1>2, <1>3 DEF IInv

LEMMA VerifyInv == ASSUME IInv, Verify PROVE IInv'
<1>1. TypeOK'
  BY DEF IInv, TypeOK, Verify
<1> QED  BY <1>1, QuietStep DEF Verify

(* At boot the rows are as the dead process left them, but for the overdue.  *)
LEMMA RestartInv == ASSUME IInv, Restart PROVE IInv'
<1>1. ASSUME NEW c \in Cards
      PROVE  /\ row'[c] \in RowType
             /\ c \notin due => row'[c] = row[c]
             /\ c \in due => /\ row[c].state = "pending" /\ row'[c].state = "expired"
                             /\ row'[c].plan = row[c].plan /\ row'[c].kind = row[c].kind
                             /\ row'[c].bind = row[c].bind
  <2>1. row[c] \in RowType
    BY DEF IInv, TypeOK
  <2>2. c \in due => row[c].state = "pending"
    BY DEF IInv, DueOK, Pending
  <2>3. row'[c] = IF c \in due THEN [row[c] EXCEPT !.state = "expired"] ELSE row[c]
    BY DEF Restart
  <2> QED  BY <2>1, <2>2, <2>3 DEF RowType, Outcomes
<1>2. TypeOK'
  <2>1. row' \in [Cards -> RowType]
    BY <1>1 DEF Restart
  <2>2. status' \in Statuses /\ prev' \in [Kids -> Statuses]
    BY DEF IInv, TypeOK, Restart, Statuses
  <2> QED  BY <2>1, <2>2 DEF IInv, TypeOK, Restart
<1>3. ASSUME NEW c \in Cards  PROVE (CardOK(c) /\ Ledger(c) /\ HeardOK(c))'
  <2>1. CardOK(c) /\ Ledger(c) /\ HeardOK(c) /\ future'[c] = "none"
        /\ review'[c] = review[c] /\ heard'[c] = heard[c]
    BY DEF IInv, Restart
  <2>2. CASE c \in due
    BY <1>1, <2>1, <2>2 DEF CardOK, Ledger, HeardOK, Open
  <2>3. CASE c \notin due
    BY <1>1, <2>1, <2>3 DEF CardOK, Ledger, HeardOK, Open
  <2> QED  BY <2>2, <2>3
<1>4. ToldOK'
  <2> SUFFICES ASSUME NEW t \in told  PROVE row'[t[1]].inv = t[2] /\ row'[t[1]].state = t[3]
    BY DEF ToldOK, Restart
  <2>1. t[1] \in Cards /\ t[3] \in Answers /\ row[t[1]].inv = t[2] /\ row[t[1]].state = t[3]
    BY DEF IInv, ToldOK, TypeOK
  <2>2. t[1] \notin due
    BY <1>1, <2>1 DEF Answers
  <2> QED  BY <1>1, <2>1, <2>2
<1>5. DueOK' /\ WaiterIsWoken'
  BY DEF DueOK, Pending, WaiterIsWoken, Restart
<1> QED  BY <1>2, <1>3, <1>4, <1>5 DEF IInv

-----------------------------------------------------------------------------
(* The theorems.                                                             *)

LEMMA StepInv == IInv /\ [Next]_vars => IInv'
<1> SUFFICES ASSUME IInv, [Next]_vars  PROVE IInv'
  OBVIOUS
<1>1. CASE UNCHANGED vars
  <2>1. TypeOK'
    BY <1>1 DEF IInv, TypeOK, vars
  <2> QED  BY <1>1, <2>1, QuietStep DEF vars
<1>2. CASE Next
  BY <1>2, StartInv, SpawnInv, KidEndsInv, StopKidInv, PassInv, AskInv, AskForKidInv, AnswerInv,
     HearInv, ExpireInv, EndTurnInv, ReapInv, LookInv, StopBeginInv, StopRootInv, CancelledInv,
     VerifyInv, RestartInv
     DEF Next
<1> QED  BY <1>1, <1>2

(* The inductive invariant of the cards.                                     *)
THEOREM Invariance == Spec => []IInv
BY InitInv, StepInv, PTL DEF Spec

(* Every variable keeps its type.                                            *)
THEOREM TypeCorrect == Spec => []TypeOK
<1>1. IInv => TypeOK
  BY DEF IInv
<1> QED  BY <1>1, Invariance, PTL

(* The waiter and the owner are told the outcome that is in the row.         *)
THEOREM SameOutcomeForAll == Spec => []AllHearTheRow
<1>1. IInv => AllHearTheRow
  BY DEF IInv, HeardOK, ToldOK, AllHearTheRow
<1> QED  BY <1>1, Invariance, PTL

(* An approval in the plan ledger was given by the owner on a card asked of  *)
(* a version that had passed its critique; the refusals in it are those the  *)
(* owner gave on approval cards, all of them and no other.                   *)
THEOREM LedgerFaithful == Spec => []LedgerSaysWhatOwnerSaid
<1>1. IInv => LedgerSaysWhatOwnerSaid
  BY DEF IInv, Ledger, LedgerSaysWhatOwnerSaid
<1> QED  BY <1>1, Invariance, PTL

(* A waiting coroutine has a future, set exactly when its card is closed.    *)
THEOREM NoLostWakeUp == Spec => []WaiterIsWoken
<1>1. IInv => WaiterIsWoken
  BY DEF IInv
<1> QED  BY <1>1, Invariance, PTL

(* A card is closed once and its outcome never changes.                      *)
THEOREM ClosedOnce == Spec => OneOutcome
<1>1. IInv /\ [Next]_vars => [\A c \in Cards : row[c].state \in Outcomes => row'[c] = row[c]]_vars
  <2> SUFFICES ASSUME IInv, Next, NEW c \in Cards, row[c].state \in Outcomes
               PROVE  row'[c] = row[c]
    OBVIOUS
  <2>1. ASSUME NEW out, NEW inv, NEW blocked, Closing(out, inv), SettleUnder(out, inv, blocked)
        PROVE  row'[c] = row[c]
    BY <2>1, SettleFinal
  <2>2. row[c].state \notin {"none", "pending"}
    BY DEF Outcomes, Answers
  <2>3. ASSUME NEW d \in Cards, NEW kind, NEW plan, NEW a, Request(a, d, kind, plan)
        PROVE  row'[c] = row[c]
    BY <2>2, <2>3 DEF Request, IInv, TypeOK
  <2>4. ASSUME NEW a \in Askers, Hear(a) \/ Expire(a)  PROVE row'[c] = row[c]
    <3>1. ASSUME Expire(a)  PROVE row'[c] = row[c]
      BY <2>1, <3>1, TimedOutCloses DEF Expire, Settle, IInv, TypeOK
    <3> QED  BY <2>4, <3>1 DEF Hear, durable
  <2>5. ASSUME NEW d \in Cards, NEW o \in Answers, NEW i \in Invocations, NEW ok \in BOOLEAN,
               NEW blocked \in BOOLEAN, Answer(d, o, i, ok, blocked)
        PROVE  row'[c] = row[c]
    BY <2>1, <2>5, AnsweredCloses, ExpiredClosesFor DEF Answer
  <2>6. ASSUME NEW s, EndTurn(s) \/ Look \/ Cancelled \/ StopRoot  PROVE row'[c] = row[c]
    BY <2>1, <2>6, ExpiredCloses, StoppedCloses DEF Settle, EndTurn, Look, Cancelled, StopRoot
  <2>7. ASSUME Restart  PROVE row'[c] = row[c]
    BY <2>2, <2>7 DEF Restart, IInv, DueOK, Pending
  <2>8. ASSUME NEW k \in Kids, Spawn(k) \/ KidEnds(k) \/ StopKid(k)  PROVE row'[c] = row[c]
    BY <2>8 DEF Spawn, KidEnds, StopKid, durable
  <2>9. ASSUME NEW d \in Cards, Pass(d)  PROVE row'[c] = row[c]
    BY <2>9 DEF Pass
  <2>10. ASSUME NEW owned, Reap(owned) \/ Start \/ StopBegin \/ Verify
        PROVE row'[c] = row[c]
    BY <2>10 DEF Reap, Start, StopBegin, Verify, durable
  <2> QED  BY <2>3, <2>4, <2>5, <2>6, <2>7, <2>8, <2>9, <2>10 DEF Next, Ask, AskForKid
<1> QED  BY <1>1, Invariance, PTL DEF Spec, OneOutcome
=============================================================================
