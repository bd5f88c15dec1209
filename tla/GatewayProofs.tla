----------------------------- MODULE GatewayProofs -----------------------------
(* Theorems about the exchanges of the gateway, for every finite set of exchanges *)
(* at once, whichever tools they call, and any number of policy generations.      *)
EXTENDS Gateway, FiniteSetTheorems, TLAPS

-------------------------------------------------------------------------------
(* The inductive invariant.                                                       *)

\* The answer that fits an audited result.
Fits(tool, audit, answer) ==
  answer = "result" <=>
    \/ audit = "success"
    \/ tool = "core.exec" /\ audit \in {"timeout", "cancelled"}

\* What AuditTellsTheAnswer asks of a call that is over.
Told(x) ==
  /\ x.audits = IF Handlers[x.tool].audited THEN 1 ELSE 0
  /\ Handlers[x.tool].audited => Fits(x.tool, x.audit, x.answer)
  /\ x.answer = "not-executed" \/ x.audit = "denied" => ~ x.acted
  /\ x.predicted \in {"no", "lost", x.audit}

\* An exchange leases its generation from its connection on, and is attached until
\* its handler is called.
Leased(x) ==
  /\ x.stage = "connect" <=> x.version = 0
  /\ x.stage \in {"connect", "body"} => x.attached /\ x.tool = "none"

\* Until a handler returns it has audited nothing, and only a provider's has made its
\* change and settled its result before it audits.
Unaudited(x) ==
  /\ x.stage \in ToolStage => x.tool \in DOMAIN Handlers
  /\ x.stage \in {"record", "invoke", "resolve"} => x.tool = "provider"
  /\ x.stage # "close" => x.audits = 0
  /\ x.stage \notin {"close", "resolve"} => x.audit = "none" /\ ~ x.acted
  /\ x.stage \notin {"close", "resolve", "invoke"} => x.predicted = "no"
  /\ x.stage = "invoke" => x.predicted \in {"no", "recorded"}
  /\ x.stage = "resolve" => x.audit \in Signalled

Sound(x) ==
  /\ Leased(x) /\ Unaudited(x)
  /\ x.stage = "close" /\ x.tool # "none" => Told(x)

AllSound == \A s \in Slots : slot[s] # FreeSlot => Sound(slot[s])

IInv == TypeOK /\ AllSound /\ LeasesFollowExchanges

-------------------------------------------------------------------------------
(* Records of exchanges.                                                          *)

LEMMA FreeIsNoExchange ==
  /\ FreeSlot \notin Exchange /\ FreeSlot.stage = "free"
  /\ \A x \in Exchange : x.stage \in HttpStage \cup ToolStage /\ x # FreeSlot
<1>1. FreeSlot.stage = "free"
  BY DEF FreeSlot
<1>2. ASSUME NEW x \in Exchange PROVE x.stage \in HttpStage \cup ToolStage
  BY DEF Exchange
<1>3. "free" \notin HttpStage \cup ToolStage
  BY DEF HttpStage, ToolStage
<1> QED
  BY <1>1, <1>2, <1>3

LEMMA BusySlot ==
  ASSUME TypeOK, NEW s \in Slots, NEW stage, slot[s].stage = stage, stage # "free"
  PROVE  slot[s] \in Exchange /\ slot[s] # FreeSlot
  BY FreeIsNoExchange DEF TypeOK

\* Every handler ends in an outcome that may be audited, a provider's is audited, and
\* only core.exec answers what was cut off as a result.
LEMMA HandlerRecords ==
  /\ \A tool \in DOMAIN Handlers :
       /\ Handlers[tool].audited \in BOOLEAN /\ Handlers[tool].outcomes \subseteq Signalled
       /\ Handlers[tool].reports <=> tool = "core.exec"
  /\ "provider" \in DOMAIN Handlers /\ Handlers["provider"].audited
  /\ "none" \notin DOMAIN Handlers
<1> USE DEF Tool, CoreRead, ReadImage, CoreSearch, CoreWrite, CoreEdit, CoreExec, TaskStart,
        TaskCreate, TaskList, TaskClaim, TaskRelease, TaskComplete, TaskFail, TaskGet, TaskWait,
        TaskCancel, CorePing, ConnectionRestrict, DebateCreate, DebateJoin, DebateRead,
        DebateSend, DebateWait, DebateStop, ProviderTool, HarnessTool, Plain, Signalled
<1>1. DOMAIN Handlers = Builtins \cup HarnessTools \cup {"provider"}
  BY DEF Handlers
<1>2. ASSUME NEW tool \in Builtins
      PROVE  Handlers[tool].audited \in BOOLEAN /\ Handlers[tool].outcomes \subseteq Signalled
  BY <1>2 DEF Handlers, Builtins
<1>3. ASSUME NEW tool \in HarnessTools
      PROVE  Handlers[tool].audited \in BOOLEAN /\ Handlers[tool].outcomes \subseteq Signalled
  BY <1>3 DEF Handlers, HarnessTools
<1>4. Handlers["provider"].audited /\ Handlers["provider"].outcomes \subseteq Signalled
  BY DEF Handlers, HarnessTools
<1>5. "none" \notin DOMAIN Handlers
  BY <1>1 DEF Builtins, HarnessTools
<1>6. ASSUME NEW tool \in Builtins PROVE Handlers[tool].reports <=> tool = "core.exec"
  <2>1. CASE tool = "core.exec"
    <3>1. Handlers[tool] = CoreExec
      BY <1>1, <1>6, <2>1 DEF Handlers, HarnessTools
    <3>2. CoreExec.reports
      OBVIOUS
    <3> QED
      BY <2>1, <3>1, <3>2
  <2>2. CASE tool # "core.exec"
    <3>1. ~ Handlers[tool].reports
      BY <1>6, <2>2 DEF Handlers, Builtins
    <3> QED
      BY <2>2, <3>1
  <2> QED
    BY <2>1, <2>2
<1>7. ASSUME NEW tool \in HarnessTools \cup {"provider"}
      PROVE  ~ Handlers[tool].reports /\ tool # "core.exec"
  BY <1>7 DEF Handlers, HarnessTools
<1> QED
  BY <1>1, <1>2, <1>3, <1>4, <1>5, <1>6, <1>7

\* What Reply tells is what fits.
LEMMA RepliesFit ==
  ASSUME NEW s \in Slots, slot[s].tool \in DOMAIN Handlers, NEW result
  PROVE  Reply(s, result) \in {"result", "error"} /\ Fits(slot[s].tool, result, Reply(s, result))
  BY HandlerRecords DEF Reply, Fits, Handler

-------------------------------------------------------------------------------
(* Counting leases.                                                               *)

\* The generation that x leases, 0 for none, and the exchanges that lease v.
LeaseOf(x) == IF x # FreeSlot /\ x.version # 0 /\ x.attached THEN x.version ELSE 0
Lessees(v) == {s \in Slots : LeaseOf(slot[s]) = v}

LEMMA LeasesAreLessees ==
  LeasesFollowExchanges <=> \A v \in Version : refs[v] = Cardinality(Lessees(v))
<1>1. ASSUME NEW v \in Version
      PROVE  {s \in Slots : Leases(s) /\ slot[s].version = v} = Lessees(v)
  <2>1. v # 0
    BY GatewayAssumption DEF Version
  <2> QED
    BY <2>1 DEF Lessees, LeaseOf, Leases
<1> QED
  BY <1>1 DEF LeasesFollowExchanges

LEMMA LesseesAreFinite ==
  \A v : /\ IsFiniteSet(Lessees(v)) /\ Cardinality(Lessees(v)) \in Nat
         /\ Cardinality(Lessees(v)) <= Cardinality(Slots)
<1> TAKE v
<1>1. Lessees(v) \in SUBSET Slots
  BY DEF Lessees
<1> QED
  BY <1>1, FS_Subset, FS_CardinalityType, GatewayAssumption

\* The same for the next state.
LEMMA LeasesAreLesseesNext ==
  LeasesFollowExchanges' <=> \A v \in Version : refs'[v] = Cardinality(Lessees(v)')
<1>1. ASSUME NEW v \in Version
      PROVE  {s \in Slots : Leases(s)' /\ slot'[s].version = v} = Lessees(v)'
  <2>1. v # 0
    BY GatewayAssumption DEF Version
  <2> QED
    BY <2>1 DEF Lessees, LeaseOf, Leases
<1> QED
  BY <1>1 DEF LeasesFollowExchanges

\* A step that moves no lease.
LEMMA LeasesKept ==
  ASSUME LeasesFollowExchanges, refs' = refs,
         \A s \in Slots : LeaseOf(slot'[s]) = LeaseOf(slot[s])
  PROVE  LeasesFollowExchanges'
<1>1. \A v : Lessees(v)' = Lessees(v)
  BY DEF Lessees
<1> QED
  BY <1>1, LeasesAreLessees, LeasesAreLesseesNext

\* A step that takes a lease for s, and one that gives it back.
LEMMA LeaseTaken ==
  ASSUME LeasesFollowExchanges, TypeOK, NEW s \in Slots, NEW v \in Version,
         refs' = [refs EXCEPT ![v] = @ + 1],
         LeaseOf(slot[s]) = 0, LeaseOf(slot'[s]) = v,
         \A r \in Slots \ {s} : slot'[r] = slot[r]
  PROVE  LeasesFollowExchanges'
<1> SUFFICES ASSUME NEW w \in Version PROVE refs'[w] = Cardinality(Lessees(w)')
  BY LeasesAreLesseesNext
<1>1. w # 0 /\ refs[w] = Cardinality(Lessees(w))
  BY LeasesAreLessees, GatewayAssumption DEF Version
<1>2. Lessees(w)' = IF w = v THEN Lessees(w) \cup {s} ELSE Lessees(w)
  BY <1>1 DEF Lessees
<1>3. s \notin Lessees(w)
  BY <1>1 DEF Lessees
<1>4. Cardinality(Lessees(w) \cup {s}) = Cardinality(Lessees(w)) + 1 \/ w # v
  BY <1>3, LesseesAreFinite, FS_AddElement
<1>5. refs'[w] = IF w = v THEN refs[w] + 1 ELSE refs[w]
  BY DEF TypeOK
<1> QED
  BY <1>1, <1>2, <1>4, <1>5

LEMMA LeaseGivenBack ==
  ASSUME LeasesFollowExchanges, TypeOK, NEW s \in Slots, NEW v \in Version,
         refs' = [refs EXCEPT ![v] = @ - 1],
         LeaseOf(slot[s]) = v, LeaseOf(slot'[s]) = 0,
         \A r \in Slots \ {s} : slot'[r] = slot[r]
  PROVE  LeasesFollowExchanges'
<1> SUFFICES ASSUME NEW w \in Version PROVE refs'[w] = Cardinality(Lessees(w)')
  BY LeasesAreLesseesNext
<1>1. w # 0 /\ refs[w] = Cardinality(Lessees(w))
  BY LeasesAreLessees, GatewayAssumption DEF Version
<1>2. Lessees(w)' = IF w = v THEN Lessees(w) \ {s} ELSE Lessees(w)
  BY <1>1 DEF Lessees
<1>3. w = v => s \in Lessees(w)
  BY <1>1 DEF Lessees
<1>4. Cardinality(Lessees(w) \ {s}) = Cardinality(Lessees(w)) - 1 \/ w # v
  BY <1>3, LesseesAreFinite, FS_RemoveElement
<1>5. refs'[w] = IF w = v THEN refs[w] - 1 ELSE refs[w]
  BY DEF TypeOK
<1> QED
  BY <1>1, <1>2, <1>4, <1>5

\* The counters stay in their range, for nobody leases twice.
LEMMA CountersInRange ==
  ASSUME TypeOK, LeasesFollowExchanges', NEW v \in Version, NEW n,
         refs' = [refs EXCEPT ![v] = n]
  PROVE  refs' \in [Version -> 0..Cardinality(Slots)]
<1>1. Cardinality(Slots) \in Nat
  BY FS_CardinalityType, GatewayAssumption
<1>2. \A w \in Version : Lessees(w)' \in SUBSET Slots
  BY DEF Lessees
<1>3. \A w \in Version :
        Cardinality(Lessees(w)') \in Nat /\ Cardinality(Lessees(w)') <= Cardinality(Slots)
  BY <1>2, FS_Subset, FS_CardinalityType, GatewayAssumption
<1>4. \A w \in Version : refs'[w] \in 0..Cardinality(Slots)
  BY <1>1, <1>3, LeasesAreLesseesNext
<1>5. refs' = [w \in Version |-> refs'[w]]
  BY DEF TypeOK
<1> QED
  BY <1>4, <1>5

\* The types after a step that changes one slot.
LEMMA TypesKept ==
  ASSUME TypeOK, NEW s \in Slots, NEW x \in Exchange \cup {FreeSlot},
         slot' = [slot EXCEPT ![s] = x], refs' \in [Version -> 0..Cardinality(Slots)],
         UNCHANGED <<policy, profile, lifeVars>>
  PROVE  TypeOK'
  BY DEF TypeOK, lifeVars

-------------------------------------------------------------------------------
(* Steps of one exchange.                                                         *)

\* What holds of the slots after a step that gives slot s the exchange x.
LEMMA OneSlot ==
  ASSUME IInv, NEW s \in Slots, NEW x, slot' = [slot EXCEPT ![s] = x]
  PROVE  slot'[s] = x /\ \A r \in Slots \ {s} : slot'[r] = slot[r]
  BY DEF IInv, TypeOK

\* An exchange goes on under the lease it has.
LEMMA ExchangeMoves ==
  ASSUME IInv, NEW s \in Slots, slot[s] \in Exchange,
         NEW x \in Exchange, slot' = [slot EXCEPT ![s] = x],
         Sound(x), LeaseOf(x) = LeaseOf(slot[s]), slot[s].gone => x.gone,
         UNCHANGED <<policy, refs, lifeVars>>, profile' \in [Clients -> Profiles]
  PROVE  IInv'
<1>1. slot'[s] = x /\ \A r \in Slots \ {s} : slot'[r] = slot[r]
  BY OneSlot
<1>2. x # FreeSlot /\ slot[s] # FreeSlot
  BY FreeIsNoExchange
<1>3. TypeOK'
  BY DEF IInv, TypeOK, lifeVars
<1>4. AllSound'
  BY <1>1 DEF IInv, AllSound
<1>5. LeasesFollowExchanges'
  BY <1>1, LeasesKept DEF IInv
<1> QED
  BY <1>3, <1>4, <1>5 DEF IInv

\* An exchange of stage is one, and what is said of it holds.
LEMMA Busy ==
  ASSUME IInv, NEW s \in Slots, slot[s].stage # "free"
  PROVE  slot[s] \in Exchange /\ slot[s] # FreeSlot /\ Sound(slot[s])
  BY BusySlot DEF IInv, AllSound

\* The exchange x, closed with an answer and its audits.
Closed(x, answer, acted, audits, audit) ==
  [x EXCEPT !.stage = "close", !.answer = answer, !.acted = acted, !.audits = audits,
            !.audit = audit]

LEMMA ClosedType ==
  ASSUME NEW x \in Exchange, NEW answer \in {"none", "result", "error", "not-executed"},
         NEW acted \in BOOLEAN, NEW audits \in 0..2,
         NEW audit \in Signalled \cup {"none", "denied"}
  PROVE  Closed(x, answer, acted, audits, audit) \in Exchange
  BY DEF Closed, Exchange, HttpStage

\* A call is over: what it audited tells what it answers.
LEMMA CallIsOver ==
  ASSUME IInv, NEW s \in Slots, slot[s].stage \in ToolStage,
         NEW x \in Exchange, slot' = [slot EXCEPT ![s] = x],
         x.stage = "close", x.tool = slot[s].tool, Told(x),
         x.version = slot[s].version, x.gone = slot[s].gone, x.attached = slot[s].attached,
         UNCHANGED <<policy, refs, lifeVars>>, profile' \in [Clients -> Profiles]
  PROVE  IInv'
<1>1. slot[s] \in Exchange /\ Sound(slot[s])
  BY Busy DEF ToolStage
<1>2. Leased(x)
  BY <1>1 DEF Sound, Leased, ToolStage
<1>3. Unaudited(x)
  BY DEF Unaudited, ToolStage
<1>4. LeaseOf(x) = LeaseOf(slot[s])
  BY <1>1, FreeIsNoExchange DEF LeaseOf
<1> QED
  BY <1>1, <1>2, <1>3, <1>4, ExchangeMoves DEF Sound

\* A handler that predicted nothing returns, and tells the truth.
Outcome(s, result, answer, acted) ==
  /\ Finish(s, result, answer, acted)
  /\ Fits(slot[s].tool, result, answer)
  /\ answer = "not-executed" \/ result = "denied" => ~ acted

Returns(s) ==
  \E result \in Signalled \cup {"denied"}, answer \in {"result", "error", "not-executed"},
     acted \in BOOLEAN : Outcome(s, result, answer, acted)

\* Its finally audits it.
LEMMA HandlerReturns ==
  ASSUME IInv, NEW s \in Slots, slot[s].stage \in ToolStage \ {"resolve"},
         slot[s].predicted = "no", Returns(s),
         UNCHANGED <<policy, refs, lifeVars>>, profile' \in [Clients -> Profiles]
  PROVE  IInv'
<1>1. slot[s] \in Exchange /\ slot[s].audits = 0 /\ slot[s].audit = "none"
  BY Busy DEF Sound, Unaudited, ToolStage
<1>2. PICK result \in Signalled \cup {"denied"}, answer \in {"result", "error", "not-executed"},
           acted \in BOOLEAN : Outcome(s, result, answer, acted)
  BY DEF Returns
<1>3. CASE Handler(s).audited
  <2> DEFINE x == Closed(slot[s], answer, acted, 1, result)
  <2>1. slot' = [slot EXCEPT ![s] = x]
    <3>1. slot' = [slot EXCEPT ![s] = Closed(slot[s], answer, acted, slot[s].audits + 1, result)]
      BY <1>2, <1>3 DEF Outcome, Finish, Audits, Closed
    <3>2. slot[s].audits + 1 = 1
      BY <1>1
    <3> QED
      BY <3>1, <3>2
  <2>2. x \in Exchange
    BY <1>1, <1>2, ClosedType
  <2>3. /\ x.stage = "close" /\ x.answer = answer /\ x.acted = acted
        /\ x.audits = 1 /\ x.audit = result /\ x.tool = slot[s].tool
        /\ x.predicted = "no" /\ x.version = slot[s].version /\ x.gone = slot[s].gone
        /\ x.attached = slot[s].attached
    BY <1>1, <1>2 DEF Closed, Exchange
  <2> HIDE DEF x
  <2>4. Told(x)
    BY <1>2, <1>3, <2>3 DEF Told, Handler, Outcome
  <2> QED
    BY <2>1, <2>2, <2>3, <2>4, CallIsOver
<1>4. CASE ~ Handler(s).audited
  <2> DEFINE x == Closed(slot[s], answer, acted, 0, "none")
  <2>1. slot' = [slot EXCEPT ![s] = x]
    BY <1>1, <1>2, <1>4 DEF Outcome, Finish, Audits, Closed
  <2>2. x \in Exchange
    BY <1>1, <1>2, ClosedType
  <2>3. /\ x.stage = "close" /\ x.answer = answer /\ x.acted = acted
        /\ x.audits = 0 /\ x.audit = "none" /\ x.tool = slot[s].tool
        /\ x.predicted = "no" /\ x.version = slot[s].version /\ x.gone = slot[s].gone
        /\ x.attached = slot[s].attached
    BY <1>1, <1>2 DEF Closed, Exchange
  <2> HIDE DEF x
  <2>4. Told(x)
    BY <1>2, <1>4, <2>3 DEF Told, Handler, Outcome
  <2> QED
    BY <2>1, <2>2, <2>3, <2>4, CallIsOver
<1> QED
  BY <1>3, <1>4

-------------------------------------------------------------------------------
(* Every action keeps the invariant.                                              *)

LEMMA InitHolds == Init => IInv
<1> SUFFICES ASSUME Init PROVE IInv
  OBVIOUS
<1>1. TypeOK
  <2>1. Cardinality(Slots) \in Nat
    BY FS_CardinalityType, GatewayAssumption
  <2>2. refs \in [Version -> 0..Cardinality(Slots)]
    BY <2>1 DEF Init
  <2>3. policy \in Version
    BY GatewayAssumption DEF Init, Version
  <2> QED
    BY <2>2, <2>3 DEF Init, TypeOK, Profiles
<1>2. ASSUME NEW v \in Version PROVE refs[v] = Cardinality(Lessees(v))
  <2>1. Lessees(v) = {}
    BY <1>2, GatewayAssumption DEF Init, Lessees, LeaseOf, Version
  <2> QED
    BY <1>2, <2>1, FS_EmptySet DEF Init
<1>3. LeasesFollowExchanges
  BY <1>2, LeasesAreLessees
<1> QED
  BY <1>1, <1>3 DEF Init, IInv, AllSound

LEMMA ArriveStep ==
  ASSUME IInv, NEW s \in Slots, NEW c \in Callers, Arrive(s, c)
  PROVE  IInv'
<1> DEFINE x == [stage |-> "connect", caller |-> c, profile |-> "gateway-only", version |-> 0,
        tool |-> "none", gone |-> FALSE, attached |-> TRUE, acted |-> FALSE,
        audits |-> 0, audit |-> "none", predicted |-> "no", answer |-> "none"]
<1>1. slot' = [slot EXCEPT ![s] = x]
  BY DEF Arrive
<1>2. x \in Exchange
  BY DEF Exchange, HttpStage, Profiles
<1>3. Sound(x) /\ LeaseOf(x) = 0
  BY DEF Sound, Leased, Unaudited, ToolStage, LeaseOf
<1> HIDE DEF x
<1>4. slot'[s] = x /\ \A r \in Slots \ {s} : slot'[r] = slot[r]
  BY <1>1, OneSlot
<1>5. TypeOK'
  BY <1>1, <1>2 DEF Arrive, IInv, TypeOK, lifeVars
<1>6. AllSound'
  BY <1>3, <1>4 DEF IInv, AllSound
<1>7. LeasesFollowExchanges'
  <2>1. slot[s] = FreeSlot /\ refs' = refs
    BY DEF Arrive
  <2> QED
    BY <1>3, <1>4, <2>1, LeasesKept DEF LeaseOf, IInv
<1> QED
  BY <1>5, <1>6, <1>7 DEF IInv

LEMMA ConnectStep ==
  ASSUME IInv, NEW s \in Slots, Connect(s)
  PROVE  IInv'
<1> DEFINE p == IF slot[s].caller = Host THEN "gateway-only" ELSE profile[slot[s].caller]
           x == [slot[s] EXCEPT !.stage = "body", !.version = policy, !.profile = p]
<1>1. slot[s] \in Exchange /\ slot[s] # FreeSlot /\ Sound(slot[s]) /\ slot[s].stage = "connect"
  BY Busy DEF Connect
<1>2. slot' = [slot EXCEPT ![s] = x]
  BY DEF Connect
<1>3. p \in Profiles
  BY <1>1 DEF IInv, TypeOK, Exchange, Callers, Profiles
<1> HIDE DEF p
<1>4. policy \in Version /\ policy # 0
  BY GatewayAssumption DEF IInv, TypeOK, Version
<1>5. x \in Exchange
  BY <1>1, <1>3, <1>4 DEF Exchange, HttpStage
<1>6. /\ x.stage = "body" /\ x.version = policy /\ x.attached = slot[s].attached
      /\ x.gone = slot[s].gone /\ x.tool = slot[s].tool /\ x.audits = slot[s].audits
      /\ x.audit = slot[s].audit /\ x.acted = slot[s].acted
      /\ x.predicted = slot[s].predicted
  BY <1>1 DEF Exchange
<1> HIDE DEF x
<1>7. Sound(x)
  BY <1>1, <1>4, <1>6 DEF Sound, Leased, Unaudited, ToolStage
<1>8. LeaseOf(slot[s]) = 0 /\ LeaseOf(x) = policy
  BY <1>1, <1>4, <1>5, <1>6, FreeIsNoExchange DEF Sound, Leased, LeaseOf
<1>9. slot'[s] = x /\ \A r \in Slots \ {s} : slot'[r] = slot[r]
  BY <1>2, OneSlot
<1>10. refs' = [refs EXCEPT ![policy] = @ + 1]
  BY DEF Connect
<1>11. LeasesFollowExchanges'
  BY <1>4, <1>8, <1>9, <1>10, LeaseTaken DEF IInv
<1>12. refs' \in [Version -> 0..Cardinality(Slots)]
  BY <1>4, <1>10, <1>11, CountersInRange DEF IInv
<1>13. TypeOK'
  BY <1>2, <1>5, <1>12, TypesKept DEF Connect, IInv
<1>14. AllSound'
  BY <1>7, <1>9 DEF IInv, AllSound
<1> QED
  BY <1>11, <1>13, <1>14 DEF IInv

\* An exchange leaves its slot, its lease was given back or there was none.
LEMMA SlotFreed ==
  ASSUME IInv, NEW s \in Slots, slot' = [slot EXCEPT ![s] = FreeSlot],
         LeasesFollowExchanges', refs' \in [Version -> 0..Cardinality(Slots)],
         UNCHANGED <<policy, profile, lifeVars>>
  PROVE  IInv'
<1>1. slot'[s] = FreeSlot /\ \A r \in Slots \ {s} : slot'[r] = slot[r]
  BY OneSlot
<1>2. TypeOK'
  BY DEF IInv, TypeOK, lifeVars
<1>3. AllSound'
  BY <1>1 DEF IInv, AllSound
<1> QED
  BY <1>2, <1>3 DEF IInv

LEMMA ConnectRefusedStep ==
  ASSUME IInv, NEW s \in Slots, ConnectRefused(s)
  PROVE  IInv'
<1>1. slot[s] \in Exchange /\ Sound(slot[s]) /\ slot[s].stage = "connect"
  BY Busy DEF ConnectRefused
<1>2. slot' = [slot EXCEPT ![s] = FreeSlot] /\ refs' = refs
  BY DEF ConnectRefused
<1>3. LeaseOf(FreeSlot) = 0 /\ LeaseOf(slot[s]) = 0
  BY <1>1 DEF LeaseOf, Sound, Leased
<1>4. LeasesFollowExchanges'
  BY <1>2, <1>3, OneSlot, LeasesKept DEF IInv
<1> QED
  BY <1>2, <1>4, SlotFreed DEF ConnectRefused, IInv, TypeOK

LEMMA ReleaseStep ==
  ASSUME IInv, NEW s \in Slots, Release(s)
  PROVE  IInv'
<1>1. slot[s] \in Exchange /\ slot[s] # FreeSlot /\ Sound(slot[s]) /\ slot[s].stage = "close"
  BY Busy DEF Release
<1>2. slot' = [slot EXCEPT ![s] = FreeSlot]
  BY DEF Release
<1>3. LeaseOf(FreeSlot) = 0 /\ slot[s].version # 0 /\ slot[s].version \in Version
  BY <1>1 DEF LeaseOf, Sound, Leased, Exchange
<1>4. slot'[s] = FreeSlot /\ \A r \in Slots \ {s} : slot'[r] = slot[r]
  BY <1>2, OneSlot
<1>5. CASE slot[s].attached
  <2>1. refs' = [refs EXCEPT ![slot[s].version] = @ - 1]
    BY <1>5 DEF Release, Returned
  <2>2. LeaseOf(slot[s]) = slot[s].version
    BY <1>1, <1>3, <1>5 DEF LeaseOf
  <2>3. LeasesFollowExchanges'
    BY <1>3, <1>4, <2>1, <2>2, LeaseGivenBack DEF IInv
  <2>4. refs' \in [Version -> 0..Cardinality(Slots)]
    BY <1>3, <2>1, <2>3, CountersInRange DEF IInv
  <2> QED
    BY <1>2, <2>3, <2>4, SlotFreed DEF Release
<1>6. CASE ~ slot[s].attached
  <2>1. refs' = refs
    BY <1>6 DEF Release, Returned
  <2>2. LeaseOf(slot[s]) = 0
    BY <1>6 DEF LeaseOf
  <2>3. LeasesFollowExchanges'
    BY <1>3, <1>4, <2>1, <2>2, LeasesKept DEF IInv
  <2> QED
    BY <1>2, <2>1, <2>3, SlotFreed DEF Release, IInv, TypeOK
<1> QED
  BY <1>5, <1>6

LEMMA DetachStep ==
  ASSUME IInv, NEW s \in Slots, Detach(s)
  PROVE  IInv'
<1> DEFINE x == [slot[s] EXCEPT !.attached = FALSE]
<1>1. /\ slot[s] \in Exchange /\ slot[s] # FreeSlot /\ Sound(slot[s])
      /\ slot[s].stage \in ToolStage /\ slot[s].attached
  BY Busy DEF Detach, ToolStage
<1>2. slot' = [slot EXCEPT ![s] = x]
  BY DEF Detach
<1>3. x \in Exchange
  BY <1>1 DEF Exchange
<1>4. /\ ~ x.attached /\ x.stage = slot[s].stage /\ x.version = slot[s].version
      /\ x.gone = slot[s].gone /\ x.tool = slot[s].tool /\ x.audits = slot[s].audits
      /\ x.audit = slot[s].audit /\ x.acted = slot[s].acted
      /\ x.predicted = slot[s].predicted
  BY <1>1 DEF Exchange
<1> HIDE DEF x
<1>5. Sound(x)
  BY <1>1, <1>4 DEF Sound, Leased, Unaudited, ToolStage
<1>6. slot[s].version # 0 /\ slot[s].version \in Version
  BY <1>1 DEF Sound, Leased, Exchange, ToolStage
<1>7. LeaseOf(slot[s]) = slot[s].version /\ LeaseOf(x) = 0
  BY <1>1, <1>4, <1>6 DEF LeaseOf
<1>8. slot'[s] = x /\ \A r \in Slots \ {s} : slot'[r] = slot[r]
  BY <1>2, OneSlot
<1>9. refs' = [refs EXCEPT ![slot[s].version] = @ - 1]
  BY <1>1 DEF Detach, Returned
<1>10. LeasesFollowExchanges'
  BY <1>6, <1>7, <1>8, <1>9, LeaseGivenBack DEF IInv
<1>11. refs' \in [Version -> 0..Cardinality(Slots)]
  BY <1>6, <1>9, <1>10, CountersInRange DEF IInv
<1>12. TypeOK'
  BY <1>2, <1>3, <1>11, TypesKept DEF Detach, IInv
<1>13. AllSound'
  BY <1>5, <1>8 DEF IInv, AllSound
<1> QED
  BY <1>10, <1>12, <1>13 DEF IInv

-------------------------------------------------------------------------------
(* The steps that keep their lease.                                               *)

\* A step to another stage that changes nothing else of its exchange.
LEMMA StageMoves ==
  ASSUME IInv, NEW s \in Slots, NEW stage \in {"harness", "work", "record", "invoke"},
         slot[s].stage \in {"dispatch", "harness", "work"},
         slot' = [slot EXCEPT ![s].stage = stage],
         stage \in {"record", "invoke"} => slot[s].tool = "provider",
         UNCHANGED <<policy, refs, profile, lifeVars>>
  PROVE  IInv'
<1> DEFINE x == [slot[s] EXCEPT !.stage = stage]
<1>1. slot[s] \in Exchange /\ Sound(slot[s])
  BY Busy
<1>2. slot' = [slot EXCEPT ![s] = x]
  OBVIOUS
<1>3. x \in Exchange
  BY <1>1 DEF Exchange, ToolStage
<1>4. /\ x.stage = stage /\ x.attached = slot[s].attached
      /\ x.version = slot[s].version /\ x.gone = slot[s].gone /\ x.tool = slot[s].tool
      /\ x.audits = slot[s].audits /\ x.audit = slot[s].audit /\ x.acted = slot[s].acted
      /\ x.predicted = slot[s].predicted
  BY <1>1 DEF Exchange
<1> HIDE DEF x
<1>5. Sound(x)
  BY <1>1, <1>4 DEF Sound, Leased, Unaudited, ToolStage
<1>6. LeaseOf(x) = LeaseOf(slot[s])
  BY <1>1, <1>3, <1>4, FreeIsNoExchange DEF LeaseOf
<1> QED
  BY <1>1, <1>2, <1>3, <1>4, <1>5, <1>6, ExchangeMoves DEF IInv, TypeOK

LEMMA BadBodyStep ==
  ASSUME IInv, NEW s \in Slots, slot[s].stage = "body",
         slot' = [slot EXCEPT ![s].stage = "close", ![s].answer = "error"],
         UNCHANGED <<policy, refs, profile, lifeVars>>
  PROVE  IInv'
<1> DEFINE x == [slot[s] EXCEPT !.stage = "close", !.answer = "error"]
<1>1. slot[s] \in Exchange /\ Sound(slot[s])
  BY Busy
<1>2. slot' = [slot EXCEPT ![s] = x]
  OBVIOUS
<1>3. x \in Exchange
  BY <1>1 DEF Exchange, HttpStage
<1>4. /\ x.stage = "close" /\ x.attached = slot[s].attached
      /\ x.version = slot[s].version /\ x.gone = slot[s].gone /\ x.tool = slot[s].tool
  BY <1>1 DEF Exchange
<1> HIDE DEF x
<1>5. Sound(x)
  BY <1>1, <1>4 DEF Sound, Leased, Unaudited, ToolStage
<1>6. LeaseOf(x) = LeaseOf(slot[s])
  BY <1>1, <1>3, <1>4, FreeIsNoExchange DEF LeaseOf
<1> QED
  BY <1>1, <1>2, <1>3, <1>4, <1>5, <1>6, ExchangeMoves DEF IInv, TypeOK

LEMMA DispatchStep ==
  ASSUME IInv, NEW s \in Slots, NEW tool \in Calls[s], Dispatch(s, tool)
  PROVE  IInv'
<1>1. slot[s] \in Exchange /\ Sound(slot[s]) /\ slot[s].stage = "body"
  BY Busy DEF Dispatch
<1>2. CASE ~ Registered(s, tool)
  <2>1. slot' = [slot EXCEPT ![s].stage = "close", ![s].answer = "error"]
    BY <1>2 DEF Dispatch
  <2> QED
    BY <1>1, <2>1, BadBodyStep DEF Dispatch
<1>3. CASE Registered(s, tool)
  <2> DEFINE x == [slot[s] EXCEPT !.stage = "dispatch", !.tool = tool]
  <2>1. slot' = [slot EXCEPT ![s] = x]
    BY <1>3 DEF Dispatch
  <2>2. tool \in DOMAIN Handlers
    BY GatewayAssumption
  <2>3. x \in Exchange
    BY <1>1, <2>2 DEF Exchange, ToolStage
  <2>4. /\ x.stage = "dispatch" /\ x.attached = slot[s].attached /\ x.tool = tool
        /\ x.version = slot[s].version /\ x.gone = slot[s].gone
        /\ x.audits = slot[s].audits /\ x.audit = slot[s].audit /\ x.acted = slot[s].acted
        /\ x.predicted = slot[s].predicted
    BY <1>1 DEF Exchange
  <2> HIDE DEF x
  <2>5. Sound(x)
    BY <1>1, <2>2, <2>4 DEF Sound, Leased, Unaudited, ToolStage
  <2>6. LeaseOf(x) = LeaseOf(slot[s])
    BY <1>1, <2>3, <2>4, FreeIsNoExchange DEF LeaseOf
  <2> QED
    BY <1>1, <2>1, <2>3, <2>4, <2>5, <2>6, ExchangeMoves DEF Dispatch, IInv, TypeOK
<1> QED
  BY <1>2, <1>3

LEMMA GateStep ==
  ASSUME IInv, NEW s \in Slots, Gate(s)
  PROVE  IInv'
<1>1. PICK stage \in {"harness", "work"} : slot' = [slot EXCEPT ![s].stage = stage]
  BY DEF Gate
<1> QED
  BY <1>1, StageMoves DEF Gate

LEMMA AdmitStep ==
  ASSUME IInv, NEW s \in Slots, Admit(s)
  PROVE  IInv'
  BY StageMoves DEF Admit

\* What an exchange has done before its handler's work.
LEMMA BeforeWork ==
  ASSUME IInv, NEW s \in Slots, slot[s].stage \in {"dispatch", "harness", "work"}
  PROVE  slot[s].stage \in ToolStage \ {"resolve"} /\ slot[s].predicted = "no"
  BY Busy DEF Sound, Unaudited, ToolStage

LEMMA RejectStep ==
  ASSUME IInv, NEW s \in Slots, Reject(s)
  PROVE  IInv'
<1>1. Returns(s)
  BY DEF Reject, Returns, Outcome, Fits, Signalled, Plain
<1> QED
  BY <1>1, BeforeWork, HandlerReturns DEF Reject, IInv, TypeOK

LEMMA RunHarnessToolStep ==
  ASSUME IInv, NEW s \in Slots, RunHarnessTool(s)
  PROVE  IInv'
<1>1. \/ Outcome(s, "success", "result", TRUE)
      \/ Outcome(s, "error", "not-executed", FALSE)
  BY DEF RunHarnessTool, Outcome, Fits
<1>2. Returns(s)
  BY <1>1 DEF Returns, Signalled, Plain
<1> QED
  BY <1>2, BeforeWork, HandlerReturns DEF RunHarnessTool, IInv, TypeOK

LEMMA WorkStep ==
  ASSUME IInv, NEW s \in Slots, Work(s)
  PROVE  IInv'
<1>1. slot[s].tool \in DOMAIN Handlers
  BY Busy DEF Work, Sound, Unaudited, ToolStage
<1>2. Handler(s).outcomes \subseteq Signalled
  BY <1>1, HandlerRecords DEF Handler
<1>3. PICK result \in Handler(s).outcomes, acted \in BOOLEAN, denied \in BOOLEAN :
        /\ denied => result = "error" /\ ~ acted
        /\ Finish(s, IF denied THEN "denied" ELSE result, Reply(s, result), acted)
  BY DEF Work
<1>4. Reply(s, result) \in {"result", "error"} /\ Fits(slot[s].tool, result, Reply(s, result))
  BY <1>1, RepliesFit
<1>5. CASE denied
  <2>1. Reply(s, result) = "error"
    BY <1>3, <1>4, <1>5 DEF Fits
  <2>2. Outcome(s, "denied", "error", acted)
    BY <1>3, <1>5, <2>1 DEF Outcome, Fits
  <2> QED
    BY <2>2, BeforeWork, HandlerReturns DEF Returns, Work, IInv, TypeOK
<1>6. CASE ~ denied
  <2>1. Outcome(s, result, Reply(s, result), acted)
    BY <1>2, <1>3, <1>4, <1>6 DEF Outcome, Signalled, Plain
  <2> QED
    BY <1>2, <1>4, <2>1, BeforeWork, HandlerReturns DEF Returns, Work, IInv, TypeOK
<1> QED
  BY <1>5, <1>6

LEMMA RestrictConnectionStep ==
  ASSUME IInv, NEW s \in Slots, RestrictConnection(s)
  PROVE  IInv'
<1>1. Returns(s)
  <2>1. Outcome(s, "success", "result", TRUE) \/ Outcome(s, "error", "error", FALSE)
    BY DEF RestrictConnection, Outcome, Fits
  <2> QED
    BY <2>1 DEF Returns, Signalled, Plain
<1>2. profile' \in [Clients -> Profiles]
  BY DEF RestrictConnection, IInv, TypeOK, Profiles
<1> QED
  BY <1>1, <1>2, BeforeWork, HandlerReturns DEF RestrictConnection

LEMMA ProviderReadyStep ==
  ASSUME IInv, NEW s \in Slots, ProviderReady(s)
  PROVE  IInv'
<1>1. CASE Finish(s, "error", "error", FALSE)
  <2>1. Returns(s)
    BY <1>1 DEF Returns, Outcome, Fits, Signalled, Plain
  <2> QED
    BY <2>1, BeforeWork, HandlerReturns DEF ProviderReady, IInv, TypeOK
<1>2. CASE \E stage \in {"record", "invoke"} : slot' = [slot EXCEPT ![s].stage = stage]
  BY <1>2, StageMoves DEF ProviderReady
<1> QED
  BY <1>1, <1>2 DEF ProviderReady

LEMMA RecordStep ==
  ASSUME IInv, NEW s \in Slots, Record(s)
  PROVE  IInv'
<1>1. PICK predicted \in {"no", "recorded"} :
        slot' = [slot EXCEPT ![s].stage = "invoke", ![s].predicted = predicted]
  BY DEF Record
<1> DEFINE x == [slot[s] EXCEPT !.stage = "invoke", !.predicted = predicted]
<1>2. slot[s] \in Exchange /\ Sound(slot[s]) /\ slot[s].stage = "record"
  BY Busy DEF Record
<1>3. slot' = [slot EXCEPT ![s] = x]
  BY <1>1
<1>4. x \in Exchange
  BY <1>2 DEF Exchange, ToolStage
<1>5. /\ x.stage = "invoke" /\ x.attached = slot[s].attached /\ x.predicted = predicted
      /\ x.version = slot[s].version /\ x.gone = slot[s].gone /\ x.tool = slot[s].tool
      /\ x.audits = slot[s].audits /\ x.audit = slot[s].audit /\ x.acted = slot[s].acted
  BY <1>2 DEF Exchange
<1> HIDE DEF x
<1>6. Sound(x)
  BY <1>2, <1>5 DEF Sound, Leased, Unaudited, ToolStage
<1>7. LeaseOf(x) = LeaseOf(slot[s])
  BY <1>2, <1>4, <1>5, FreeIsNoExchange DEF LeaseOf
<1> QED
  BY <1>2, <1>3, <1>4, <1>5, <1>6, <1>7, ExchangeMoves DEF Record, IInv, TypeOK

LEMMA InvokeStep ==
  ASSUME IInv, NEW s \in Slots, Invoke(s)
  PROVE  IInv'
<1>1. /\ slot[s] \in Exchange /\ Sound(slot[s]) /\ slot[s].stage = "invoke"
      /\ slot[s].tool = "provider" /\ slot[s].predicted \in {"no", "recorded"}
      /\ slot[s].audits = 0
  BY Busy DEF Invoke, Sound, Unaudited
<1>2. PICK result \in Signalled, acted \in BOOLEAN :
        IF slot[s].predicted = "recorded"
        THEN slot' = [slot EXCEPT ![s].stage = "resolve", ![s].acted = acted,
                        ![s].audit = result]
        ELSE Finish(s, result, Reply(s, result), acted)
  BY DEF Invoke
<1>3. CASE slot[s].predicted = "recorded"
  <2> DEFINE x == [slot[s] EXCEPT !.stage = "resolve", !.acted = acted, !.audit = result]
  <2>1. slot' = [slot EXCEPT ![s] = x]
    BY <1>2, <1>3
  <2>2. x \in Exchange
    BY <1>1, <1>2 DEF Exchange, ToolStage
  <2>3. /\ x.stage = "resolve" /\ x.attached = slot[s].attached /\ x.audit = result
        /\ x.version = slot[s].version /\ x.gone = slot[s].gone /\ x.tool = slot[s].tool
        /\ x.audits = slot[s].audits /\ x.acted = acted
    BY <1>1, <1>2 DEF Exchange
  <2> HIDE DEF x
  <2>4. Leased(x)
    BY <1>1, <2>3 DEF Sound, Leased
  <2>5. Unaudited(x)
    BY <1>1, <1>2, <2>3, HandlerRecords DEF Unaudited
  <2>6. LeaseOf(x) = LeaseOf(slot[s])
    BY <1>1, <2>2, <2>3, FreeIsNoExchange DEF LeaseOf
  <2> QED
    BY <1>1, <2>1, <2>2, <2>3, <2>4, <2>5, <2>6, ExchangeMoves
    DEF Sound, Invoke, IInv, TypeOK
<1>4. CASE slot[s].predicted = "no"
  <2>1. Reply(s, result) \in {"result", "error"} /\ Fits(slot[s].tool, result, Reply(s, result))
    BY <1>1, RepliesFit, HandlerRecords
  <2>2. Outcome(s, result, Reply(s, result), acted)
    BY <1>2, <1>4, <2>1 DEF Outcome, Signalled, Plain
  <2> QED
    BY <1>1, <1>2, <1>4, <2>1, <2>2, HandlerReturns DEF Returns, Invoke, IInv, TypeOK, ToolStage
<1> QED
  BY <1>1, <1>3, <1>4

\* The exchange x, closed with its prediction settled.
Settled(x, told, answer, audits) ==
  [x EXCEPT !.stage = "close", !.audits = audits, !.predicted = told, !.answer = answer]

LEMMA SettledType ==
  ASSUME NEW x \in Exchange, NEW told \in {"no", "recorded", "lost"} \cup Signalled,
         NEW answer \in {"result", "error"}, NEW n \in 0..2
  PROVE  Settled(x, told, answer, n) \in Exchange
  BY DEF Settled, Exchange, HttpStage

LEMMA ResolveStep ==
  ASSUME IInv, NEW s \in Slots, Resolve(s)
  PROVE  IInv'
<1>1. /\ slot[s] \in Exchange /\ Sound(slot[s]) /\ slot[s].stage = "resolve"
      /\ slot[s].tool = "provider" /\ slot[s].audits = 0
      /\ slot[s].audit \in Signalled
  BY Busy DEF Resolve, Sound, Unaudited
<1> DEFINE answer == Reply(s, slot[s].audit)
<1>2. PICK told \in {"lost", slot[s].audit} :
        slot' = [slot EXCEPT ![s].stage = "close", ![s].audits = @ + 1,
                             ![s].predicted = told, ![s].answer = answer]
  BY DEF Resolve
<1> DEFINE x == Settled(slot[s], told, answer, 1)
<1>3. slot' = [slot EXCEPT ![s] = x]
  <2>1. slot' = [slot EXCEPT ![s] = Settled(slot[s], told, answer, slot[s].audits + 1)]
    BY <1>2 DEF Settled
  <2>2. slot[s].audits + 1 = 1
    BY <1>1
  <2> QED
    BY <2>1, <2>2
<1>4. answer \in {"result", "error"} /\ Fits(slot[s].tool, slot[s].audit, answer)
  BY <1>1, RepliesFit, HandlerRecords
<1> HIDE DEF answer
<1>5. x \in Exchange
  <2>1. told \in {"no", "recorded", "lost"} \cup Signalled
    BY <1>1, <1>2
  <2>2. slot[s] \in Exchange /\ answer \in {"result", "error"} /\ 1 \in 0..2
    BY <1>1, <1>4
  <2> QED
    BY <2>1, <2>2, SettledType, Zenon
<1>6. /\ x.stage = "close" /\ x.attached = slot[s].attached /\ x.predicted = told
      /\ x.version = slot[s].version /\ x.gone = slot[s].gone /\ x.tool = slot[s].tool
      /\ x.audits = 1 /\ x.audit = slot[s].audit /\ x.acted = slot[s].acted
      /\ x.answer = answer
  BY <1>1 DEF Settled, Exchange
<1> HIDE DEF x
<1>7. Told(x)
  BY <1>1, <1>2, <1>4, <1>6, HandlerRecords DEF Told, Signalled, Plain
<1> QED
  BY <1>1, <1>3, <1>5, <1>6, <1>7, CallIsOver DEF Resolve, ToolStage, IInv, TypeOK

LEMMA PeerLeavesStep ==
  ASSUME IInv, NEW s \in Slots, PeerLeaves(s)
  PROVE  IInv'
<1> DEFINE x == [slot[s] EXCEPT !.gone = TRUE]
<1>1. slot[s] \in Exchange /\ Sound(slot[s])
  BY Busy DEF PeerLeaves, ToolStage
<1>2. slot' = [slot EXCEPT ![s] = x]
  BY DEF PeerLeaves
<1>3. x \in Exchange
  BY <1>1 DEF Exchange
<1>4. /\ x.stage = slot[s].stage /\ x.attached = slot[s].attached
      /\ x.version = slot[s].version /\ x.gone /\ x.tool = slot[s].tool
      /\ x.audits = slot[s].audits /\ x.audit = slot[s].audit /\ x.acted = slot[s].acted
      /\ x.predicted = slot[s].predicted /\ x.answer = slot[s].answer
  BY <1>1 DEF Exchange
<1> HIDE DEF x
<1>5. Sound(x)
  BY <1>1, <1>4 DEF Sound, Leased, Unaudited, Told
<1>6. LeaseOf(x) = LeaseOf(slot[s])
  BY <1>1, <1>3, <1>4, FreeIsNoExchange DEF LeaseOf
<1> QED
  BY <1>1, <1>2, <1>3, <1>4, <1>5, <1>6, ExchangeMoves DEF PeerLeaves, IInv, TypeOK

-------------------------------------------------------------------------------
(* The steps of the process and of the owner.                                     *)

\* A step that leaves the exchanges alone.
LEMMA SlotsKept ==
  ASSUME IInv, UNCHANGED <<refs, slot>>, TypeOK'
  PROVE  IInv'
<1>1. AllSound'
  BY DEF IInv, AllSound
<1>2. LeasesFollowExchanges'
  BY LeasesKept DEF IInv
<1> QED
  BY <1>1, <1>2 DEF IInv

LEMMA OwnerRestoresStep ==
  ASSUME IInv, NEW c \in Clients, OwnerRestores(c)
  PROVE  IInv'
<1>1. TypeOK'
  BY DEF OwnerRestores, IInv, TypeOK, lifeVars, Profiles
<1> QED
  BY <1>1, SlotsKept DEF OwnerRestores, lifeVars

LEMMA PolicyChangeStep ==
  ASSUME IInv, PolicyChange
  PROVE  IInv'
<1>1. TypeOK'
  BY GatewayAssumption DEF PolicyChange, IInv, TypeOK, lifeVars, Version
<1> QED
  BY <1>1, SlotsKept DEF PolicyChange, lifeVars

LEMMA ProcessStep ==
  ASSUME IInv, Started \/ StartFails \/ Signal \/ CloseStores
  PROVE  IInv'
<1>1. CASE Started
  <2>1. TypeOK'
    BY <1>1 DEF Started, Served, IInv, TypeOK
  <2> QED
    BY <1>1, <2>1, SlotsKept DEF Started
<1>2. CASE StartFails
  <2>1. TypeOK'
    BY <1>2 DEF StartFails, IInv, TypeOK
  <2> QED
    BY <1>2, <2>1, SlotsKept DEF StartFails
<1>3. CASE Signal
  <2>1. TypeOK'
    BY <1>3 DEF Signal, IInv, TypeOK
  <2> QED
    BY <1>3, <2>1, SlotsKept DEF Signal
<1>4. CASE CloseStores
  <2>1. TypeOK'
    BY <1>4 DEF CloseStores, IInv, TypeOK
  <2> QED
    BY <1>4, <2>1, SlotsKept DEF CloseStores
<1> QED
  BY <1>1, <1>2, <1>3, <1>4

\* The peers that are left are all gone at once; no exchange moves.
LEMMA DrainTimesOutStep ==
  ASSUME IInv, DrainTimesOut
  PROVE  IInv'
<1>1. ASSUME NEW s \in Slots, slot[s] # FreeSlot
      PROVE  /\ slot'[s] \in Exchange /\ slot'[s] # FreeSlot
             /\ Sound(slot'[s]) /\ LeaseOf(slot'[s]) = LeaseOf(slot[s])
  <2> DEFINE x == [slot[s] EXCEPT !.gone = TRUE]
  <2>1. slot[s] \in Exchange /\ Sound(slot[s])
    BY <1>1 DEF IInv, AllSound, TypeOK
  <2>2. slot'[s] = x
    BY <1>1 DEF DrainTimesOut
  <2>3. x \in Exchange
    BY <2>1 DEF Exchange
  <2>4. /\ x.stage = slot[s].stage /\ x.attached = slot[s].attached
        /\ x.version = slot[s].version /\ x.tool = slot[s].tool
        /\ x.audits = slot[s].audits /\ x.audit = slot[s].audit /\ x.acted = slot[s].acted
        /\ x.predicted = slot[s].predicted /\ x.answer = slot[s].answer
    BY <2>1 DEF Exchange
  <2> HIDE DEF x
  <2>5. Sound(x)
    BY <2>1, <2>4 DEF Sound, Leased, Unaudited, Told
  <2> QED
    BY <1>1, <2>2, <2>3, <2>4, <2>5, FreeIsNoExchange DEF LeaseOf
<1>2. ASSUME NEW s \in Slots, slot[s] = FreeSlot PROVE slot'[s] = FreeSlot
  BY <1>2 DEF DrainTimesOut
<1>3. slot' \in [Slots -> Exchange \cup {FreeSlot}]
  <2>1. slot' = [s \in Slots |-> slot'[s]]
    BY DEF DrainTimesOut
  <2> QED
    BY <1>1, <1>2, <2>1
<1>4. TypeOK'
  BY <1>3 DEF DrainTimesOut, IInv, TypeOK
<1>5. AllSound'
  BY <1>1, <1>2 DEF AllSound
<1>6. LeasesFollowExchanges'
  <2>1. refs' = refs
    BY DEF DrainTimesOut
  <2>2. \A s \in Slots : LeaseOf(slot'[s]) = LeaseOf(slot[s])
    BY <1>1, <1>2
  <2> QED
    BY <2>1, <2>2, LeasesKept DEF IInv
<1> QED
  BY <1>4, <1>5, <1>6 DEF IInv

-------------------------------------------------------------------------------
(* The theorems.                                                                  *)

LEMMA StepHolds == IInv /\ [Next]_vars => IInv'
<1> SUFFICES ASSUME IInv, [Next]_vars PROVE IInv'
  OBVIOUS
<1>1. ASSUME NEW s \in Slots,
             \/ \E c \in Callers : Arrive(s, c)
             \/ Connect(s) \/ ConnectRefused(s) \/ BadBody(s)
             \/ \E tool \in Calls[s] : Dispatch(s, tool)
      PROVE  IInv'
  BY <1>1, ArriveStep, ConnectStep, ConnectRefusedStep, BadBodyStep, DispatchStep DEF BadBody
<1>2. ASSUME NEW s \in Slots,
             \/ Gate(s) \/ Admit(s) \/ Reject(s) \/ RunHarnessTool(s)
             \/ Work(s) \/ RestrictConnection(s) \/ ProviderReady(s) \/ Record(s)
             \/ Invoke(s) \/ Resolve(s)
      PROVE  IInv'
  BY <1>2, GateStep, AdmitStep, RejectStep, RunHarnessToolStep, WorkStep,
     RestrictConnectionStep, ProviderReadyStep, RecordStep, InvokeStep, ResolveStep
<1>3. ASSUME NEW s \in Slots, PeerLeaves(s) \/ Detach(s) \/ Release(s)
      PROVE  IInv'
  BY <1>3, PeerLeavesStep, DetachStep, ReleaseStep
<1>4. CASE \E c \in Clients : OwnerRestores(c)
  BY <1>4, OwnerRestoresStep
<1>5. CASE PolicyChange \/ Started \/ StartFails \/ Signal \/ DrainTimesOut \/ CloseStores
  BY <1>5, PolicyChangeStep, ProcessStep, DrainTimesOutStep
<1>6. CASE UNCHANGED vars
  <2>1. UNCHANGED <<refs, slot>> /\ TypeOK'
    BY <1>6 DEF vars, lifeVars, IInv, TypeOK
  <2> QED
    BY <2>1, SlotsKept
<1> QED
  BY <1>1, <1>2, <1>3, <1>4, <1>5, <1>6 DEF Next

LEMMA Invariance == Spec => []IInv
  BY InitHolds, StepHolds, PTL DEF Spec

\* Every counter, stage and record stays in its range: no generation has a negative
\* number of leases or more of them than exchanges, and no call is audited twice.
THEOREM TypeCorrect == Spec => []TypeOK
<1>1. IInv => TypeOK
  BY DEF IInv
<1> QED
  BY <1>1, Invariance, PTL

\* A generation has exactly as many leases as exchanges wait for it, for any number of
\* exchanges and generations: none leaks and none is given back twice, also when the
\* peer leaves and the exchange ends while its handler runs on.
THEOREM LeasesBalance == Spec => []LeasesFollowExchanges
<1>1. IInv => LeasesFollowExchanges
  BY DEF IInv
<1> QED
  BY <1>1, Invariance, PTL

\* A call that is over left the one audit event its tool promises, the event says what
\* the caller was told (a command that was cut off is the one result that is not an
\* audited success), what was denied or not executed changed nothing, and a recorded
\* prediction is settled with the audited result: for every tool of the gateway.
THEOREM AuditIsTrue == Spec => []AuditTellsTheAnswer
<1>1. IInv => AuditTellsTheAnswer
  BY DEF IInv, AllSound, Sound, Told, Fits, AuditTellsTheAnswer
<1> QED
  BY <1>1, Invariance, PTL
=============================================================================
