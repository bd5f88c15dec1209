------------------------------ MODULE OAuthProofs ------------------------------
(***************************************************************************)
(* Theorems about the grant store and the service over it, for every set   *)
(* of grants, clients and transactions, every lifetime, grace and capacity, *)
(* and without a bound on the history.                                     *)
(***************************************************************************)
EXTENDS OAuthService, FiniteSetTheorems, SequenceTheorems, WellFoundedInduction, TLAPS

SameToken(a, h) == a.grant = h.grant /\ a.serial = h.serial

\* A grant has one refresh token, whatever its expiry.
RefreshIsUnique ==
  \A t, u \in tokens :
    t.kind = "refresh" /\ u.kind = "refresh" /\ t.grant = u.grant => t = u

\* What is remembered of an answered token: while its grant lives and it has not
\* expired its history row is there, made no later than any answer and naming
\* the successor every answer gave.
AnswersKnown ==
  /\ \A a \in answered : a.serial < a.successor /\ a.successor <= serial[a.grant]
  /\ \A h \in history : h.at <= now
  /\ \A a \in answered, h \in history :
       SameToken(a, h) => a.successor = h.successor /\ h.at <= a.at
  /\ \A a \in answered :
       grants[a.grant] # NoGrant /\ ~Expired(a.expires, now) =>
         \E h \in history : SameToken(a, h) /\ h.expires = a.expires

\* The id of a revoked family is never drawn again.
ReusedIsDrawn == \A g \in reused : serial[g] > 0

IInv ==
  /\ TypeOK /\ OneLiveRefresh /\ RefreshIsUnique /\ CeilingHolds
  /\ AnswersKnown /\ ReusedIsDrawn /\ ReusedFamilyIsGone

-----------------------------------------------------------------------------

LEMMA NoGrantIsNoRow == NoGrant \notin GrantRow
  BY ClientsAssumption DEF NoGrant, GrantRow, NoClient

\* What a prune leaves.
LEMMA PrunedFacts ==
  ASSUME IInv
  PROVE  /\ PrunedTokens \subseteq tokens /\ PrunedHistory \subseteq history
         /\ PrunedGrants \in [GrantIds -> GrantRow \cup {NoGrant}]
         /\ \A g \in GrantIds : PrunedGrants[g] = IF Alive(g) THEN grants[g] ELSE NoGrant
         /\ \A g \in GrantIds : Alive(g) => grants[g] \in GrantRow
         /\ \A t \in PrunedTokens : t.grant \in GrantIds /\ Alive(t.grant)
         /\ \A h \in PrunedHistory : h.grant \in GrantIds /\ Alive(h.grant)
         /\ \A a \in answered : Alive(a.grant) /\ ~Expired(a.expires, now) =>
              \E h \in PrunedHistory : SameToken(a, h) /\ h.expires = a.expires
<1>1. /\ grants \in [GrantIds -> GrantRow \cup {NoGrant}]
      /\ tokens \subseteq TokenRow /\ history \subseteq HistoryRow
      /\ \A t \in tokens : t.grant \in GrantIds /\ grants[t.grant] # NoGrant
      /\ \A h \in history : h.grant \in GrantIds
  BY DEF IInv, TypeOK, TokenRow, HistoryRow
<1>2. PrunedTokens \subseteq tokens /\ PrunedHistory \subseteq history
  BY DEF PrunedTokens, PrunedHistory
<1>3. /\ PrunedGrants \in [GrantIds -> GrantRow \cup {NoGrant}]
      /\ \A g \in GrantIds : PrunedGrants[g] = IF Alive(g) THEN grants[g] ELSE NoGrant
      /\ \A g \in GrantIds : Alive(g) => grants[g] \in GrantRow
  BY <1>1 DEF PrunedGrants, Alive
<1>4. \A t \in PrunedTokens : t.grant \in GrantIds /\ Alive(t.grant)
  BY <1>1, <1>2 DEF Alive
<1>5. \A h \in PrunedHistory : h.grant \in GrantIds /\ Alive(h.grant)
  BY <1>1, <1>2 DEF PrunedHistory
<1>6. ASSUME NEW a \in answered, Alive(a.grant), ~Expired(a.expires, now)
      PROVE  \E h \in PrunedHistory : SameToken(a, h) /\ h.expires = a.expires
  <2>1. PICK h \in history : SameToken(a, h) /\ h.expires = a.expires
    BY <1>6 DEF IInv, AnswersKnown, Alive
  <2>2. h \in PrunedHistory
    BY <1>6, <2>1 DEF PrunedHistory, SameToken
  <2> QED
    BY <2>1, <2>2
<1> QED
  BY <1>2, <1>3, <1>4, <1>5, <1>6

\* A call that adds no rows keeps the invariant, if it leaves no orphans and
\* raises no profile above its ceiling.
LEMMA FewerRowsKeepIInv ==
  ASSUME IInv, UNCHANGED <<now, serial>>,
         defaults' \in [Clients -> Profiles \cup {NoDefault}],
         tokens' \subseteq tokens, history' \subseteq history,
         grants' \in [GrantIds -> GrantRow \cup {NoGrant}],
         \A g \in GrantIds :
           \/ grants'[g] = NoGrant
           \/ /\ grants[g] # NoGrant /\ grants'[g].ceiling = grants[g].ceiling
              /\ grants'[g].ceiling = "gateway-only" => grants'[g].surface = "gateway-only",
         \A t \in tokens' : grants'[t.grant] # NoGrant,
         \A h \in history' : grants'[h.grant] # NoGrant,
         answered' \subseteq AnswerRow, AnswersKnown',
         reused' \subseteq GrantIds,
         \A g \in reused' : serial[g] > 0 /\ grants'[g] = NoGrant
  PROVE  IInv'
<1>1. TypeOK'
  BY DEF IInv, TypeOK
<1>2. OneLiveRefresh' /\ RefreshIsUnique'
  BY DEF IInv, OneLiveRefresh, RefreshIsUnique
<1>3. CeilingHolds'
  <2>1. \A g \in GrantIds :
          grants'[g].ceiling = "gateway-only" => grants'[g].surface = "gateway-only"
    BY DEF NoGrant
  <2>2. \A t \in tokens' : t.expires = Never =>
          t.kind = "refresh" /\ grants'[t.grant].ceiling = "gateway-only"
    <3>1. \A t \in tokens' : t.grant \in GrantIds
      BY DEF IInv, TypeOK, TokenRow
    <3> QED
      BY <3>1 DEF IInv, CeilingHolds
  <2> QED
    BY <2>1, <2>2 DEF CeilingHolds
<1>4. ReusedIsDrawn' /\ ReusedFamilyIsGone'
  BY DEF ReusedIsDrawn, ReusedFamilyIsGone
<1> QED
  BY <1>1, <1>2, <1>3, <1>4 DEF IInv

\* With the same answers, history rows may go only with their grant or when
\* they have expired.
LEMMA SameAnswersKnown ==
  ASSUME IInv, UNCHANGED <<now, serial, answered>>, history' \subseteq history,
         \A a \in answered :
           grants'[a.grant] # NoGrant /\ ~Expired(a.expires, now) =>
             \E h \in history' : SameToken(a, h) /\ h.expires = a.expires
  PROVE  AnswersKnown' /\ answered' \subseteq AnswerRow
  BY DEF IInv, TypeOK, AnswersKnown

-----------------------------------------------------------------------------
(* One step per method.                                                    *)

LEMMA InitIInv == Init => IInv
<1> SUFFICES ASSUME Init PROVE IInv
  OBVIOUS
<1>1. TypeOK
  BY DEF Init, TypeOK
<1>2. CeilingHolds
  BY DEF Init, CeilingHolds, NoGrant
<1> QED
  BY <1>1, <1>2 DEF Init, IInv, OneLiveRefresh, RefreshIsUnique, AnswersKnown,
                    ReusedIsDrawn, ReusedFamilyIsGone

\* A call that leaves the pruned rows, and perhaps a profile within its ceiling.
LEMMA PrunedKeepsIInv ==
  ASSUME IInv, UNCHANGED <<now, defaults, serial, answered>>,
         tokens' = PrunedTokens, history' = PrunedHistory,
         NEW g \in GrantIds, NEW profile \in Profiles,
         \/ grants' = PrunedGrants
         \/ /\ Alive(g) /\ grants' = [PrunedGrants EXCEPT ![g].surface = profile]
            /\ grants[g].ceiling = "gateway-only" => profile = "gateway-only",
         reused' \subseteq GrantIds,
         \A r \in reused' : serial[r] > 0 /\ ~Alive(r)
  PROVE  IInv'
<1> DEFINE row == [grants[g] EXCEPT !.surface = profile]
<1>1. \A r \in GrantIds : grants'[r] = IF Alive(r) THEN (IF r = g THEN grants'[g] ELSE grants[r])
                                       ELSE NoGrant
  BY PrunedFacts
<1>2. Alive(g) => grants[g] \in GrantRow /\ grants'[g] \in {grants[g], row}
  BY PrunedFacts
<1>3. grants[g] \in GrantRow => row \in GrantRow /\ row.ceiling = grants[g].ceiling
                                /\ row.surface = profile
  BY DEF GrantRow
<1>4. Alive(g) => grants'[g] \in GrantRow /\ grants'[g].ceiling = grants[g].ceiling
  BY <1>2, <1>3
<1>5. grants' \in [GrantIds -> GrantRow \cup {NoGrant}]
  <2>1. PrunedGrants \in [GrantIds -> GrantRow \cup {NoGrant}]
    BY PrunedFacts
  <2>2. DOMAIN grants' = GrantIds /\ grants' = [r \in GrantIds |-> grants'[r]]
    BY <2>1
  <2>3. \A r \in GrantIds : grants'[r] \in GrantRow \cup {NoGrant}
    BY <1>1, <1>4, PrunedFacts
  <2> QED
    BY <2>2, <2>3
<1>6. ASSUME NEW r \in GrantIds, Alive(r)
      PROVE  /\ grants'[r] # NoGrant /\ grants[r] # NoGrant
             /\ grants'[r].ceiling = grants[r].ceiling
             /\ grants'[r].ceiling = "gateway-only" => grants'[r].surface = "gateway-only"
  <2>1. grants'[r] \in GrantRow /\ grants[r] \in GrantRow
    BY <1>1, <1>4, <1>6, PrunedFacts
  <2>2. grants'[r].ceiling = grants[r].ceiling
    BY <1>1, <1>4, <1>6
  <2>3. grants[r].ceiling = "gateway-only" => grants'[r].surface = "gateway-only"
    <3>1. CASE grants' = PrunedGrants
      BY <3>1, <1>6, PrunedFacts DEF IInv, CeilingHolds
    <3>2. CASE r # g
      BY <3>2, <1>1, <1>6 DEF IInv, CeilingHolds
    <3>3. CASE /\ r = g /\ grants' = [PrunedGrants EXCEPT ![g].surface = profile]
               /\ grants[g].ceiling = "gateway-only" => profile = "gateway-only"
      <4>1. grants'[g] = row
        BY <3>3, <1>6, PrunedFacts
      <4> QED
        BY <3>3, <4>1, <1>3, <2>1
    <3> QED
      BY <3>1, <3>2, <3>3
  <2> QED
    BY <2>1, <2>2, <2>3, NoGrantIsNoRow
<1>7. \A r \in GrantIds : ~Alive(r) => grants'[r] = NoGrant
  BY <1>1
<1>8. /\ \A t \in tokens' : grants'[t.grant] # NoGrant
      /\ \A h \in history' : grants'[h.grant] # NoGrant
  BY <1>6, PrunedFacts
<1>9. AnswersKnown' /\ answered' \subseteq AnswerRow
  <2>1. \A a \in answered : a.grant \in GrantIds
    BY DEF IInv, TypeOK, AnswerRow
  <2> QED
    BY <1>7, <2>1, PrunedFacts, SameAnswersKnown
<1>10. defaults' \in [Clients -> Profiles \cup {NoDefault}]
  BY DEF IInv, TypeOK
<1>11. \A r \in GrantIds :
         \/ grants'[r] = NoGrant
         \/ /\ grants[r] # NoGrant /\ grants'[r].ceiling = grants[r].ceiling
            /\ grants'[r].ceiling = "gateway-only" => grants'[r].surface = "gateway-only"
  BY <1>6, <1>7
<1>12. \A r \in reused' : serial[r] > 0 /\ grants'[r] = NoGrant
  BY <1>7
<1>13. tokens' \subseteq tokens /\ history' \subseteq history
  BY PrunedFacts
<1> QED
  BY <1>5, <1>8, <1>9, <1>10, <1>11, <1>12, <1>13, FewerRowsKeepIInv

LEMMA ReusedFacts ==
  ASSUME IInv
  PROVE  /\ reused \subseteq GrantIds
         /\ \A r \in reused : serial[r] > 0 /\ ~Alive(r) /\ grants[r] = NoGrant
  BY DEF IInv, TypeOK, ReusedIsDrawn, ReusedFamilyIsGone, Alive

\* Presenting a token marks its family only if the token is overdue, and an
\* overdue token belongs to a family that was drawn.
LEMMA PresentedFacts ==
  ASSUME IInv, NEW g \in GrantIds, NEW n, Presented(g, n)
  PROVE  /\ reused' = reused \/ (reused' = reused \cup {g} /\ Overdue(g, n))
         /\ Overdue(g, n) => serial[g] > 0
<1>1. Overdue(g, n) => \E a \in answered : a.grant = g
  BY DEF Overdue
<1>2. \A a \in answered : a.serial \in Nat \ {0} /\ a.serial < a.successor
                          /\ a.successor <= serial[a.grant] /\ a.successor \in Nat
  BY DEF IInv, TypeOK, AnswerRow, AnswersKnown
<1>3. serial[g] \in Nat
  BY DEF IInv, TypeOK
<1> QED
  BY <1>1, <1>2, <1>3 DEF Presented

LEMMA SettingKeepsIInv ==
  ASSUME IInv, NEW g \in GrantIds,
         RestrictByAccessToken(g) \/ \E profile \in Profiles : SetGrantProfile(g, profile)
  PROVE  IInv'
<1>1. CASE RestrictByAccessToken(g)
  <2>1. Alive(g)
    <3>1. \E t \in PrunedTokens : t.grant = g
      BY <1>1 DEF RestrictByAccessToken
    <3> QED
      BY <3>1, PrunedFacts
  <2> QED
    BY <1>1, <2>1, ReusedFacts, PrunedKeepsIInv DEF RestrictByAccessToken, Profiles
<1>2. ASSUME NEW profile \in Profiles, SetGrantProfile(g, profile)
      PROVE  IInv'
  BY <1>2, ReusedFacts, PrunedKeepsIInv DEF SetGrantProfile, MaySet, Profiles
<1> QED
  BY <1>1, <1>2

\* Deleting grants with all their rows.
LEMMA DeletedKeepsIInv ==
  ASSUME IInv, NEW gs \in SUBSET GrantIds, Deleted(gs),
         UNCHANGED <<now, serial, answered, reused>>,
         defaults' \in [Clients -> Profiles \cup {NoDefault}]
  PROVE  IInv'
<1>1. /\ grants \in [GrantIds -> GrantRow \cup {NoGrant}]
      /\ tokens \subseteq TokenRow /\ history \subseteq HistoryRow
      /\ \A t \in tokens : t.grant \in GrantIds /\ grants[t.grant] # NoGrant
      /\ \A h \in history : h.grant \in GrantIds /\ grants[h.grant] # NoGrant
  BY DEF IInv, TypeOK, TokenRow, HistoryRow
<1>2. /\ grants' = [g \in GrantIds |-> IF g \in gs THEN NoGrant ELSE grants[g]]
      /\ tokens' = {t \in tokens : t.grant \notin gs}
      /\ history' = {h \in history : h.grant \notin gs}
  BY DEF Deleted, Cascade
<1>3. \A g \in GrantIds :
        \/ grants'[g] = NoGrant
        \/ /\ grants[g] # NoGrant /\ grants'[g].ceiling = grants[g].ceiling
           /\ grants'[g].ceiling = "gateway-only" => grants'[g].surface = "gateway-only"
  BY <1>2 DEF IInv, CeilingHolds
<1>4. /\ \A t \in tokens' : grants'[t.grant] # NoGrant
      /\ \A h \in history' : grants'[h.grant] # NoGrant
  BY <1>1, <1>2
<1>5. AnswersKnown' /\ answered' \subseteq AnswerRow
  <2>1. ASSUME NEW a \in answered, grants'[a.grant] # NoGrant, ~Expired(a.expires, now)
        PROVE  \E h \in history' : SameToken(a, h) /\ h.expires = a.expires
    <3>1. a.grant \in GrantIds /\ a.grant \notin gs /\ grants[a.grant] # NoGrant
      BY <1>2, <2>1 DEF IInv, TypeOK, AnswerRow
    <3> QED
      BY <1>2, <2>1, <3>1 DEF IInv, AnswersKnown, SameToken
  <2> QED
    BY <1>2, <2>1, SameAnswersKnown
<1>6. grants' \in [GrantIds -> GrantRow \cup {NoGrant}] /\ tokens' \subseteq tokens
      /\ history' \subseteq history
  BY <1>1, <1>2
<1>7. /\ reused' \subseteq GrantIds
      /\ \A g \in reused' : serial[g] > 0 /\ grants'[g] = NoGrant
  BY <1>2, ReusedFacts
<1> QED
  BY <1>3, <1>4, <1>5, <1>6, <1>7, FewerRowsKeepIInv

LEMMA RevocationKeepsIInv ==
  ASSUME IInv,
         \/ \E g \in GrantIds : RevokeGrant(g)
         \/ \E c \in Clients : RevokeClient(c)
         \/ RevokeAll
  PROVE  IInv'
<1>1. defaults \in [Clients -> Profiles \cup {NoDefault}]
  BY DEF IInv, TypeOK
<1>2. ASSUME NEW g \in GrantIds, RevokeGrant(g)
      PROVE  IInv'
  <2>1. Deleted({g}) /\ UNCHANGED <<now, defaults, serial, answered, reused>>
    BY <1>2 DEF RevokeGrant
  <2> QED
    BY <1>1, <2>1, DeletedKeepsIInv
<1>3. ASSUME NEW c \in Clients, RevokeClient(c)
      PROVE  IInv'
  <2>1. Deleted({g \in GrantIds : grants[g].client = c})
        /\ UNCHANGED <<now, serial, answered, reused>>
        /\ defaults' \in [Clients -> Profiles \cup {NoDefault}]
    BY <1>1, <1>3 DEF RevokeClient
  <2> QED
    BY <2>1, DeletedKeepsIInv
<1>4. CASE RevokeAll
  <2>1. Deleted(GrantIds) /\ UNCHANGED <<now, serial, answered, reused>>
        /\ defaults' \in [Clients -> Profiles \cup {NoDefault}]
    BY <1>4 DEF RevokeAll
  <2> QED
    BY <2>1, DeletedKeepsIInv
<1> QED
  BY <1>2, <1>3, <1>4

\* The reuse of a retired token ends its family.
LEMMA ReuseKeepsIInv ==
  ASSUME IInv, NEW h \in history, Reuse(h)
  PROVE  IInv'
<1> DEFINE g == h.grant
<1>1. g \in GrantIds /\ UNCHANGED <<now, defaults, serial, answered>>
      /\ h \in PrunedHistory /\ Presented(g, h.serial)
      /\ grants' = [r \in GrantIds |-> IF r = g THEN NoGrant ELSE PrunedGrants[r]]
      /\ tokens' = {t \in PrunedTokens : t.grant # g}
      /\ history' = {i \in PrunedHistory : i.grant # g}
  BY DEF Reuse, Dropped, Cascade, IInv, TypeOK, HistoryRow
<1>2. grants' \in [GrantIds -> GrantRow \cup {NoGrant}]
  BY <1>1, PrunedFacts
<1>3. \A r \in GrantIds :
        \/ grants'[r] = NoGrant
        \/ /\ Alive(r) /\ r # g /\ grants'[r] = grants[r] /\ grants[r] # NoGrant
  BY <1>1, PrunedFacts DEF Alive
<1>4. \A r \in GrantIds :
        \/ grants'[r] = NoGrant
        \/ /\ grants[r] # NoGrant /\ grants'[r].ceiling = grants[r].ceiling
           /\ grants'[r].ceiling = "gateway-only" => grants'[r].surface = "gateway-only"
  BY <1>3 DEF IInv, CeilingHolds
<1>5. /\ \A t \in tokens' : grants'[t.grant] # NoGrant
      /\ \A i \in history' : grants'[i.grant] # NoGrant
      /\ tokens' \subseteq tokens /\ history' \subseteq history
  BY <1>1, PrunedFacts DEF Alive
<1>6. AnswersKnown' /\ answered' \subseteq AnswerRow
  <2>1. ASSUME NEW a \in answered, grants'[a.grant] # NoGrant, ~Expired(a.expires, now)
        PROVE  \E i \in history' : SameToken(a, i) /\ i.expires = a.expires
    <3>1. a.grant \in GrantIds
      BY DEF IInv, TypeOK, AnswerRow
    <3>2. Alive(a.grant) /\ a.grant # g
      BY <1>3, <2>1, <3>1
    <3>3. PICK i \in PrunedHistory : SameToken(a, i) /\ i.expires = a.expires
      BY <2>1, <3>2, PrunedFacts
    <3> QED
      BY <1>1, <3>2, <3>3 DEF SameToken
  <2> QED
    BY <1>1, <1>5, <2>1, SameAnswersKnown
<1>7. /\ reused' \subseteq GrantIds
      /\ \A r \in reused' : serial[r] > 0 /\ grants'[r] = NoGrant
  <2>1. reused' = reused \/ (reused' = reused \cup {g} /\ serial[g] > 0)
    BY <1>1, PresentedFacts
  <2> QED
    BY <1>1, <2>1, ReusedFacts, PrunedFacts
<1>8. defaults' \in [Clients -> Profiles \cup {NoDefault}]
  BY <1>1 DEF IInv, TypeOK
<1> QED
  BY <1>1, <1>2, <1>4, <1>5, <1>6, <1>7, <1>8, FewerRowsKeepIInv

\* A token that is neither live nor in the history: if it is overdue, its family
\* has expired.
LEMMA PresentUnknownKeepsIInv ==
  ASSUME IInv, NEW g \in GrantIds, NEW n \in 1..serial[g], PresentUnknown(g, n)
  PROVE  IInv'
<1>1. /\ ~\E h \in PrunedHistory : h.grant = g /\ h.serial = n
      /\ Pruned /\ Presented(g, n) /\ UNCHANGED <<now, defaults, serial, answered>>
  BY DEF PresentUnknown
<1>2. Overdue(g, n) => ~Alive(g)
  <2> SUFFICES ASSUME NEW a \in answered, a.grant = g, a.serial = n, ~Expired(a.expires, now),
                      Alive(g)
               PROVE  FALSE
    BY DEF Overdue
  <2>1. PICK h \in PrunedHistory : SameToken(a, h)
    BY PrunedFacts
  <2> QED
    BY <1>1, <2>1 DEF SameToken
<1>3. reused' \subseteq GrantIds /\ \A r \in reused' : serial[r] > 0 /\ ~Alive(r)
  BY <1>1, <1>2, PresentedFacts, ReusedFacts
<1> QED
  BY <1>1, <1>3, PrunedKeepsIInv DEF Pruned, Profiles

\* A retry within the grace repeats the answer of the rotation.
LEMMA RetryKeepsIInv ==
  ASSUME IInv, NEW h \in history, Retry(h)
  PROVE  IInv'
<1> DEFINE g == h.grant
           new == Answer(g, h.serial, h.successor, h.expires)
<1>1. /\ g \in GrantIds /\ h \in HistoryRow /\ h \in PrunedHistory /\ ~TooLate(h)
      /\ Pruned /\ UNCHANGED <<now, defaults, serial>> /\ Presented(g, h.serial)
      /\ answered' = answered \/ answered' = answered \cup {new}
  BY DEF Retry, IInv, TypeOK, HistoryRow
<1>2. /\ tokens' \subseteq tokens /\ history' = PrunedHistory /\ history' \subseteq history
      /\ grants' = PrunedGrants
  BY <1>1, PrunedFacts DEF Pruned
<1>3. now \in Nat /\ answered \subseteq AnswerRow /\ serial[g] \in Nat
      /\ \A i \in history : i \in HistoryRow
  BY <1>1 DEF IInv, TypeOK
<1>4. h.serial < h.successor /\ h.successor <= serial[g] /\ h.at <= now
      /\ \A i \in history : SameToken(h, i) => i = h
  BY DEF IInv, OneLiveRefresh, AnswersKnown, SameToken
<1>5. new \in AnswerRow /\ new.grant = g /\ new.serial = h.serial /\ new.successor = h.successor
      /\ new.at = now /\ new.expires = h.expires
  BY <1>1, <1>3 DEF Answer, AnswerRow, HistoryRow
<1> HIDE DEF new
<1>6. ~Overdue(g, h.serial)
  <2> SUFFICES ASSUME NEW a \in answered, a.grant = g, a.serial = h.serial, now - a.at >= Grace
               PROVE  FALSE
    BY DEF Overdue
  <2>1. h.at <= a.at /\ a.at \in Nat /\ h.at \in Nat
    BY <1>1, <1>3 DEF IInv, AnswersKnown, SameToken, AnswerRow, HistoryRow
  <2>2. now - h.at < Grace
    BY <1>1, <1>3, <2>1, TtlAssumption DEF TooLate
  <2> QED
    BY <1>3, <2>1, <2>2, TtlAssumption
<1>7. AnswersKnown'
  <2>1. \A a \in answered' : a.serial < a.successor /\ a.successor <= serial'[a.grant]
    BY <1>1, <1>4, <1>5 DEF IInv, AnswersKnown
  <2>2. \A i \in history' : i.at <= now'
    BY <1>1, <1>2 DEF IInv, AnswersKnown
  <2>3. ASSUME NEW a \in answered', NEW i \in history', SameToken(a, i)
        PROVE  a.successor = i.successor /\ i.at <= a.at
    <3>1. CASE a \in answered
      BY <1>2, <2>3, <3>1 DEF IInv, AnswersKnown
    <3>2. CASE a = new
      <4>1. i = h
        BY <1>2, <1>4, <1>5, <2>3, <3>2 DEF SameToken
      <4> QED
        BY <1>4, <1>5, <3>2, <4>1
    <3> QED
      BY <1>1, <3>1, <3>2
  <2>4. ASSUME NEW a \in answered', grants'[a.grant] # NoGrant, ~Expired(a.expires, now')
        PROVE  \E i \in history' : SameToken(a, i) /\ i.expires = a.expires
    <3>1. CASE a \in answered
      <4>1. a.grant \in GrantIds
        BY <1>3, <3>1 DEF AnswerRow
      <4>2. Alive(a.grant)
        BY <1>2, <2>4, <4>1, PrunedFacts
      <4> QED
        BY <1>1, <1>2, <2>4, <3>1, <4>2, PrunedFacts
    <3>2. CASE a = new
      BY <1>1, <1>2, <1>5, <3>2 DEF SameToken
    <3> QED
      BY <1>1, <3>1, <3>2
  <2> QED
    BY <2>1, <2>2, <2>3, <2>4 DEF AnswersKnown
<1>8. answered' \subseteq AnswerRow
  BY <1>1, <1>3, <1>5
<1>9. reused' = reused
  BY <1>1, <1>6, PresentedFacts
<1>10. defaults' \in [Clients -> Profiles \cup {NoDefault}]
       /\ grants' \in [GrantIds -> GrantRow \cup {NoGrant}]
  BY <1>1, <1>2, PrunedFacts DEF IInv, TypeOK
<1>11. \A r \in GrantIds :
         \/ grants'[r] = NoGrant
         \/ /\ grants[r] # NoGrant /\ grants'[r].ceiling = grants[r].ceiling
            /\ grants'[r].ceiling = "gateway-only" => grants'[r].surface = "gateway-only"
  BY <1>2, PrunedFacts DEF IInv, CeilingHolds, Alive
<1>12. /\ \A t \in tokens' : grants'[t.grant] # NoGrant
       /\ \A i \in history' : grants'[i.grant] # NoGrant
  BY <1>1, <1>2, PrunedFacts DEF Pruned, Alive
<1>13. \A r \in reused' : serial[r] > 0 /\ grants'[r] = NoGrant
  BY <1>2, <1>9, ReusedFacts, PrunedFacts
<1>14. reused' \subseteq GrantIds
  BY <1>9, ReusedFacts
<1> QED
  BY <1>1, <1>2, <1>7, <1>8, <1>10, <1>11, <1>12, <1>13, <1>14, FewerRowsKeepIInv

\* The tokens of a rotation.
LEMMA NewTokens ==
  ASSUME IInv, NEW g \in GrantIds, NEW n \in Nat \ {0}, NEW ceiling \in Profiles
  PROVE  /\ Access(g, n) \in TokenRow /\ Access(g, n).kind = "access"
         /\ Access(g, n).grant = g /\ Access(g, n).serial = n /\ Access(g, n).expires # Never
         /\ Refresh(g, n, ceiling) \in TokenRow /\ Refresh(g, n, ceiling).kind = "refresh"
         /\ Refresh(g, n, ceiling).grant = g /\ Refresh(g, n, ceiling).serial = n
         /\ Refresh(g, n, ceiling).expires = Never => ceiling = "gateway-only"
<1>1. now \in Nat \ {0}
  BY DEF IInv, TypeOK
<1> QED
  BY <1>1, TtlAssumption DEF Access, Refresh, TokenRow, Never

\* A family that is not drawn yet has no refresh token, no history and no answer.
LEMMA UndrawnFacts ==
  ASSUME IInv, NEW g \in GrantIds, serial[g] = 0
  PROVE  /\ \A t \in tokens : t.grant = g => t.kind # "refresh" /\ t.expires # Never
         /\ \A h \in history : h.grant # g
         /\ \A a \in answered : a.grant # g
         /\ g \notin reused
<1>1. \A t \in tokens : t.grant = g => t.kind # "refresh" /\ t.expires # Never
  BY DEF IInv, TypeOK, TokenRow, OneLiveRefresh, CeilingHolds
<1>2. \A h \in history : h.grant # g
  BY DEF IInv, TypeOK, HistoryRow, OneLiveRefresh
<1>3. \A a \in answered : a.grant # g
  BY DEF IInv, TypeOK, AnswerRow, AnswersKnown
<1> QED
  BY <1>1, <1>2, <1>3, ReusedFacts

\* A new grant: its profile is within the ceiling, and its tokens are its first.
LEMMA IssueKeepsIInv ==
  ASSUME IInv, NEW g \in GrantIds, NEW c \in Clients, NEW profile \in Profiles,
         Issue(g, c, profile)
  PROVE  IInv'
<1> DEFINE row == [client |-> c, surface |-> SurfaceOf(c, profile), ceiling |-> profile]
           access == Access(g, 1)
           refresh == Refresh(g, 1, profile)
<1>1. /\ serial[g] = 0 /\ grants' = [PrunedGrants EXCEPT ![g] = row]
      /\ tokens' = PrunedTokens \cup {access, refresh} /\ history' = PrunedHistory
      /\ serial' = [serial EXCEPT ![g] = 1] /\ UNCHANGED <<now, defaults, answered, reused>>
  BY DEF Issue
<1>2. /\ row \in GrantRow /\ row # NoGrant /\ row.ceiling = profile
      /\ row.ceiling = "gateway-only" => row.surface = "gateway-only"
  BY NoGrantIsNoRow DEF GrantRow, SurfaceOf, Profiles
<1>3. /\ access \in TokenRow /\ access.kind = "access" /\ access.grant = g
      /\ access.expires # Never
      /\ refresh \in TokenRow /\ refresh.kind = "refresh" /\ refresh.grant = g
      /\ refresh.serial = 1
      /\ refresh.expires = Never => profile = "gateway-only"
  BY NewTokens
<1> HIDE DEF row, access, refresh
<1>4. /\ serial \in [GrantIds -> Nat] /\ tokens \subseteq TokenRow /\ history \subseteq HistoryRow
      /\ answered \subseteq AnswerRow
      /\ \A t \in tokens : t.grant \in GrantIds
      /\ \A h \in history : h.grant \in GrantIds
      /\ \A a \in answered : a.grant \in GrantIds
  BY DEF IInv, TypeOK, TokenRow, HistoryRow, AnswerRow
<1>5. \A r \in GrantIds :
        /\ grants'[r] = IF r = g THEN row ELSE IF Alive(r) THEN grants[r] ELSE NoGrant
        /\ serial'[r] = IF r = g THEN 1 ELSE serial[r]
  BY <1>1, <1>4, PrunedFacts
<1>6. grants' \in [GrantIds -> GrantRow \cup {NoGrant}]
  BY <1>1, <1>2, PrunedFacts
<1>7. TypeOK'
  <2>1. \A t \in tokens' : grants'[t.grant] # NoGrant
    BY <1>1, <1>2, <1>3, <1>5, PrunedFacts DEF Alive
  <2>2. \A h \in history' : grants'[h.grant] # NoGrant
    BY <1>1, <1>2, <1>5, PrunedFacts DEF Alive
  <2>3. tokens' \subseteq TokenRow /\ history' \subseteq HistoryRow
    BY <1>1, <1>3, <1>4, PrunedFacts
  <2>4. serial' \in [GrantIds -> Nat]
    BY <1>1, <1>4
  <2> QED
    BY <1>1, <1>6, <2>1, <2>2, <2>3, <2>4 DEF IInv, TypeOK
<1>8. OneLiveRefresh'
  <2>1. ASSUME NEW t \in tokens', t.kind = "refresh"
        PROVE  t.serial = serial'[t.grant]
    <3>1. CASE t \in tokens
      BY <1>1, <1>4, <1>5, <2>1, <3>1, UndrawnFacts DEF IInv, OneLiveRefresh
    <3>2. CASE t = refresh
      BY <1>3, <1>5, <3>2
    <3> QED
      BY <1>1, <1>3, <2>1, <3>1, <3>2, PrunedFacts
  <2>2. \A h \in history' : h.serial < h.successor /\ h.successor <= serial'[h.grant]
    BY <1>1, <1>4, <1>5, UndrawnFacts, PrunedFacts DEF IInv, OneLiveRefresh
  <2>3. \A h, k \in history' : h.grant = k.grant /\ h.serial = k.serial => h = k
    BY <1>1, PrunedFacts DEF IInv, OneLiveRefresh
  <2> QED
    BY <2>1, <2>2, <2>3 DEF OneLiveRefresh
<1>9. RefreshIsUnique'
  BY <1>1, <1>3, UndrawnFacts, PrunedFacts DEF IInv, RefreshIsUnique
<1>10. CeilingHolds'
  <2>1. \A r \in GrantIds :
          grants'[r].ceiling = "gateway-only" => grants'[r].surface = "gateway-only"
    BY <1>2, <1>5 DEF IInv, CeilingHolds, NoGrant
  <2>2. ASSUME NEW t \in tokens', t.expires = Never
        PROVE  t.kind = "refresh" /\ grants'[t.grant].ceiling = "gateway-only"
    <3>1. CASE t \in PrunedTokens
      <4>1. t \in tokens /\ t.grant \in GrantIds /\ Alive(t.grant) /\ t.grant # g
        BY <1>1, <2>2, <3>1, UndrawnFacts, PrunedFacts
      <4> QED
        BY <1>5, <2>2, <4>1 DEF IInv, CeilingHolds
    <3>2. CASE t = refresh
      BY <1>2, <1>3, <1>5, <2>2, <3>2
    <3> QED
      BY <1>1, <1>3, <2>2, <3>1, <3>2
  <2> QED
    BY <2>1, <2>2 DEF CeilingHolds
<1>11. AnswersKnown'
  <2>1. \A a \in answered : a.grant # g
    BY <1>1, UndrawnFacts
  <2>2. \A a \in answered' : a.serial < a.successor /\ a.successor <= serial'[a.grant]
    BY <1>1, <1>4, <1>5, <2>1 DEF IInv, AnswersKnown
  <2>3. \A h \in history' : h.at <= now'
    BY <1>1, PrunedFacts DEF IInv, AnswersKnown
  <2>4. \A a \in answered', h \in history' :
          SameToken(a, h) => a.successor = h.successor /\ h.at <= a.at
    BY <1>1, PrunedFacts DEF IInv, AnswersKnown
  <2>5. \A a \in answered' :
          grants'[a.grant] # NoGrant /\ ~Expired(a.expires, now') =>
            \E h \in history' : SameToken(a, h) /\ h.expires = a.expires
    BY <1>1, <1>4, <1>5, <2>1, PrunedFacts
  <2> QED
    BY <2>2, <2>3, <2>4, <2>5 DEF AnswersKnown
<1>12. ReusedIsDrawn' /\ ReusedFamilyIsGone'
  <2>1. \A r \in reused : r \in GrantIds /\ r # g /\ serial'[r] > 0 /\ grants'[r] = NoGrant
    BY <1>1, <1>5, UndrawnFacts, ReusedFacts
  <2>2. \A t \in tokens' : grants'[t.grant] # NoGrant
    BY <1>7 DEF TypeOK
  <2> QED
    BY <1>1, <2>1, <2>2 DEF ReusedIsDrawn, ReusedFamilyIsGone
<1> QED
  BY <1>7, <1>8, <1>9, <1>10, <1>11, <1>12 DEF IInv

\* A rotation replaces the one live refresh token of the family, which no answer
\* was given to before, by the next.
LEMMA RotateKeepsIInv ==
  ASSUME IInv, NEW t \in tokens, Rotate(t)
  PROVE  IInv'
<1> DEFINE g == t.grant
           next == serial[g] + 1
           access == Access(g, next)
           refresh == Refresh(g, next, grants[g].ceiling)
           retired == [grant |-> g, serial |-> t.serial, expires |-> t.expires, at |-> now,
                       successor |-> next]
           answer == Answer(g, t.serial, next, t.expires)
<1>1. /\ t \in PrunedTokens /\ t.kind = "refresh" /\ grants' = PrunedGrants
      /\ tokens' = (PrunedTokens \ {t}) \cup {access, refresh}
      /\ history' = PrunedHistory \cup {retired}
      /\ serial' = [serial EXCEPT ![g] = next] /\ answered' = answered \cup {answer}
      /\ Presented(g, t.serial) /\ UNCHANGED <<now, defaults>>
  BY DEF Rotate, Retiring
<1>2. /\ serial \in [GrantIds -> Nat] /\ tokens \subseteq TokenRow /\ history \subseteq HistoryRow
      /\ answered \subseteq AnswerRow /\ now \in Nat
      /\ \A u \in tokens : u.grant \in GrantIds
      /\ \A h \in history : h.grant \in GrantIds
      /\ \A a \in answered : a.grant \in GrantIds
  BY DEF IInv, TypeOK, TokenRow, HistoryRow, AnswerRow
<1>3. /\ g \in GrantIds /\ Alive(g) /\ grants[g] \in GrantRow /\ t.serial = serial[g]
      /\ t.serial \in Nat \ {0} /\ t.expires \in Nat /\ next \in Nat \ {0} /\ t.serial < next
  BY <1>1, <1>2, PrunedFacts DEF IInv, OneLiveRefresh, TokenRow
<1>4. grants[g].ceiling \in Profiles
  BY <1>3 DEF GrantRow
<1>5. /\ access \in TokenRow /\ access.kind = "access" /\ access.grant = g
      /\ access.expires # Never
      /\ refresh \in TokenRow /\ refresh.kind = "refresh" /\ refresh.grant = g
      /\ refresh.serial = next
      /\ refresh.expires = Never => grants[g].ceiling = "gateway-only"
  BY <1>3, <1>4, NewTokens
<1>6. /\ retired \in HistoryRow /\ retired.grant = g /\ retired.serial = t.serial
      /\ retired.successor = next /\ retired.at = now /\ retired.expires = t.expires
  BY <1>2, <1>3 DEF HistoryRow
<1>7. /\ answer \in AnswerRow /\ answer.grant = g /\ answer.serial = t.serial
      /\ answer.successor = next /\ answer.at = now /\ answer.expires = t.expires
  BY <1>2, <1>3 DEF Answer, AnswerRow
<1> HIDE DEF access, refresh, retired, answer
<1>8. \A r \in GrantIds :
        /\ grants'[r] = IF Alive(r) THEN grants[r] ELSE NoGrant
        /\ serial'[r] = IF r = g THEN next ELSE serial[r]
  BY <1>1, <1>2, PrunedFacts
<1>9. \A h \in history : ~(h.grant = g /\ h.serial = t.serial)
  BY <1>2, <1>3 DEF IInv, OneLiveRefresh, HistoryRow
<1>10. \A a \in answered : ~(a.grant = g /\ a.serial = t.serial)
  BY <1>2, <1>3 DEF IInv, AnswersKnown, AnswerRow
<1>11. \A u \in PrunedTokens \ {t} : u.kind = "refresh" => u.grant # g
  BY <1>1, PrunedFacts DEF IInv, RefreshIsUnique
<1>12. TypeOK'
  <2>1. \A u \in tokens' : grants'[u.grant] # NoGrant
    BY <1>1, <1>3, <1>5, <1>8, PrunedFacts, NoGrantIsNoRow
  <2>2. \A h \in history' : grants'[h.grant] # NoGrant
    BY <1>1, <1>3, <1>6, <1>8, PrunedFacts, NoGrantIsNoRow
  <2>3. tokens' \subseteq TokenRow /\ history' \subseteq HistoryRow
        /\ answered' \subseteq AnswerRow
    BY <1>1, <1>2, <1>5, <1>6, <1>7, PrunedFacts
  <2>4. serial' \in [GrantIds -> Nat] /\ reused' \subseteq GrantIds
    BY <1>1, <1>2, <1>3, PresentedFacts, ReusedFacts
  <2>5. grants' \in [GrantIds -> GrantRow \cup {NoGrant}]
    BY <1>1, PrunedFacts
  <2> QED
    BY <1>1, <2>1, <2>2, <2>3, <2>4, <2>5 DEF IInv, TypeOK
<1>13. OneLiveRefresh'
  <2>1. ASSUME NEW u \in tokens', u.kind = "refresh"
        PROVE  u.serial = serial'[u.grant]
    <3>1. CASE u \in PrunedTokens \ {t}
      BY <1>2, <1>8, <1>11, <2>1, <3>1, PrunedFacts DEF IInv, OneLiveRefresh
    <3>2. CASE u = refresh
      BY <1>3, <1>5, <1>8, <3>2
    <3> QED
      BY <1>1, <1>5, <2>1, <3>1, <3>2
  <2>2. ASSUME NEW h \in history'
        PROVE  h.serial < h.successor /\ h.successor <= serial'[h.grant]
    <3>1. CASE h \in history
      <4>1. h.successor \in Nat /\ h.serial < h.successor /\ h.successor <= serial[h.grant]
            /\ h.grant \in GrantIds /\ serial[h.grant] \in Nat
        BY <1>2, <3>1 DEF IInv, OneLiveRefresh, HistoryRow
      <4> QED
        BY <1>8, <4>1
    <3>2. CASE h = retired
      BY <1>3, <1>6, <1>8, <3>2
    <3> QED
      BY <1>1, <3>1, <3>2, PrunedFacts
  <2>3. \A h, k \in history' : h.grant = k.grant /\ h.serial = k.serial => h = k
    BY <1>1, <1>6, <1>9, PrunedFacts DEF IInv, OneLiveRefresh
  <2> QED
    BY <2>1, <2>2, <2>3 DEF OneLiveRefresh
<1>14. RefreshIsUnique'
  BY <1>1, <1>5, <1>11, PrunedFacts DEF IInv, RefreshIsUnique
<1>15. CeilingHolds'
  <2>1. \A r \in GrantIds :
          grants'[r].ceiling = "gateway-only" => grants'[r].surface = "gateway-only"
    BY <1>8 DEF IInv, CeilingHolds, NoGrant
  <2>2. \A u \in tokens' : u.expires = Never =>
          u.kind = "refresh" /\ grants'[u.grant].ceiling = "gateway-only"
    BY <1>1, <1>3, <1>5, <1>8, PrunedFacts DEF IInv, CeilingHolds
  <2> QED
    BY <2>1, <2>2 DEF CeilingHolds
<1>16. AnswersKnown'
  <2>1. ASSUME NEW a \in answered'
        PROVE  a.serial < a.successor /\ a.successor <= serial'[a.grant]
    <3>1. CASE a \in answered
      <4>1. a.successor \in Nat /\ a.serial < a.successor /\ a.successor <= serial[a.grant]
            /\ a.grant \in GrantIds /\ serial[a.grant] \in Nat
        BY <1>2, <3>1 DEF IInv, AnswersKnown, AnswerRow
      <4> QED
        BY <1>8, <4>1
    <3>2. CASE a = answer
      BY <1>3, <1>7, <1>8, <3>2
    <3> QED
      BY <1>1, <3>1, <3>2
  <2>2. \A h \in history' : h.at <= now'
    BY <1>1, <1>2, <1>6, PrunedFacts DEF IInv, AnswersKnown
  <2>3. ASSUME NEW a \in answered', NEW h \in history', SameToken(a, h)
        PROVE  a.successor = h.successor /\ h.at <= a.at
    <3>1. CASE a \in answered /\ h \in history
      BY <2>3, <3>1 DEF IInv, AnswersKnown
    <3>2. CASE a = answer \/ h = retired
      <4>1. a = answer /\ h = retired
        BY <1>1, <1>6, <1>7, <1>9, <1>10, <2>3, <3>2, PrunedFacts DEF SameToken
      <4> QED
        BY <1>2, <1>6, <1>7, <4>1
    <3> QED
      BY <1>1, <3>1, <3>2, PrunedFacts
  <2>4. ASSUME NEW a \in answered', grants'[a.grant] # NoGrant, ~Expired(a.expires, now')
        PROVE  \E h \in history' : SameToken(a, h) /\ h.expires = a.expires
    <3>1. CASE a \in answered
      BY <1>1, <1>2, <1>8, <2>4, <3>1, PrunedFacts
    <3>2. CASE a = answer
      BY <1>1, <1>6, <1>7, <3>2 DEF SameToken
    <3> QED
      BY <1>1, <3>1, <3>2
  <2> QED
    BY <2>1, <2>2, <2>3, <2>4 DEF AnswersKnown
<1>17. ReusedIsDrawn' /\ ReusedFamilyIsGone'
  <2>1. ~Overdue(g, t.serial)
    BY <1>10 DEF Overdue
  <2>2. reused' = reused
    BY <1>1, <1>3, <2>1, PresentedFacts
  <2>3. \A r \in reused : r \in GrantIds /\ r # g /\ serial'[r] > 0 /\ grants'[r] = NoGrant
    BY <1>3, <1>8, ReusedFacts
  <2>4. \A u \in tokens' : grants'[u.grant] # NoGrant
    BY <1>12 DEF TypeOK
  <2> QED
    BY <2>2, <2>3, <2>4 DEF ReusedIsDrawn, ReusedFamilyIsGone
<1> QED
  BY <1>12, <1>13, <1>14, <1>15, <1>16, <1>17 DEF IInv

LEMMA StepIInv ==
  ASSUME IInv, [Next]_grantVars
  PROVE  IInv'
<1>1. now \in Nat /\ defaults \in [Clients -> Profiles \cup {NoDefault}]
  BY DEF IInv, TypeOK
<1>tick. CASE Tick
  <2>1. now' = now + 1 /\ UNCHANGED <<grants, tokens, history, defaults, serial, answered, reused>>
    BY <1>tick DEF Tick
  <2>2. TypeOK' /\ OneLiveRefresh' /\ RefreshIsUnique' /\ CeilingHolds'
        /\ ReusedIsDrawn' /\ ReusedFamilyIsGone'
    BY <1>1, <2>1 DEF IInv, TypeOK, OneLiveRefresh, RefreshIsUnique, CeilingHolds,
                      ReusedIsDrawn, ReusedFamilyIsGone
  <2>3. \A h \in history : h.at \in Nat
    BY DEF IInv, TypeOK, HistoryRow
  <2>4. \A a \in answered : a.expires \in Nat
    BY DEF IInv, TypeOK, AnswerRow
  <2>5. AnswersKnown'
    BY <1>1, <2>1, <2>3, <2>4 DEF IInv, AnswersKnown, Expired
  <2> QED
    BY <2>2, <2>5 DEF IInv
<1>default. ASSUME NEW c \in Clients, NEW profile \in Profiles, SetClientDefault(c, profile)
            PROVE  IInv'
  <2>1. defaults' \in [Clients -> Profiles \cup {NoDefault}]
        /\ UNCHANGED <<now, grants, tokens, history, serial, answered, reused>>
    BY <1>1, <1>default DEF SetClientDefault
  <2> QED
    BY <2>1 DEF IInv, TypeOK, OneLiveRefresh, RefreshIsUnique, CeilingHolds,
                AnswersKnown, ReusedIsDrawn, ReusedFamilyIsGone
<1>stutter. CASE UNCHANGED grantVars
  BY <1>stutter DEF grantVars, IInv, TypeOK, OneLiveRefresh, RefreshIsUnique, CeilingHolds,
                    AnswersKnown, ReusedIsDrawn, ReusedFamilyIsGone
<1>look. CASE Look
  <2>1. CASE GrantIds = {}
    <3>1. tokens = {} /\ history = {}
      BY <2>1 DEF IInv, TypeOK, TokenRow, HistoryRow
    <3>2. UNCHANGED grantVars
      BY <1>1, <1>look, <2>1, <3>1, PrunedFacts DEF Look, Pruned, grantVars, IInv, TypeOK
    <3> QED
      BY <3>2, <1>stutter
  <2>2. ASSUME NEW g \in GrantIds
        PROVE  IInv'
    BY <1>look, <2>2, ReusedFacts, PrunedKeepsIInv DEF Look, Pruned, Profiles
  <2> QED
    BY <2>1, <2>2
<1> QED
  BY <1>tick, <1>default, <1>look, <1>stutter, SettingKeepsIInv, RevocationKeepsIInv, ReuseKeepsIInv,
     RetryKeepsIInv, PresentUnknownKeepsIInv, IssueKeepsIInv, RotateKeepsIInv DEF Next

\* IInv holds in every reachable state.
THEOREM InductiveInvariant == Spec => []IInv
<1>1. Init => IInv
  BY InitIInv
<1>2. IInv /\ [Next]_grantVars => IInv'
  BY StepIInv
<1> QED
  BY <1>1, <1>2, PTL DEF Spec

\* The tables keep their types and their foreign keys.
THEOREM TypeCorrect == Spec => []TypeOK
<1>1. IInv => TypeOK
  BY DEF IInv
<1> QED
  BY <1>1, InductiveInvariant, PTL

\* A family of tokens never forks.
THEOREM FamiliesNeverFork == Spec => []OneLiveRefresh
<1>1. IInv => OneLiveRefresh
  BY DEF IInv
<1> QED
  BY <1>1, InductiveInvariant, PTL

\* No order of consent, restriction, default and promotion lifts a ceiling.
THEOREM CeilingsAreKept == Spec => []CeilingHolds
<1>1. IInv => CeilingHolds
  BY DEF IInv
<1> QED
  BY <1>1, InductiveInvariant, PTL

\* A token that comes back after its grace leaves nothing of its family.
THEOREM ReuseEndsTheFamily == Spec => []ReusedFamilyIsGone
<1>1. IInv => ReusedFamilyIsGone
  BY DEF IInv
<1> QED
  BY <1>1, InductiveInvariant, PTL

-----------------------------------------------------------------------------

\* What AnswersRepeat says of one step.
RepeatsAnswer ==
  \A a \in answered' \ answered :
    /\ \A b \in answered' : (b.grant = a.grant /\ b.serial = a.serial) => b.successor = a.successor
    /\ \A kind \in {"access", "refresh"} :
         \E t \in tokens' : t.kind = kind /\ t.grant = a.grant /\ t.serial = a.successor

LEMMA RetryRepeats ==
  ASSUME IInv, NEW h \in history, Retry(h)
  PROVE  RepeatsAnswer
<1> DEFINE g == h.grant
           new == Answer(g, h.serial, h.successor, h.expires)
<1>1. new.grant = g /\ new.serial = h.serial /\ new.successor = h.successor
  BY DEF Answer
<1> HIDE DEF new
<1>2. CASE answered' = answered
  BY <1>2 DEF RepeatsAnswer
<1>3. CASE /\ answered' = answered \cup {new}
           /\ IsLive("access", g, h.successor) /\ IsLive("refresh", g, h.successor)
  <2>1. tokens' = PrunedTokens
    BY DEF Retry, Pruned
  <2>2. \A b \in answered : (b.grant = g /\ b.serial = h.serial) => b.successor = h.successor
    BY DEF IInv, AnswersKnown, SameToken
  <2> QED
    BY <1>1, <1>3, <2>1, <2>2 DEF RepeatsAnswer, IsLive
<1> QED
  BY <1>2, <1>3 DEF Retry, new

LEMMA RotateRepeats ==
  ASSUME IInv, NEW t \in tokens, Rotate(t)
  PROVE  RepeatsAnswer
<1> DEFINE g == t.grant
           next == serial[g] + 1
           new == Answer(g, t.serial, next, t.expires)
           access == Access(g, next)
           refresh == Refresh(g, next, grants[g].ceiling)
<1>1. new.grant = g /\ new.serial = t.serial /\ new.successor = next
  BY DEF Answer
<1>2. access \in tokens' /\ refresh \in tokens' /\ answered' = answered \cup {new}
  BY DEF Rotate
<1>3. access.kind = "access" /\ access.grant = g /\ access.serial = next
      /\ refresh.kind = "refresh" /\ refresh.grant = g /\ refresh.serial = next
  BY DEF Access, Refresh
<1>4. t.serial = serial[g] /\ serial[g] \in Nat
  BY DEF Rotate, IInv, OneLiveRefresh, TypeOK, TokenRow
<1>5. \A b \in answered : ~(b.grant = g /\ b.serial = t.serial)
  BY <1>4 DEF IInv, TypeOK, AnswersKnown, AnswerRow
<1> HIDE DEF new, access, refresh, next
<1> QED
  BY <1>1, <1>2, <1>3, <1>5 DEF RepeatsAnswer

\* Every answer to one refresh token names the same successors, and they are
\* live when it is given.
THEOREM AnswersAreRepeated == Spec => AnswersRepeat
<1>1. IInv /\ [Next]_grantVars => [RepeatsAnswer]_grantVars
  <2> SUFFICES ASSUME IInv, Next PROVE RepeatsAnswer
    OBVIOUS
  <2>1. CASE answered' = answered
    BY <2>1 DEF RepeatsAnswer
  <2>2. ASSUME NEW h \in history, Retry(h)
        PROVE  RepeatsAnswer
    BY <2>2, RetryRepeats
  <2>3. ASSUME NEW t \in tokens, Rotate(t)
        PROVE  RepeatsAnswer
    BY <2>3, RotateRepeats
  <2> QED
    BY <2>1, <2>2, <2>3
       DEF Next, Issue, PresentUnknown, RestrictByAccessToken, SetGrantProfile, RevokeGrant,
           Reuse, RevokeClient, SetClientDefault, RevokeAll, Look, Tick
<1> QED
  BY <1>1, InductiveInvariant, PTL DEF Spec, AnswersRepeat, RepeatsAnswer

-----------------------------------------------------------------------------
(* The service: sequences of client identifiers.                           *)

LEMMA RemoveAtProperties ==
  ASSUME NEW S, NEW q \in Seq(S), NEW i \in 1..Len(q)
  PROVE  /\ RemoveAt(q, i) \in Seq(S) /\ Len(RemoveAt(q, i)) = Len(q) - 1
         /\ \A j \in 1..(Len(q) - 1) :
              RemoveAt(q, i)[j] = IF j < i THEN q[j] ELSE q[j + 1]
<1> DEFINE a == SubSeq(q, 1, i - 1)
           b == SubSeq(q, i + 1, Len(q))
<1>1. Len(q) \in Nat /\ i \in Nat /\ 1 <= i /\ i <= Len(q) /\ \A j \in 1..Len(q) : q[j] \in S
  BY LenProperties, ElementOfSeq
<1>2. /\ a \in Seq(S) /\ Len(a) = i - 1
      /\ \A j \in 1..(i - 1) : a[j] = q[j]
  <2>1. \A j \in 1..(i - 1) : q[j] \in S
    BY <1>1
  <2>2. /\ a \in Seq(S) /\ Len(a) = (IF 1 <= i - 1 THEN (i - 1) - 1 + 1 ELSE 0)
        /\ \A j \in 1..((i - 1) - 1 + 1) : a[j] = q[1 + j - 1]
    BY <1>1, <2>1, SubSeqProperties
  <2> QED
    BY <1>1, <2>2
<1>3. /\ b \in Seq(S) /\ Len(b) = Len(q) - i
      /\ \A j \in 1..(Len(q) - i) : b[j] = q[i + j]
  <2>1. \A j \in (i + 1)..Len(q) : q[j] \in S
    BY <1>1
  <2>2. /\ b \in Seq(S) /\ Len(b) = (IF i + 1 <= Len(q) THEN Len(q) - (i + 1) + 1 ELSE 0)
        /\ \A j \in 1..(Len(q) - (i + 1) + 1) : b[j] = q[(i + 1) + j - 1]
    BY <1>1, <2>1, SubSeqProperties
  <2> QED
    BY <1>1, <2>2
<1> HIDE DEF a, b
<1>4. /\ a \o b \in Seq(S) /\ Len(a \o b) = Len(a) + Len(b)
      /\ \A j \in 1..(Len(a) + Len(b)) :
           (a \o b)[j] = IF j <= Len(a) THEN a[j] ELSE b[j - Len(a)]
  BY <1>2, <1>3, ConcatProperties
<1>5. ASSUME NEW j \in 1..(Len(q) - 1)
      PROVE  (a \o b)[j] = IF j < i THEN q[j] ELSE q[j + 1]
  <2>1. CASE j < i
    BY <1>1, <1>2, <1>3, <1>4, <2>1
  <2>2. CASE ~ (j < i)
    <3>1. (a \o b)[j] = b[j - (i - 1)] /\ j - (i - 1) \in 1..(Len(q) - i)
      BY <1>1, <1>2, <1>3, <1>4, <2>2
    <3>2. i + (j - (i - 1)) = j + 1
      BY <1>1
    <3> QED
      BY <1>3, <2>2, <3>1, <3>2
  <2> QED
    BY <2>1, <2>2
<1>6. RemoveAt(q, i) = a \o b
  BY DEF RemoveAt, a, b
<1>7. Len(a) + Len(b) = Len(q) - 1
  BY <1>1, <1>2, <1>3
<1> QED
  BY <1>4, <1>5, <1>6, <1>7

LEMMA SmallestIsIn ==
  ASSUME NEW T \in SUBSET Nat, T # {}
  PROVE  Min(T) \in T
<1> DEFINE less == {ss \in Nat \X Nat : ss[1] < ss[2]}
<1>1. IsWellFoundedOn(less, Nat)
  BY NatLessThanWellFounded, Zenon DEF OpToRel
<1>2. \E i \in T : \A j \in T : <<j, i>> \notin less
  <2> HIDE DEF less
  <2> QED
    BY <1>1, WFMin, T \subseteq Nat, Zenon
<1>3. PICK i \in T : \A j \in T : <<j, i>> \notin less
  BY <1>2
<1>4. \A j \in T : i <= j
  <2> SUFFICES ASSUME NEW j \in T, ~(i <= j) PROVE FALSE
    OBVIOUS
  <2>1. i \in Nat /\ j \in Nat /\ j < i
    OBVIOUS
  <2> QED
    BY <1>3, <2>1
<1>5. \E x \in T : \A y \in T : x =< y
  BY <1>4
<1> HIDE DEF less
<1> QED
  BY <1>5, Zenon DEF Min

\* What is left of a sequence without repetitions when one place is removed.
LEMMA RemovedFacts ==
  ASSUME NEW S, NEW s \in Seq(S), IsInjective(s), NEW i \in 1..Len(s)
  PROVE  /\ RemoveAt(s, i) \in Seq(S) /\ Len(RemoveAt(s, i)) = Len(s) - 1
         /\ IsInjective(RemoveAt(s, i))
         /\ ToSet(RemoveAt(s, i)) = ToSet(s) \ {s[i]}
<1> DEFINE r == RemoveAt(s, i)
           n == Len(s)
<1>1. /\ n \in Nat /\ DOMAIN s = 1..n /\ i \in Nat /\ 1 <= i /\ i <= n
      /\ \A a, b \in 1..n : s[a] = s[b] => a = b
  BY LenProperties DEF IsInjective
<1>2. /\ r \in Seq(S) /\ Len(r) = n - 1 /\ DOMAIN r = 1..(n - 1)
      /\ \A j \in 1..(n - 1) : r[j] = IF j < i THEN s[j] ELSE s[j + 1]
  BY RemoveAtProperties, LenProperties
<1> HIDE DEF r, n
<1>3. IsInjective(r)
  <2> SUFFICES ASSUME NEW a \in 1..(n - 1), NEW b \in 1..(n - 1), r[a] = r[b] PROVE a = b
    BY <1>2 DEF IsInjective
  <2>1. PICK k \in 1..n : r[a] = s[k] /\ k = IF a < i THEN a ELSE a + 1
    BY <1>1, <1>2
  <2>2. PICK l \in 1..n : r[b] = s[l] /\ l = IF b < i THEN b ELSE b + 1
    BY <1>1, <1>2
  <2>3. k = l
    BY <1>1, <2>1, <2>2
  <2> QED
    BY <1>1, <2>1, <2>2, <2>3
<1>4. ToSet(r) \subseteq ToSet(s) \ {s[i]}
  <2> SUFFICES ASSUME NEW a \in 1..(n - 1) PROVE r[a] \in ToSet(s) /\ r[a] # s[i]
    BY <1>2 DEF ToSet
  <2>1. PICK k \in 1..n : r[a] = s[k] /\ k # i
    BY <1>1, <1>2
  <2> QED
    BY <1>1, <2>1 DEF ToSet
<1>5. ToSet(s) \ {s[i]} \subseteq ToSet(r)
  <2> SUFFICES ASSUME NEW e \in ToSet(s) \ {s[i]} PROVE e \in ToSet(r)
    OBVIOUS
  <2>0. PICK k \in 1..n : k # i /\ e = s[k]
    BY <1>1 DEF ToSet
  <2> SUFFICES \E a \in 1..(n - 1) : r[a] = s[k]
    BY <1>2, <2>0 DEF ToSet
  <2>1. CASE k < i
    BY <1>1, <1>2, <2>1
  <2>2. CASE ~ (k < i)
    <3>1. k - 1 \in 1..(n - 1) /\ ~ (k - 1 < i) /\ (k - 1) + 1 = k
      BY <1>1, <2>0, <2>2
    <3> QED
      BY <1>2, <3>1
  <2> QED
    BY <2>1, <2>2
<1> QED
  BY <1>2, <1>3, <1>4, <1>5 DEF r, n

LEMMA WithoutFacts ==
  ASSUME NEW S, NEW s \in Seq(S), IsInjective(s), NEW c
  PROVE  /\ Without(s, c) \in Seq(S) /\ Len(Without(s, c)) <= Len(s)
         /\ c \in ToSet(s) => Len(Without(s, c)) = Len(s) - 1
         /\ IsInjective(Without(s, c))
         /\ ToSet(Without(s, c)) = ToSet(s) \ {c}
<1>1. Len(s) \in Nat /\ DOMAIN s = 1..Len(s)
  BY LenProperties
<1>2. CASE c \notin ToSet(s)
  <2>1. Without(s, c) = s
    BY <1>1, <1>2, Zenon DEF Without, RemoveFirst, ToSet
  <2>2. ToSet(s) = ToSet(s) \ {c} /\ Len(s) <= Len(s)
    BY <1>1, <1>2
  <2> QED
    BY <1>2, <2>1, <2>2, Zenon
<1>3. CASE c \in ToSet(s)
  <2> DEFINE T == {j \in 1..Len(s) : s[j] = c}
             i == Min(T)
  <2>1. T # {} /\ T \in SUBSET Nat
    BY <1>1, <1>3 DEF ToSet
  <2>2. i \in T
    BY <2>1, SmallestIsIn
  <2>3. Without(s, c) = RemoveAt(s, i)
    BY <1>1, <1>3, <2>1 DEF Without, RemoveFirst, SelectInSeq, ToSet
  <2> HIDE DEF i
  <2>4. i \in 1..Len(s) /\ s[i] = c
    BY <2>2
  <2>5. /\ RemoveAt(s, i) \in Seq(S) /\ Len(RemoveAt(s, i)) = Len(s) - 1
        /\ IsInjective(RemoveAt(s, i))
        /\ ToSet(RemoveAt(s, i)) = ToSet(s) \ {s[i]}
    BY <2>4, RemovedFacts
  <2> QED
    BY <1>1, <2>3, <2>4, <2>5
<1> QED
  BY <1>2, <1>3

LEMMA AppendedFacts ==
  ASSUME NEW S, NEW s \in Seq(S), IsInjective(s), NEW c \in S, c \notin ToSet(s)
  PROVE  /\ Append(s, c) \in Seq(S) /\ Len(Append(s, c)) = Len(s) + 1
         /\ IsInjective(Append(s, c))
         /\ ToSet(Append(s, c)) = ToSet(s) \cup {c}
<1> DEFINE a == Append(s, c)
<1>1. /\ Len(s) \in Nat /\ DOMAIN s = 1..Len(s)
      /\ a \in Seq(S) /\ Len(a) = Len(s) + 1 /\ DOMAIN a = 1..(Len(s) + 1)
      /\ a[Len(s) + 1] = c /\ \A i \in 1..Len(s) : a[i] = s[i]
  BY LenProperties, AppendProperties
<1> HIDE DEF a
<1>2. \A i \in 1..Len(s) : s[i] # c
  BY <1>1 DEF ToSet
<1>3. \A i \in 1..(Len(s) + 1) : i \in 1..Len(s) \/ i = Len(s) + 1
  BY <1>1
<1>4. IsInjective(a)
  BY <1>1, <1>2, <1>3 DEF IsInjective
<1>5. ToSet(a) = ToSet(s) \cup {c}
  BY <1>1, <1>3 DEF ToSet
<1> QED
  BY <1>1, <1>4, <1>5 DEF a

-----------------------------------------------------------------------------
(* The service: its inductive invariant.                                   *)

\* One of the two registries lists each client once, within its limit.
Listing(s) == s \in Seq(Dynamic) /\ Len(s) <= MaxDynamic /\ IsInjective(s)

RegistryShape ==
  /\ Listing(lru) /\ Listing(disk)
  /\ ToSet(lru) \subseteq drawn /\ ToSet(disk) \subseteq drawn
  /\ drawn \subseteq Dynamic /\ touched \subseteq Dynamic

FlowShape ==
  /\ callback \in BOOLEAN
  /\ flow \in [TxIds -> FlowRow]
  /\ consent \in [TxIds -> Profiles \cup {"none", "revoked"}]
  /\ origin \in [GrantIds -> TxIds \cup {NoTx}]

\* A grant comes from a transaction that is over, and nothing was consented to
\* before a transaction became a code.
FlowsBehindGrants ==
  /\ \A g \in GrantIds : origin[g] # NoTx => flow[origin[g]].stage = "gone"
  /\ \A x \in TxIds : flow[x].stage \in {"none", "pending"} => consent[x] = "none"

ConsentInv == FlowShape /\ FlowsBehindGrants /\ ConsentStands
RegistryInv == RegistryShape /\ RegistryDurable
SInv == IInv /\ RegistryInv /\ ConsentInv

\* No grant is added, and no client or ceiling changed.
GrantsShrink ==
  \A g \in GrantIds :
    \/ grants'[g] = NoGrant
    \/ /\ grants[g] # NoGrant
       /\ grants'[g].client = grants[g].client /\ grants'[g].ceiling = grants[g].ceiling

\* Transactions and codes are closed at most.
FlowsEbb ==
  /\ flow' = [x \in TxIds |-> flow'[x]]
  /\ \A x \in TxIds : flow'[x] = flow[x] \/ (Open(flow[x]) /\ flow'[x] = Closed(flow[x]))

LEMMA ClosedFacts ==
  ASSUME NEW f \in FlowRow
  PROVE  /\ Closed(f) \in FlowRow /\ Closed(f).stage = "gone" /\ Closed(f).client = f.client
         /\ Closed(f).profile = f.profile /\ Closed(f).callback = f.callback
         /\ Closed(f).expires = f.expires
  BY DEF Closed, FlowRow

\* After a prune, grants may be dropped with all their rows.
LEMMA DroppedKeepsIInv ==
  ASSUME IInv, NEW gs \in SUBSET GrantIds, Dropped(gs),
         UNCHANGED <<now, serial, answered, reused>>,
         defaults' \in [Clients -> Profiles \cup {NoDefault}]
  PROVE  IInv' /\ GrantsShrink
<1>1. /\ grants' = [r \in GrantIds |-> IF r \in gs THEN NoGrant ELSE PrunedGrants[r]]
      /\ tokens' = {t \in PrunedTokens : t.grant \notin gs}
      /\ history' = {i \in PrunedHistory : i.grant \notin gs}
  BY DEF Dropped, Cascade
<1>2. grants' \in [GrantIds -> GrantRow \cup {NoGrant}]
  BY <1>1, PrunedFacts
<1>3. \A r \in GrantIds :
        \/ grants'[r] = NoGrant
        \/ Alive(r) /\ r \notin gs /\ grants'[r] = grants[r] /\ grants[r] # NoGrant
  BY <1>1, PrunedFacts DEF Alive
<1>4. \A r \in GrantIds :
        \/ grants'[r] = NoGrant
        \/ /\ grants[r] # NoGrant /\ grants'[r].ceiling = grants[r].ceiling
           /\ grants'[r].ceiling = "gateway-only" => grants'[r].surface = "gateway-only"
  BY <1>3 DEF IInv, CeilingHolds
<1>5. /\ \A t \in tokens' : grants'[t.grant] # NoGrant
      /\ \A i \in history' : grants'[i.grant] # NoGrant
      /\ tokens' \subseteq tokens /\ history' \subseteq history
  BY <1>1, PrunedFacts DEF Alive
<1>6. AnswersKnown' /\ answered' \subseteq AnswerRow
  <2>1. ASSUME NEW a \in answered, grants'[a.grant] # NoGrant, ~Expired(a.expires, now)
        PROVE  \E i \in history' : SameToken(a, i) /\ i.expires = a.expires
    <3>1. a.grant \in GrantIds
      BY DEF IInv, TypeOK, AnswerRow
    <3>2. Alive(a.grant) /\ a.grant \notin gs
      BY <1>3, <2>1, <3>1
    <3>3. PICK i \in PrunedHistory : SameToken(a, i) /\ i.expires = a.expires
      BY <2>1, <3>2, PrunedFacts
    <3> QED
      BY <1>1, <3>2, <3>3 DEF SameToken
  <2> QED
    BY <1>1, <1>5, <2>1, SameAnswersKnown
<1>7. /\ reused' \subseteq GrantIds
      /\ \A r \in reused' : serial[r] > 0 /\ grants'[r] = NoGrant
  BY <1>1, ReusedFacts, PrunedFacts
<1>8. IInv'
  BY <1>1, <1>2, <1>4, <1>5, <1>6, <1>7, FewerRowsKeepIInv
<1>9. GrantsShrink
  BY <1>3 DEF GrantsShrink
<1> QED
  BY <1>8, <1>9

\* The steps of the store the service takes beside issuing a grant and dropping
\* some.
LEMMA StoreStepFacts ==
  ASSUME IInv,
         \/ Look \/ Tick \/ UNCHANGED grantVars
         \/ \E t \in tokens : Rotate(t)
         \/ \E h \in history : Reuse(h) \/ Retry(h)
         \/ \E g \in GrantIds : RestrictByAccessToken(g) \/ RevokeGrant(g)
  PROVE  IInv' /\ GrantsShrink
<1>1. [Next]_grantVars
  BY DEF Next
<1>2. ASSUME grants' = grants
      PROVE  GrantsShrink
  BY <1>2 DEF GrantsShrink
<1>3. ASSUME grants' = PrunedGrants
      PROVE  GrantsShrink
  BY <1>3, PrunedFacts DEF GrantsShrink, Alive
<1>4. ASSUME NEW h \in history, Reuse(h)
      PROVE  GrantsShrink
  <2>1. \A g \in GrantIds : grants'[g] \in {NoGrant, PrunedGrants[g]}
    BY <1>4 DEF Reuse, Dropped
  <2> QED
    BY <2>1, PrunedFacts DEF GrantsShrink, Alive
<1>5. ASSUME NEW g \in GrantIds, RevokeGrant(g)
      PROVE  GrantsShrink
  BY <1>5 DEF RevokeGrant, Deleted, GrantsShrink
<1>6. ASSUME NEW g \in GrantIds, RestrictByAccessToken(g)
      PROVE  GrantsShrink
  <2> DEFINE row == [PrunedGrants[g] EXCEPT !.surface = "gateway-only"]
  <2>1. grants' = [PrunedGrants EXCEPT ![g] = row]
    BY <1>6 DEF RestrictByAccessToken
  <2>2. Alive(g)
    <3>1. \E t \in PrunedTokens : t.grant = g
      BY <1>6 DEF RestrictByAccessToken
    <3> QED
      BY <3>1, PrunedFacts
  <2>3. row.client = grants[g].client /\ row.ceiling = grants[g].ceiling /\ grants[g] # NoGrant
    BY <2>2, PrunedFacts DEF GrantRow, Alive
  <2> HIDE DEF row
  <2>4. \A r \in GrantIds : grants'[r] = IF r = g THEN row ELSE PrunedGrants[r]
    BY <2>1, PrunedFacts
  <2> QED
    BY <2>3, <2>4, PrunedFacts DEF GrantsShrink, Alive
<1>7. GrantsShrink
  BY <1>2, <1>3, <1>4, <1>5, <1>6
     DEF Look, Pruned, Tick, Rotate, Retry, grantVars
<1> QED
  BY <1>1, <1>7, StepIInv

LEMMA PurgedFlowFacts ==
  ASSUME FlowShape
  PROVE  /\ PurgedFlow \in [TxIds -> FlowRow]
         /\ \A x \in TxIds : \/ PurgedFlow[x] = flow[x]
                             \/ Open(flow[x]) /\ PurgedFlow[x] = Closed(flow[x])
  BY ClosedFacts DEF FlowShape, PurgedFlow

LEMMA EbbFacts ==
  ASSUME FlowShape,
         \/ flow' = flow \/ flow' = PurgedFlow
         \/ \E xs \in SUBSET TxIds : flow' = Ended(xs)
         \/ flow' = [x \in TxIds |-> IF Open(flow[x]) THEN Closed(flow[x]) ELSE flow[x]]
         \/ \E x \in TxIds : PurgedFlow[x].stage = "pending"
                             /\ flow' = [PurgedFlow EXCEPT ![x].stage = "gone"]
  PROVE  FlowsEbb
<1>1. flow \in [TxIds -> FlowRow]
  BY DEF FlowShape
<1>2. ASSUME flow' = flow
      PROVE  FlowsEbb
  BY <1>1, <1>2 DEF FlowsEbb
<1>3. ASSUME flow' = PurgedFlow
      PROVE  FlowsEbb
  BY <1>3, PurgedFlowFacts DEF FlowsEbb
<1>4. ASSUME NEW xs \in SUBSET TxIds, flow' = Ended(xs)
      PROVE  FlowsEbb
  <2>1. \A x \in TxIds :
          flow'[x] = IF x \in xs /\ Open(flow[x]) THEN Closed(flow[x]) ELSE PurgedFlow[x]
    BY <1>4 DEF Ended
  <2>2. flow' = [x \in TxIds |-> flow'[x]]
    BY <1>4 DEF Ended
  <2> QED
    BY <2>1, <2>2, PurgedFlowFacts DEF FlowsEbb
<1>5. ASSUME flow' = [x \in TxIds |-> IF Open(flow[x]) THEN Closed(flow[x]) ELSE flow[x]]
      PROVE  FlowsEbb
  BY <1>5 DEF FlowsEbb
<1>6. ASSUME NEW x \in TxIds, PurgedFlow[x].stage = "pending",
             flow' = [PurgedFlow EXCEPT ![x].stage = "gone"]
      PROVE  FlowsEbb
  <2>1. flow' = [PurgedFlow EXCEPT ![x] = Closed(PurgedFlow[x])]
    BY <1>6 DEF Closed
  <2>2. PurgedFlow[x] = flow[x] /\ Open(flow[x])
    BY <1>1, <1>6, ClosedFacts, PurgedFlowFacts DEF Open
  <2>3. \A y \in TxIds : flow'[y] = IF y = x THEN Closed(flow[x]) ELSE PurgedFlow[y]
    BY <2>1, <2>2, PurgedFlowFacts
  <2>4. flow' = [y \in TxIds |-> flow'[y]]
    BY <2>1, PurgedFlowFacts
  <2> QED
    BY <2>2, <2>3, <2>4, PurgedFlowFacts DEF FlowsEbb
<1> QED
  BY <1>2, <1>3, <1>4, <1>5, <1>6

\* What ebbs keeps who asked for what.
LEMMA EbbKeepsFlow ==
  ASSUME FlowShape, FlowsEbb
  PROVE  /\ flow' \in [TxIds -> FlowRow]
         /\ \A x \in TxIds :
              /\ flow'[x].client = flow[x].client /\ flow'[x].callback = flow[x].callback
              /\ flow[x].stage = "gone" => flow'[x].stage = "gone"
              /\ flow'[x].stage # "gone" => flow'[x] = flow[x]
<1>1. flow \in [TxIds -> FlowRow]
  BY DEF FlowShape
<1>2. \A x \in TxIds : flow'[x] = flow[x] \/ (Open(flow[x]) /\ flow'[x] = Closed(flow[x]))
  BY DEF FlowsEbb
<1>3. \A x \in TxIds : flow'[x] \in FlowRow
  BY <1>1, <1>2, ClosedFacts
<1>4. flow' \in [TxIds -> FlowRow]
  BY <1>3 DEF FlowsEbb
<1> QED
  BY <1>1, <1>2, <1>4, ClosedFacts DEF Open

\* A step that adds neither a transaction nor a consent nor a grant, and takes
\* consents back only where the transaction is over and its grants are dropped.
LEMMA TakingBackKeepsConsents ==
  ASSUME ConsentInv, GrantsShrink, FlowsEbb, UNCHANGED <<callback, origin>>,
         NEW xs \in SUBSET TxIds, TakenBack(xs),
         \A x \in xs : flow'[x].stage = "gone",
         \A g \in GrantIds : origin[g] \in xs => grants'[g] = NoGrant
  PROVE  ConsentInv'
<1>1. /\ flow' \in [TxIds -> FlowRow]
      /\ \A x \in TxIds :
           /\ flow'[x].client = flow[x].client /\ flow'[x].callback = flow[x].callback
           /\ flow[x].stage = "gone" => flow'[x].stage = "gone"
           /\ flow'[x].stage # "gone" => flow'[x] = flow[x]
  BY EbbKeepsFlow DEF ConsentInv
<1>2. /\ consent \in [TxIds -> Profiles \cup {"none", "revoked"}]
      /\ origin \in [GrantIds -> TxIds \cup {NoTx}] /\ callback \in BOOLEAN
  BY DEF ConsentInv, FlowShape
<1>3. /\ consent' \in [TxIds -> Profiles \cup {"none", "revoked"}]
      /\ \A x \in TxIds : consent'[x] = IF x \in xs THEN "revoked" ELSE consent[x]
  BY <1>2 DEF TakenBack
<1>4. FlowShape'
  BY <1>1, <1>2, <1>3 DEF FlowShape
<1>5. FlowsBehindGrants'
  <2>1. \A g \in GrantIds : origin[g] # NoTx => origin[g] \in TxIds /\ flow[origin[g]].stage = "gone"
    BY <1>2 DEF ConsentInv, FlowsBehindGrants
  <2>2. \A x \in TxIds : flow[x].stage \in {"none", "pending"} => consent[x] = "none"
    BY DEF ConsentInv, FlowsBehindGrants
  <2>3. \A x \in TxIds : flow'[x].stage \in {"none", "pending"} => consent'[x] = "none"
    BY <1>1, <1>3, <2>2
  <2> QED
    BY <1>1, <2>1, <2>3 DEF FlowsBehindGrants
<1>6. \A g, h \in GrantIds : origin'[g] = origin'[h] /\ origin'[g] # NoTx => g = h
  BY DEF ConsentInv, ConsentStands
<1>7. ASSUME NEW g \in GrantIds, grants'[g] # NoGrant
      PROVE  /\ origin'[g] # NoTx
             /\ grants'[g].client = flow'[origin'[g]].client
             /\ consent'[origin'[g]] \in {"full", grants'[g].ceiling}
  <2>1. /\ grants[g] # NoGrant /\ grants'[g].client = grants[g].client
        /\ grants'[g].ceiling = grants[g].ceiling
    BY <1>7 DEF GrantsShrink
  <2>2. /\ origin[g] # NoTx /\ origin[g] \in TxIds
        /\ grants[g].client = flow[origin[g]].client
        /\ consent[origin[g]] \in {"full", grants[g].ceiling}
    BY <1>2, <2>1 DEF ConsentInv, ConsentStands
  <2>3. origin[g] \notin xs
    BY <1>7
  <2> QED
    BY <1>1, <1>3, <2>1, <2>2, <2>3
<1>8. \A x \in TxIds : flow'[x].stage = "code" => consent'[x] \in {"full", flow'[x].profile}
  BY <1>1, <1>3 DEF ConsentInv, ConsentStands
<1>9. callback' => \E x \in TxIds : flow'[x].callback /\ consent'[x] # "none"
  BY <1>1, <1>3 DEF ConsentInv, ConsentStands
<1>10. ConsentStands'
  BY <1>6, <1>7, <1>8, <1>9 DEF ConsentStands
<1> QED
  BY <1>4, <1>5, <1>10 DEF ConsentInv

LEMMA QuietStepKeepsConsents ==
  ASSUME ConsentInv, GrantsShrink, FlowsEbb, UNCHANGED <<callback, origin, consent>>
  PROVE  ConsentInv'
<1>1. TakenBack({})
  BY DEF TakenBack, ConsentInv, FlowShape
<1>2. NoTx \notin {} /\ {} \in SUBSET TxIds
  OBVIOUS
<1> QED
  BY <1>1, <1>2, TakingBackKeepsConsents

\* A step that moves one transaction and lets the others ebb.
LEMMA OneFlowMoves ==
  ASSUME FlowShape, NEW x \in TxIds, NEW row \in FlowRow,
         flow' = [PurgedFlow EXCEPT ![x] = row]
  PROVE  /\ flow' \in [TxIds -> FlowRow] /\ flow'[x] = row
         /\ \A y \in TxIds : y # x =>
              /\ flow'[y].client = flow[y].client /\ flow'[y].callback = flow[y].callback
              /\ flow[y].stage = "gone" => flow'[y].stage = "gone"
              /\ flow'[y].stage # "gone" => flow'[y] = flow[y]
<1>1. flow \in [TxIds -> FlowRow]
  BY DEF FlowShape
<1>2. \A y \in TxIds : flow'[y] = IF y = x THEN row ELSE PurgedFlow[y]
  BY PurgedFlowFacts
<1>3. \A y \in TxIds : flow[y].stage = "gone" => PurgedFlow[y] = flow[y]
  BY PurgedFlowFacts DEF Open
<1>4. \A y \in TxIds :
        /\ PurgedFlow[y].client = flow[y].client /\ PurgedFlow[y].callback = flow[y].callback
        /\ PurgedFlow[y].stage # "gone" => PurgedFlow[y] = flow[y]
  BY <1>1, ClosedFacts, PurgedFlowFacts
<1> QED
  BY <1>2, <1>3, <1>4, PurgedFlowFacts

LEMMA NowIsNat ==
  ASSUME IInv
  PROVE  /\ now \in Nat
         /\ now + PendingTtl \in Nat /\ now + CodeTtl \in Nat
  BY ServiceAssumption DEF IInv, TypeOK

LEMMA BeginKeepsConsents ==
  ASSUME IInv, ConsentInv, NEW x \in TxIds, NEW c \in Clients, NEW profile \in Profiles,
         NEW proposes \in BOOLEAN, BeginAuthorization(x, c, profile, proposes)
  PROVE  ConsentInv'
<1> DEFINE row == [stage |-> "pending", client |-> c, profile |-> profile,
                   expires |-> now + PendingTtl, callback |-> proposes]
<1>1. row \in FlowRow /\ row.stage = "pending"
  BY NowIsNat DEF FlowRow
<1>2. /\ flow' = [PurgedFlow EXCEPT ![x] = row] /\ flow[x].stage = "none"
      /\ UNCHANGED <<callback, consent, origin>> /\ Look
  BY DEF BeginAuthorization
<1> HIDE DEF row
<1>3. GrantsShrink
  BY <1>2, StoreStepFacts
<1>4. /\ flow' \in [TxIds -> FlowRow] /\ flow'[x] = row
      /\ \A y \in TxIds : y # x =>
           /\ flow'[y].client = flow[y].client /\ flow'[y].callback = flow[y].callback
           /\ flow[y].stage = "gone" => flow'[y].stage = "gone"
           /\ flow'[y].stage # "gone" => flow'[y] = flow[y]
  BY <1>1, <1>2, OneFlowMoves DEF ConsentInv
<1>5. FlowShape'
  BY <1>2, <1>4 DEF ConsentInv, FlowShape
<1>6. consent[x] = "none" /\ \A g \in GrantIds : origin[g] # NoTx =>
        origin[g] \in TxIds /\ origin[g] # x /\ flow'[origin[g]].stage = "gone"
        /\ flow'[origin[g]].client = flow[origin[g]].client
  BY <1>2, <1>4 DEF ConsentInv, FlowShape, FlowsBehindGrants
<1>7. FlowsBehindGrants'
  <2>1. \A y \in TxIds : flow'[y].stage \in {"none", "pending"} => consent[y] = "none"
    BY <1>4, <1>6 DEF ConsentInv, FlowsBehindGrants
  <2> QED
    BY <1>2, <1>6, <2>1 DEF FlowsBehindGrants
<1>8. \A g \in GrantIds : grants'[g] # NoGrant =>
        /\ origin[g] # NoTx /\ grants'[g].client = flow'[origin[g]].client
        /\ consent[origin[g]] \in {"full", grants'[g].ceiling}
  BY <1>3, <1>6 DEF GrantsShrink, ConsentInv, ConsentStands
<1>9. \A y \in TxIds : flow'[y].stage = "code" => consent[y] \in {"full", flow'[y].profile}
  BY <1>1, <1>4 DEF ConsentInv, ConsentStands
<1>10. callback => \E y \in TxIds : flow'[y].callback /\ consent[y] # "none"
  BY <1>4, <1>6 DEF ConsentInv, ConsentStands
<1>11. \A g, h \in GrantIds : origin[g] = origin[h] /\ origin[g] # NoTx => g = h
  BY DEF ConsentInv, ConsentStands
<1>12. ConsentStands'
  BY <1>2, <1>8, <1>9, <1>10, <1>11 DEF ConsentStands
<1> QED
  BY <1>5, <1>7, <1>12 DEF ConsentInv

LEMMA ApproveKeepsConsents ==
  ASSUME IInv, ConsentInv, NEW x \in TxIds, NEW profile \in Profiles,
         ApproveAuthorization(x, profile)
  PROVE  ConsentInv'
<1> DEFINE row == [[[PurgedFlow[x] EXCEPT !.stage = "code"]
                                   EXCEPT !.profile = Approved(flow[x], profile)]
                                   EXCEPT !.expires = now + CodeTtl]
<1>1. flow[x] \in FlowRow /\ PurgedFlow[x] = flow[x] /\ flow[x].stage = "pending"
      /\ consent[x] = "none"
  <2>1. flow[x] \in FlowRow /\ PurgedFlow[x].stage = "pending"
    BY DEF ConsentInv, FlowShape, ApproveAuthorization
  <2>2. PurgedFlow[x] = flow[x]
    BY <2>1, ClosedFacts, PurgedFlowFacts DEF ConsentInv
  <2> QED
    BY <2>1, <2>2 DEF ConsentInv, FlowsBehindGrants
<1>2. /\ row \in FlowRow /\ row.stage = "code" /\ row.client = flow[x].client
      /\ row.callback = flow[x].callback /\ row.profile = Approved(flow[x], profile)
  <2>1. Approved(flow[x], profile) \in Profiles
    BY DEF Approved, Profiles
  <2> QED
    BY <1>1, <2>1, NowIsNat DEF FlowRow
<1>3. /\ flow' = [PurgedFlow EXCEPT ![x] = row]
      /\ consent' = [consent EXCEPT ![x] = Agreed(flow[x], profile)]
      /\ callback' = (callback \/ flow[x].callback)
      /\ UNCHANGED origin /\ Look
  <2>1. flow' = [PurgedFlow EXCEPT ![x] = row]
    BY PurgedFlowFacts DEF ApproveAuthorization, ConsentInv
  <2> QED
    BY <1>1, <2>1 DEF ApproveAuthorization
<1> HIDE DEF row
<1>4. GrantsShrink
  BY <1>3, StoreStepFacts
<1>5. /\ flow' \in [TxIds -> FlowRow] /\ flow'[x] = row
      /\ \A y \in TxIds : y # x =>
           /\ flow'[y].client = flow[y].client /\ flow'[y].callback = flow[y].callback
           /\ flow[y].stage = "gone" => flow'[y].stage = "gone"
           /\ flow'[y].stage # "gone" => flow'[y] = flow[y]
  BY <1>2, <1>3, OneFlowMoves DEF ConsentInv
<1>6. /\ Agreed(flow[x], profile) \in Profiles
      /\ Agreed(flow[x], profile) \in {"full", row.profile}
  BY <1>1, <1>2 DEF Agreed, Approved, Profiles, FlowRow
<1>7. /\ consent' \in [TxIds -> Profiles \cup {"none", "revoked"}]
      /\ consent'[x] = Agreed(flow[x], profile) /\ consent'[x] # "none"
      /\ \A y \in TxIds : y # x => consent'[y] = consent[y]
  BY <1>3, <1>6 DEF ConsentInv, FlowShape, Profiles
<1>8. FlowShape'
  BY <1>1, <1>3, <1>5, <1>7 DEF ConsentInv, FlowShape, FlowRow
<1>9. \A g \in GrantIds : origin[g] # NoTx =>
        origin[g] \in TxIds /\ origin[g] # x /\ flow'[origin[g]].stage = "gone"
        /\ flow'[origin[g]].client = flow[origin[g]].client
        /\ consent'[origin[g]] = consent[origin[g]]
  BY <1>1, <1>5, <1>7 DEF ConsentInv, FlowShape, FlowsBehindGrants
<1>10. FlowsBehindGrants'
  <2>1. \A y \in TxIds : flow'[y].stage \in {"none", "pending"} => consent'[y] = "none"
    BY <1>2, <1>5, <1>7 DEF ConsentInv, FlowsBehindGrants
  <2> QED
    BY <1>3, <1>9, <2>1 DEF FlowsBehindGrants
<1>11. \A g \in GrantIds : grants'[g] # NoGrant =>
        /\ origin[g] # NoTx /\ grants'[g].client = flow'[origin[g]].client
        /\ consent'[origin[g]] \in {"full", grants'[g].ceiling}
  BY <1>4, <1>9 DEF GrantsShrink, ConsentInv, ConsentStands
<1>12. \A y \in TxIds : flow'[y].stage = "code" => consent'[y] \in {"full", flow'[y].profile}
  BY <1>5, <1>6, <1>7 DEF ConsentInv, ConsentStands
<1>13. callback' => \E y \in TxIds : flow'[y].callback /\ consent'[y] # "none"
  <2>1. CASE callback
    <3>1. PICK y \in TxIds : flow[y].callback /\ consent[y] # "none"
      BY <2>1 DEF ConsentInv, ConsentStands
    <3>2. y # x
      BY <1>1, <3>1
    <3> QED
      BY <1>5, <1>7, <3>1, <3>2
  <2>2. CASE flow[x].callback
    BY <1>2, <1>5, <1>7, <2>2
  <2> QED
    BY <1>3, <2>1, <2>2
<1>14. \A g, h \in GrantIds : origin[g] = origin[h] /\ origin[g] # NoTx => g = h
  BY DEF ConsentInv, ConsentStands
<1>15. ConsentStands'
  BY <1>3, <1>11, <1>12, <1>13, <1>14 DEF ConsentStands
<1> QED
  BY <1>8, <1>10, <1>15 DEF ConsentInv

LEMMA ExchangeKeepsConsents ==
  ASSUME IInv, ConsentInv, NEW x \in TxIds, NEW g \in GrantIds,
         ExchangeAuthorizationCode(x, g)
  PROVE  IInv' /\ ConsentInv'
<1> DEFINE row == Closed(PurgedFlow[x])
           new == [client |-> flow[x].client,
                   surface |-> SurfaceOf(flow[x].client, flow[x].profile),
                   ceiling |-> flow[x].profile]
<1>1. /\ flow[x] \in FlowRow /\ PurgedFlow[x] = flow[x] /\ flow[x].stage = "code"
      /\ consent[x] \in {"full", flow[x].profile}
  <2>1. flow[x] \in FlowRow /\ PurgedFlow[x].stage = "code"
    BY DEF ConsentInv, FlowShape, ExchangeAuthorizationCode
  <2>2. PurgedFlow[x] = flow[x]
    BY <2>1, ClosedFacts, PurgedFlowFacts DEF ConsentInv
  <2> QED
    BY <2>1, <2>2 DEF ConsentInv, ConsentStands
<1>2. row \in FlowRow /\ row.stage = "gone" /\ row.client = flow[x].client
      /\ row.callback = flow[x].callback
  BY <1>1, ClosedFacts
<1>3. /\ flow' = [PurgedFlow EXCEPT ![x] = row]
      /\ origin' = [origin EXCEPT ![g] = x] /\ UNCHANGED <<callback, consent>>
      /\ Issue(g, flow[x].client, flow[x].profile)
      /\ grants' = [PrunedGrants EXCEPT ![g] = new]
  BY PurgedFlowFacts DEF ExchangeAuthorizationCode, Consumed, ConsentInv, Issue
<1>4. new.client = flow[x].client /\ new.ceiling = flow[x].profile
  OBVIOUS
<1>5. IInv'
  <2>1. flow[x].client \in Clients /\ flow[x].profile \in Profiles
    BY <1>1 DEF FlowRow
  <2>2. Next
    BY <1>3, <2>1 DEF Next
  <2> QED
    BY <2>2, StepIInv
<1> HIDE DEF row, new
<1>6. /\ flow' \in [TxIds -> FlowRow] /\ flow'[x] = row
      /\ \A y \in TxIds : y # x =>
           /\ flow'[y].client = flow[y].client /\ flow'[y].callback = flow[y].callback
           /\ flow[y].stage = "gone" => flow'[y].stage = "gone"
           /\ flow'[y].stage # "gone" => flow'[y] = flow[y]
  BY <1>2, <1>3, OneFlowMoves DEF ConsentInv
<1>7. /\ origin' \in [GrantIds -> TxIds \cup {NoTx}] /\ origin'[g] = x
      /\ \A h \in GrantIds : h # g => origin'[h] = origin[h]
  BY <1>3 DEF ConsentInv, FlowShape
<1>8. FlowShape'
  BY <1>3, <1>6, <1>7 DEF ConsentInv, FlowShape
<1>9. \A h \in GrantIds : origin[h] # NoTx =>
        origin[h] \in TxIds /\ origin[h] # x /\ flow'[origin[h]].stage = "gone"
        /\ flow'[origin[h]].client = flow[origin[h]].client
  BY <1>1, <1>6 DEF ConsentInv, FlowShape, FlowsBehindGrants
<1>10. FlowsBehindGrants'
  <2>1. \A h \in GrantIds : origin'[h] # NoTx => flow'[origin'[h]].stage = "gone"
    BY <1>2, <1>6, <1>7, <1>9
  <2>2. \A y \in TxIds : flow'[y].stage \in {"none", "pending"} => consent[y] = "none"
    BY <1>2, <1>6 DEF ConsentInv, FlowsBehindGrants
  <2> QED
    BY <1>3, <2>1, <2>2 DEF FlowsBehindGrants
<1>11. ASSUME NEW h \in GrantIds, grants'[h] # NoGrant
       PROVE  /\ origin'[h] # NoTx /\ grants'[h].client = flow'[origin'[h]].client
              /\ consent[origin'[h]] \in {"full", grants'[h].ceiling}
  <2>1. CASE h = g
    <3>1. grants'[h] = new
      BY <1>3, <2>1, PrunedFacts
    <3>2. x # NoTx
      BY TxIdsAssumption
    <3> QED
      BY <1>1, <1>2, <1>4, <1>6, <1>7, <2>1, <3>1, <3>2
  <2>2. CASE h # g
    <3>1. grants'[h] = grants[h] /\ grants[h] # NoGrant
      BY <1>3, <1>11, <2>2, PrunedFacts DEF Alive
    <3>2. /\ origin[h] # NoTx /\ grants[h].client = flow[origin[h]].client
          /\ consent[origin[h]] \in {"full", grants[h].ceiling}
      BY <3>1 DEF ConsentInv, ConsentStands
    <3> QED
      BY <1>7, <1>9, <2>2, <3>1, <3>2
  <2> QED
    BY <2>1, <2>2
<1>12. \A y \in TxIds : flow'[y].stage = "code" => consent[y] \in {"full", flow'[y].profile}
  BY <1>2, <1>6 DEF ConsentInv, ConsentStands
<1>13. callback => \E y \in TxIds : flow'[y].callback /\ consent[y] # "none"
  BY <1>2, <1>6 DEF ConsentInv, ConsentStands
<1>14. \A h, i \in GrantIds : origin'[h] = origin'[i] /\ origin'[h] # NoTx => h = i
  <2>1. \A h, i \in GrantIds : origin[h] = origin[i] /\ origin[h] # NoTx => h = i
    BY DEF ConsentInv, ConsentStands
  <2>2. \A h \in GrantIds : origin[h] # x
    BY <1>9, TxIdsAssumption
  <2> QED
    BY <1>7, <2>1, <2>2
<1>15. ConsentStands'
  BY <1>3, <1>11, <1>12, <1>13, <1>14 DEF ConsentStands
<1> QED
  BY <1>5, <1>8, <1>10, <1>15 DEF ConsentInv

-----------------------------------------------------------------------------
(* The registries.                                                         *)

LEMMA EmptyListing == Listing(<<>>) /\ ToSet(<<>>) = {} /\ Len(<<>>) = 0
  BY ServiceAssumption DEF Listing, IsInjective, ToSet

LEMMA ListingWithout ==
  ASSUME NEW s, Listing(s), NEW c
  PROVE  Listing(Without(s, c)) /\ ToSet(Without(s, c)) = ToSet(s) \ {c}
<1>1. /\ Without(s, c) \in Seq(Dynamic) /\ Len(Without(s, c)) <= Len(s)
      /\ IsInjective(Without(s, c)) /\ ToSet(Without(s, c)) = ToSet(s) \ {c}
  BY WithoutFacts DEF Listing
<1>2. Len(Without(s, c)) \in Nat /\ Len(s) \in Nat /\ MaxDynamic \in Nat
  BY <1>1, LenProperties, ServiceAssumption DEF Listing
<1> QED
  BY <1>1, <1>2 DEF Listing

LEMMA ListingAppend ==
  ASSUME NEW s, Listing(s), Len(s) < MaxDynamic, NEW c \in Dynamic, c \notin ToSet(s)
  PROVE  Listing(Append(s, c)) /\ ToSet(Append(s, c)) = ToSet(s) \cup {c}
<1>1. Len(s) \in Nat /\ MaxDynamic \in Nat
  BY LenProperties, ServiceAssumption DEF Listing
<1>2. /\ Append(s, c) \in Seq(Dynamic) /\ Len(Append(s, c)) = Len(s) + 1
      /\ IsInjective(Append(s, c)) /\ ToSet(Append(s, c)) = ToSet(s) \cup {c}
  BY AppendedFacts DEF Listing
<1> QED
  BY <1>1, <1>2 DEF Listing

\* Moving a client to the end changes the order only.
LEMMA MovedFacts ==
  ASSUME Listing(lru), NEW c
  PROVE  Listing(MovedToEnd(c)) /\ ToSet(MovedToEnd(c)) = ToSet(lru)
<1>1. CASE c \in ToSet(lru)
  <2> DEFINE r == Without(lru, c)
  <2>1. Len(lru) \in Nat /\ MaxDynamic \in Nat /\ Len(lru) <= MaxDynamic /\ c \in Dynamic
    BY <1>1, LenProperties, ServiceAssumption, ElementOfSeq DEF Listing, ToSet
  <2>2. Listing(r) /\ ToSet(r) = ToSet(lru) \ {c} /\ Len(r) = Len(lru) - 1
    BY <1>1, ListingWithout, WithoutFacts DEF Listing
  <2> HIDE DEF r
  <2>3. Listing(Append(r, c)) /\ ToSet(Append(r, c)) = ToSet(r) \cup {c}
    BY <2>1, <2>2, ListingAppend
  <2>4. MovedToEnd(c) = Append(r, c)
    BY <1>1 DEF MovedToEnd, r
  <2> QED
    BY <1>1, <2>2, <2>3, <2>4
<1>2. CASE c \notin ToSet(lru)
  BY <1>2 DEF MovedToEnd
<1> QED
  BY <1>1, <1>2

\* Room is made by dropping an idle client, if any.
LEMMA RemainingFacts ==
  ASSUME Listing(lru), HasRoom
  PROVE  /\ Listing(Remaining) /\ Len(Remaining) < MaxDynamic
         /\ ToSet(Remaining) \subseteq ToSet(lru)
         /\ \A c \in ToSet(lru) \ ToSet(Remaining) : MayEvict(c)
<1>1. Len(lru) \in Nat /\ MaxDynamic \in Nat /\ DOMAIN lru = 1..Len(lru) /\ Len(lru) <= MaxDynamic
  BY LenProperties, ServiceAssumption DEF Listing
<1>2. CASE Len(lru) < MaxDynamic
  BY <1>2 DEF Remaining
<1>3. CASE ~ (Len(lru) < MaxDynamic)
  <2> DEFINE T == {i \in 1..Len(lru) : MayEvict(lru[i])}
             i == Min(T)
  <2>1. T # {} /\ T \in SUBSET Nat
    BY <1>1, <1>3 DEF HasRoom, ToSet
  <2>2. i \in T
    BY <2>1, SmallestIsIn
  <2>3. Remaining = RemoveAt(lru, i)
    BY <1>3, <2>1 DEF Remaining, SelectInSeq
  <2> HIDE DEF i
  <2>4. i \in 1..Len(lru) /\ MayEvict(lru[i])
    BY <2>2
  <2>5. /\ RemoveAt(lru, i) \in Seq(Dynamic) /\ Len(RemoveAt(lru, i)) = Len(lru) - 1
        /\ IsInjective(RemoveAt(lru, i))
        /\ ToSet(RemoveAt(lru, i)) = ToSet(lru) \ {lru[i]}
    BY <2>4, RemovedFacts DEF Listing
  <2>6. Len(Remaining) < MaxDynamic
    BY <1>1, <2>3, <2>5
  <2>7. Listing(Remaining)
    BY <1>1, <2>3, <2>5 DEF Listing
  <2> QED
    BY <2>3, <2>4, <2>5, <2>6, <2>7
<1> QED
  BY <1>2, <1>3

LEMMA RegisterKeepsRegistry ==
  ASSUME RegistryInv, NEW c \in Dynamic, NEW saved \in BOOLEAN, RegisterClient(c, saved)
  PROVE  RegistryInv'
<1> DEFINE next == Append(Remaining, c)
<1>1. /\ Listing(lru) /\ Listing(disk) /\ ToSet(lru) \subseteq drawn /\ ToSet(disk) \subseteq drawn
      /\ drawn \subseteq Dynamic /\ touched \subseteq Dynamic
  BY DEF RegistryInv, RegistryShape
<1>2. /\ Listing(Remaining) /\ Len(Remaining) < MaxDynamic
      /\ ToSet(Remaining) \subseteq ToSet(lru) /\ c \notin drawn
  BY <1>1, RemainingFacts DEF RegisterClient
<1>3. Listing(next) /\ ToSet(next) = ToSet(Remaining) \cup {c}
  BY <1>1, <1>2, ListingAppend
<1>4. /\ \/ lru' = next /\ disk' = next
         \/ lru' = lru /\ disk' = disk
      /\ drawn' = drawn \cup {c} /\ touched' = touched
  BY DEF RegisterClient, Swapped
<1> HIDE DEF next
<1>5. RegistryShape'
  BY <1>1, <1>2, <1>3, <1>4 DEF RegistryShape
<1>6. RegistryDurable'
  BY <1>4 DEF RegistryInv, RegistryDurable
<1> QED
  BY <1>5, <1>6 DEF RegistryInv

LEMMA EditKeepsRegistry ==
  ASSUME RegistryInv, NEW c \in Dynamic, EditRegistry(c)
  PROVE  RegistryInv'
<1>1. /\ Listing(lru) /\ Listing(disk) /\ ToSet(lru) \subseteq drawn /\ ToSet(disk) \subseteq drawn
      /\ drawn \subseteq Dynamic /\ touched \subseteq Dynamic
      /\ \A d \in Dynamic \ touched : d \in ToSet(lru) <=> d \in ToSet(disk)
  BY DEF RegistryInv, RegistryShape, RegistryDurable
<1>2. lru' = lru /\ drawn' = drawn /\ touched' = touched \cup {c}
  BY DEF EditRegistry
<1>3. /\ Listing(disk') /\ ToSet(disk') \subseteq drawn
      /\ \A d \in Dynamic \ {c} : d \in ToSet(disk') <=> d \in ToSet(disk)
  <2>1. CASE c \in ToSet(disk)
    BY <1>1, <2>1, ListingWithout DEF EditRegistry
  <2>2. CASE c \notin ToSet(disk)
    <3>1. c \in drawn /\ Len(disk) < MaxDynamic /\ disk' = Append(disk, c)
      BY <2>2 DEF EditRegistry
    <3> QED
      BY <1>1, <2>2, <3>1, ListingAppend
  <2> QED
    BY <2>1, <2>2
<1>4. RegistryShape'
  BY <1>1, <1>2, <1>3 DEF RegistryShape
<1>5. RegistryDurable'
  BY <1>1, <1>2, <1>3 DEF RegistryDurable
<1> QED
  BY <1>4, <1>5 DEF RegistryInv

\* What the other calls do to the two registries.
LEMMA OthersKeepRegistry ==
  ASSUME RegistryInv, drawn' = drawn,
         \/ UNCHANGED <<lru, disk, touched>>
         \/ \E c \in Clients : lru' = MovedToEnd(c) /\ UNCHANGED <<disk, touched>>
         \/ lru' = disk /\ UNCHANGED <<disk, touched>>
         \/ \E c \in Clients : RevokeClientByOwner(c)
         \/ \E c \in Dynamic : RevokeClientFails(c)
         \/ RevokeAllByOwner \/ RevokeAllFails
  PROVE  RegistryInv'
<1>1. /\ Listing(lru) /\ Listing(disk) /\ ToSet(lru) \subseteq drawn /\ ToSet(disk) \subseteq drawn
      /\ drawn \subseteq Dynamic /\ touched \subseteq Dynamic
      /\ \A d \in Dynamic \ touched : d \in ToSet(lru) <=> d \in ToSet(disk)
  BY DEF RegistryInv, RegistryShape, RegistryDurable
<1>2. SUFFICES /\ Listing(lru') /\ Listing(disk')
               /\ ToSet(lru') \subseteq drawn /\ ToSet(disk') \subseteq drawn
               /\ touched' \subseteq Dynamic
               /\ \A d \in Dynamic \ touched' : d \in ToSet(lru') <=> d \in ToSet(disk')
  BY <1>1 DEF RegistryInv, RegistryShape, RegistryDurable
<1>3. CASE UNCHANGED <<lru, disk, touched>>
  BY <1>1, <1>3
<1>4. ASSUME NEW c \in Clients, lru' = MovedToEnd(c), UNCHANGED <<disk, touched>>
      PROVE  /\ Listing(lru') /\ Listing(disk')
             /\ ToSet(lru') \subseteq drawn /\ ToSet(disk') \subseteq drawn
             /\ touched' \subseteq Dynamic
             /\ \A d \in Dynamic \ touched' : d \in ToSet(lru') <=> d \in ToSet(disk')
  BY <1>1, <1>4, MovedFacts
<1>5. CASE lru' = disk /\ UNCHANGED <<disk, touched>>
  BY <1>1, <1>5
<1>6. ASSUME NEW c \in Clients, RevokeClientByOwner(c)
      PROVE  /\ Listing(lru') /\ Listing(disk')
             /\ ToSet(lru') \subseteq drawn /\ ToSet(disk') \subseteq drawn
             /\ touched' \subseteq Dynamic
             /\ \A d \in Dynamic \ touched' : d \in ToSet(lru') <=> d \in ToSet(disk')
  <2>1. /\ lru' = Without(lru, c) /\ touched' = touched
        /\ disk' = IF c \in ToSet(lru) THEN Without(lru, c) ELSE disk
    BY <1>6 DEF RevokeClientByOwner
  <2>2. Listing(Without(lru, c)) /\ ToSet(Without(lru, c)) = ToSet(lru) \ {c}
    BY <1>1, ListingWithout
  <2> QED
    BY <1>1, <2>1, <2>2
<1>7. ASSUME NEW c \in Dynamic, RevokeClientFails(c)
      PROVE  /\ Listing(lru') /\ Listing(disk')
             /\ ToSet(lru') \subseteq drawn /\ ToSet(disk') \subseteq drawn
             /\ touched' \subseteq Dynamic
             /\ \A d \in Dynamic \ touched' : d \in ToSet(lru') <=> d \in ToSet(disk')
  <2>1. lru' = lru /\ disk' = Without(lru, c) /\ touched' = touched \cup {c}
    BY <1>7 DEF RevokeClientFails
  <2>2. Listing(Without(lru, c)) /\ ToSet(Without(lru, c)) = ToSet(lru) \ {c}
    BY <1>1, ListingWithout
  <2> QED
    BY <1>1, <2>1, <2>2
<1>8. CASE RevokeAllByOwner
  <2>1. lru' = <<>> /\ touched' = touched /\ disk' = IF lru = <<>> THEN disk ELSE <<>>
    BY <1>8 DEF RevokeAllByOwner
  <2>2. lru = <<>> => ToSet(lru) = {}
    BY EmptyListing
  <2> QED
    BY <1>1, <2>1, <2>2, EmptyListing
<1>9. CASE RevokeAllFails
  <2>1. lru' = lru /\ disk' = <<>> /\ touched' = touched \cup ToSet(lru)
    BY <1>9 DEF RevokeAllFails
  <2> QED
    BY <1>1, <2>1, EmptyListing
<1> QED
  BY <1>3, <1>4, <1>5, <1>6, <1>7, <1>8, <1>9

-----------------------------------------------------------------------------
(* The service: its steps.                                                 *)

LEMMA InitSInv == ServiceInit => SInv
<1> SUFFICES ASSUME ServiceInit PROVE SInv
  OBVIOUS
<1>1. IInv
  BY InitIInv DEF ServiceInit
<1>2. RegistryInv
  BY EmptyListing DEF ServiceInit, RegistryInv, RegistryShape, RegistryDurable
<1>3. NoFlow \in FlowRow /\ NoFlow.stage = "none"
  BY ServiceAssumption DEF NoFlow, FlowRow, Profiles
<1>4. FlowShape
  BY <1>3, Zenon DEF ServiceInit, FlowShape
<1>5. \A x \in TxIds : flow[x].stage = "none"
  BY <1>3 DEF ServiceInit
<1>6. FlowsBehindGrants /\ ConsentStands
  BY <1>5 DEF ServiceInit, Init, FlowsBehindGrants, ConsentStands
<1> QED
  BY <1>1, <1>2, <1>4, <1>6 DEF SInv, ConsentInv

\* Calls that only look, prune or expire.
LEMMA QuietCallsKeepSInv ==
  ASSUME SInv,
         \/ Purge \/ Time \/ ReloadClientsByOwner \/ Restart \/ ExchangeRefreshToken
         \/ \E c \in Clients : BeginRefused(c)
         \/ \E x \in TxIds : DenyAuthorization(x)
         \/ \E g \in GrantIds : RestrictConnection(g)
         \/ \E c \in Dynamic : EditRegistry(c) \/ RevokeClientFails(c)
                               \/ \E saved \in BOOLEAN : RegisterClient(c, saved)
         \/ RevokeAllFails \/ UNCHANGED vars
  PROVE  SInv'
<1>1. /\ \/ Look \/ Tick \/ UNCHANGED grantVars
         \/ \E t \in tokens : Rotate(t)
         \/ \E h \in history : Reuse(h) \/ Retry(h)
         \/ \E g \in GrantIds : RestrictByAccessToken(g) \/ RevokeGrant(g)
  BY DEF Purge, Time, ReloadClientsByOwner, Restart, ExchangeRefreshToken, BeginRefused,
         DenyAuthorization, RestrictConnection, EditRegistry, RevokeClientFails,
         RegisterClient, RevokeAllFails, vars
<1>2. IInv' /\ GrantsShrink
  BY <1>1, StoreStepFacts DEF SInv
<1>3. FlowsEbb
  <2>1. \/ flow' = flow \/ flow' = PurgedFlow
        \/ \E xs \in SUBSET TxIds : flow' = Ended(xs)
        \/ flow' = [x \in TxIds |-> IF Open(flow[x]) THEN Closed(flow[x]) ELSE flow[x]]
        \/ \E x \in TxIds : PurgedFlow[x].stage = "pending"
                            /\ flow' = [PurgedFlow EXCEPT ![x].stage = "gone"]
    <3>1. \A c : FlowsOf(c) \in SUBSET TxIds
      BY DEF FlowsOf
    <3> QED
      BY <3>1
         DEF Purge, Time, ReloadClientsByOwner, Restart, ExchangeRefreshToken, BeginRefused,
             DenyAuthorization, RestrictConnection, EditRegistry, RevokeClientFails,
             RegisterClient, RevokeAllFails, vars, serviceVars
  <2> QED
    BY <2>1, EbbFacts DEF SInv, ConsentInv
<1>4. UNCHANGED <<callback, origin, consent>>
  BY DEF Purge, Time, ReloadClientsByOwner, Restart, ExchangeRefreshToken, BeginRefused,
         DenyAuthorization, RestrictConnection, EditRegistry, RevokeClientFails,
         RegisterClient, RevokeAllFails, vars, serviceVars
<1>5. ConsentInv'
  BY <1>2, <1>3, <1>4, QuietStepKeepsConsents DEF SInv
<1>6. RegistryInv'
  <2>1. ASSUME NEW c \in Dynamic, EditRegistry(c)
        PROVE  RegistryInv'
    BY <2>1, EditKeepsRegistry DEF SInv
  <2>2. ASSUME NEW c \in Dynamic, NEW saved \in BOOLEAN, RegisterClient(c, saved)
        PROVE  RegistryInv'
    BY <2>2, RegisterKeepsRegistry DEF SInv
  <2>3. CASE \/ Purge \/ Time \/ ReloadClientsByOwner \/ Restart \/ ExchangeRefreshToken
             \/ \E c \in Clients : BeginRefused(c)
             \/ \E x \in TxIds : DenyAuthorization(x)
             \/ \E g \in GrantIds : RestrictConnection(g)
             \/ \E c \in Dynamic : RevokeClientFails(c)
             \/ RevokeAllFails \/ UNCHANGED vars
    <3>1. drawn' = drawn
      BY <2>3 DEF Purge, Time, ReloadClientsByOwner, Restart, ExchangeRefreshToken,
                  BeginRefused, DenyAuthorization, RestrictConnection, RevokeClientFails,
                  RevokeAllFails, vars, serviceVars
    <3>2. \/ UNCHANGED <<lru, disk, touched>>
          \/ \E c \in Clients : lru' = MovedToEnd(c) /\ UNCHANGED <<disk, touched>>
          \/ lru' = disk /\ UNCHANGED <<disk, touched>>
          \/ \E c \in Dynamic : RevokeClientFails(c)
          \/ RevokeAllFails
      BY <2>3 DEF Purge, Time, ReloadClientsByOwner, Restart, ExchangeRefreshToken,
                  BeginRefused, DenyAuthorization, RestrictConnection, vars, serviceVars
    <3> QED
      BY <3>1, <3>2, OthersKeepRegistry DEF SInv
  <2> QED
    BY <2>1, <2>2, <2>3
<1> QED
  BY <1>2, <1>5, <1>6 DEF SInv

\* Revocations by the client or the owner.
LEMMA RevocationsKeepSInv ==
  ASSUME SInv,
         \/ \E g \in GrantIds : RevokeToken(g) \/ OwnerRevokesGrant(g)
         \/ \E c \in Clients : RevokeClientByOwner(c)
         \/ RevokeAllByOwner
  PROVE  SInv'
<1>1. /\ grants \in [GrantIds -> GrantRow \cup {NoGrant}]
      /\ defaults \in [Clients -> Profiles \cup {NoDefault}]
      /\ origin \in [GrantIds -> TxIds \cup {NoTx}] /\ flow \in [TxIds -> FlowRow]
      /\ \A x \in TxIds : flow[x].stage \in {"none", "pending", "code", "gone"}
  BY DEF SInv, IInv, TypeOK, ConsentInv, FlowShape, FlowRow
<1>2. RegistryInv'
  <2>1. drawn' = drawn
    BY DEF RevokeToken, OwnerRevokesGrant, RevokeClientByOwner, RevokeAllByOwner
  <2>2. \/ UNCHANGED <<lru, disk, touched>>
        \/ \E c \in Clients : RevokeClientByOwner(c)
        \/ RevokeAllByOwner
    BY DEF RevokeToken, OwnerRevokesGrant
  <2> QED
    BY <2>1, <2>2, OthersKeepRegistry DEF SInv
<1>3. ASSUME NEW g \in GrantIds, RevokeToken(g) \/ OwnerRevokesGrant(g)
      PROVE  IInv' /\ ConsentInv'
  <2> DEFINE xs == ConsentsOf({g})
  <2>1. IInv' /\ GrantsShrink /\ grants'[g] = NoGrant
    <3>1. CASE RevokeToken(g)
      <4>1. Dropped({g}) /\ UNCHANGED <<now, serial, answered, reused, defaults>>
        BY <3>1 DEF RevokeToken
      <4>2. grants'[g] = NoGrant
        BY <4>1 DEF Dropped
      <4> QED
        BY <1>1, <4>1, <4>2, DroppedKeepsIInv DEF SInv
    <3>2. CASE OwnerRevokesGrant(g)
      <4>1. RevokeGrant(g)
        BY <3>2 DEF OwnerRevokesGrant
      <4>2. grants'[g] = NoGrant
        BY <4>1 DEF RevokeGrant, Deleted
      <4> QED
        BY <4>1, <4>2, StoreStepFacts DEF SInv
    <3> QED
      BY <1>3, <3>1, <3>2
  <2>2. /\ flow' = flow \/ flow' = PurgedFlow
        /\ TakenBack(xs) /\ UNCHANGED <<callback, origin>>
    BY <1>3 DEF RevokeToken, OwnerRevokesGrant
  <2>3. FlowsEbb
    BY <2>2, EbbFacts DEF SInv, ConsentInv
  <2>4. xs = {origin[g]} \ {NoTx} /\ xs \in SUBSET TxIds
    BY <1>1 DEF ConsentsOf
  <2>5. \A x \in xs : flow'[x].stage = "gone"
    <3>1. \A x \in xs : x \in TxIds /\ flow[x].stage = "gone"
      BY <2>4 DEF SInv, ConsentInv, FlowsBehindGrants
    <3> QED
      BY <2>3, <3>1, EbbKeepsFlow DEF SInv, ConsentInv
  <2>6. \A h \in GrantIds : origin[h] \in xs => grants'[h] = NoGrant
    <3>1. \A h \in GrantIds : origin[h] \in xs => h = g
      BY <2>4 DEF SInv, ConsentInv, ConsentStands
    <3> QED
      BY <2>1, <3>1
  <2> HIDE DEF xs
  <2> QED
    BY <2>1, <2>2, <2>3, <2>4, <2>5, <2>6, TakingBackKeepsConsents DEF SInv
<1>4. ASSUME NEW xs \in SUBSET TxIds, flow' = Ended(xs),
             \A x \in xs : flow[x].stage # "none"
      PROVE  FlowsEbb /\ \A x \in xs : flow'[x].stage = "gone"
  <2>1. FlowsEbb
    BY <1>4, EbbFacts DEF SInv, ConsentInv
  <2>2. ASSUME NEW x \in xs
        PROVE  flow'[x].stage = "gone"
    <3>1. flow'[x] = IF Open(flow[x]) THEN Closed(flow[x]) ELSE PurgedFlow[x]
      BY <1>4 DEF Ended
    <3>2. Open(flow[x]) => flow'[x].stage = "gone"
      BY <1>1, <3>1, ClosedFacts
    <3>3. ~Open(flow[x]) => flow[x].stage = "gone" /\ flow'[x] = flow[x]
      BY <1>1, <1>4, <3>1 DEF Open, PurgedFlow
    <3> QED
      BY <3>2, <3>3
  <2> QED
    BY <2>1, <2>2
<1>5. ASSUME NEW c \in Clients, RevokeClientByOwner(c)
      PROVE  IInv' /\ ConsentInv'
  <2> DEFINE gs == {g \in GrantIds : PrunedGrants[g].client = c}
  <2>1. /\ flow' = Ended(FlowsOf(c)) /\ Dropped(gs) /\ TakenBack(FlowsOf(c))
        /\ UNCHANGED <<now, serial, answered, reused, callback, origin>>
        /\ defaults' = [defaults EXCEPT ![c] = NoDefault]
    BY <1>5 DEF RevokeClientByOwner
  <2>2. defaults' \in [Clients -> Profiles \cup {NoDefault}] /\ gs \in SUBSET GrantIds
    BY <1>1, <2>1
  <2>3. IInv' /\ GrantsShrink
    BY <2>1, <2>2, DroppedKeepsIInv DEF SInv
  <2>4. /\ FlowsOf(c) \in SUBSET TxIds /\ \A x \in FlowsOf(c) : flow[x].stage # "none"
        /\ \A x \in FlowsOf(c) : flow[x].client = c
    BY DEF FlowsOf
  <2>5. FlowsEbb /\ \A x \in FlowsOf(c) : flow'[x].stage = "gone"
    BY <1>4, <2>1, <2>4
  <2>6. ASSUME NEW g \in GrantIds, origin[g] \in FlowsOf(c)
        PROVE  grants'[g] = NoGrant
    <3>1. grants'[g] = IF g \in gs THEN NoGrant ELSE PrunedGrants[g]
      BY <2>1 DEF Dropped
    <3>2. grants[g] # NoGrant => grants[g].client = c
      BY <2>4, <2>6 DEF SInv, ConsentInv, ConsentStands
    <3>3. PrunedGrants[g] = NoGrant \/ PrunedGrants[g].client = c
      BY <3>2, PrunedFacts DEF SInv, Alive
    <3> QED
      BY <3>1, <3>3
  <2> QED
    BY <2>1, <2>3, <2>4, <2>5, <2>6, TakingBackKeepsConsents DEF SInv
<1>6. ASSUME RevokeAllByOwner
      PROVE  IInv' /\ ConsentInv'
  <2> DEFINE xs == {x \in TxIds : flow[x].stage # "none"}
  <2>1. /\ flow' = Ended(TxIds) /\ Dropped(GrantIds) /\ TakenBack(xs)
        /\ UNCHANGED <<now, serial, answered, reused, callback, origin>>
        /\ defaults' \in [Clients -> Profiles \cup {NoDefault}] /\ xs \in SUBSET TxIds
    BY <1>6 DEF RevokeAllByOwner
  <2>2. IInv' /\ GrantsShrink /\ \A g \in GrantIds : grants'[g] = NoGrant
    BY <2>1, DroppedKeepsIInv DEF SInv, Dropped
  <2>3. FlowsEbb
    BY <2>1, EbbFacts DEF SInv, ConsentInv
  <2>4. ASSUME NEW x \in xs
        PROVE  flow'[x].stage = "gone"
    <3>1. flow'[x] = IF Open(flow[x]) THEN Closed(flow[x]) ELSE PurgedFlow[x]
      BY <2>1 DEF Ended
    <3>2. Open(flow[x]) => flow'[x].stage = "gone"
      BY <1>1, <3>1, ClosedFacts
    <3>3. ~Open(flow[x]) => flow[x].stage = "gone" /\ flow'[x] = flow[x]
      BY <1>1, <2>4, <3>1 DEF Open, PurgedFlow
    <3> QED
      BY <3>2, <3>3
  <2> QED
    BY <2>1, <2>2, <2>3, <2>4, TakingBackKeepsConsents DEF SInv
<1> QED
  BY <1>2, <1>3, <1>5, <1>6 DEF SInv

LEMMA ServiceStepKeepsSInv ==
  ASSUME SInv, [ServiceNext]_vars
  PROVE  SInv'
<1>1. ASSUME NEW x \in TxIds, NEW c \in Clients, NEW profile \in Profiles,
             NEW proposes \in BOOLEAN, BeginAuthorization(x, c, profile, proposes)
      PROVE  SInv'
  <2>1. Look /\ lru' = MovedToEnd(c) /\ UNCHANGED <<disk, touched, drawn>>
    BY <1>1 DEF BeginAuthorization
  <2>2. IInv'
    BY <2>1, StoreStepFacts DEF SInv
  <2>3. RegistryInv'
    BY <2>1, OthersKeepRegistry DEF SInv
  <2>4. ConsentInv'
    BY <1>1, BeginKeepsConsents DEF SInv
  <2> QED
    BY <2>2, <2>3, <2>4 DEF SInv
<1>2. ASSUME NEW x \in TxIds, NEW profile \in Profiles, ApproveAuthorization(x, profile)
      PROVE  SInv'
  <2>1. Look /\ UNCHANGED <<lru, disk, touched, drawn>>
    BY <1>2 DEF ApproveAuthorization
  <2>2. IInv'
    BY <2>1, StoreStepFacts DEF SInv
  <2>3. RegistryInv'
    BY <2>1, OthersKeepRegistry DEF SInv
  <2>4. ConsentInv'
    BY <1>2, ApproveKeepsConsents DEF SInv
  <2> QED
    BY <2>2, <2>3, <2>4 DEF SInv
<1>3. ASSUME NEW x \in TxIds, NEW g \in GrantIds, ExchangeAuthorizationCode(x, g)
      PROVE  SInv'
  <2>1. UNCHANGED <<lru, disk, touched, drawn>>
    BY <1>3 DEF ExchangeAuthorizationCode
  <2>2. RegistryInv'
    BY <2>1, OthersKeepRegistry DEF SInv
  <2> QED
    BY <1>3, <2>2, ExchangeKeepsConsents DEF SInv
<1> QED
  BY <1>1, <1>2, <1>3, QuietCallsKeepSInv, RevocationsKeepSInv DEF ServiceNext

THEOREM ServiceInvariant == ServiceSpec => []SInv
<1>1. ServiceInit => SInv
  BY InitSInv
<1>2. SInv /\ [ServiceNext]_vars => SInv'
  BY ServiceStepKeepsSInv
<1> QED
  BY <1>1, <1>2, PTL DEF ServiceSpec

\* A registry that lists each client once has as many clients as places.
LEMMA ListingCounts ==
  ASSUME NEW s, Listing(s)
  PROVE  Cardinality(ToSet(s)) = Len(s)
<1>1. Len(s) \in Nat /\ DOMAIN s = 1..Len(s) /\ s \in [1..Len(s) -> Dynamic]
  BY LenProperties DEF Listing
<1>2. ToSet(s) = {s[i] : i \in 1..Len(s)}
  BY <1>1 DEF ToSet
<1>3. s \in Bijection(1..Len(s), ToSet(s))
  BY <1>1, <1>2, Zenon DEF Bijection, Injection, Surjection, IsInjective, Listing
<1> QED
  BY <1>1, <1>3, FS_CountingElements DEF ExistsBijection

\* The service keeps its types, and both registries stay loadable: each client
\* is listed once, within the limit.
THEOREM RegistriesStayLoadable == ServiceSpec => []ServiceTypeOK
<1>1. SInv => ServiceTypeOK
  <2> SUFFICES ASSUME SInv PROVE ServiceTypeOK
    OBVIOUS
  <2>1. \A s \in {lru, disk} : Listing(s)
    BY DEF SInv, RegistryInv, RegistryShape
  <2>2. \A s \in {lru, disk} :
          s \in Seq(Dynamic) /\ Len(s) <= MaxDynamic /\ Cardinality(ToSet(s)) = Len(s)
    BY <2>1, ListingCounts DEF Listing
  <2> QED
    BY <2>2 DEF SInv, IInv, RegistryInv, RegistryShape, ConsentInv, FlowShape, ServiceTypeOK
<1> QED
  BY <1>1, ServiceInvariant, PTL

\* Every code and every grant rests on a consent that stands.
THEOREM NothingWithoutConsent == ServiceSpec => []ConsentStands
<1>1. SInv => ConsentStands
  BY DEF SInv, ConsentInv
<1> QED
  BY <1>1, ServiceInvariant, PTL

\* File and memory agree on every client the owner did not touch directly.
THEOREM RegistrySurvivesRestart == ServiceSpec => []RegistryDurable
<1>1. SInv => RegistryDurable
  BY DEF SInv, RegistryInv
<1> QED
  BY <1>1, ServiceInvariant, PTL

\* What the store promises of its families holds behind the service too, whose
\* revocations prune as they drop.
THEOREM FamiliesHoldBehindTheService ==
  ServiceSpec => [](TypeOK /\ OneLiveRefresh /\ CeilingHolds /\ ReusedFamilyIsGone)
<1>1. SInv => TypeOK /\ OneLiveRefresh /\ CeilingHolds /\ ReusedFamilyIsGone
  BY DEF SInv, IInv
<1> QED
  BY <1>1, ServiceInvariant, PTL

-----------------------------------------------------------------------------
(* What a step forgets.                                                    *)

\* What NoActiveClientDropped says of one step.
DropsIdleOnly == \A c \in ToSet(lru) \ ToSet(lru') : Restart \/ ~HasActiveState(c)'

\* A look does not make a client active.
LEMMA LookingActivatesNobody ==
  ASSUME SInv, Look, flow' = PurgedFlow, NEW c, ~HasActiveState(c)
  PROVE  ~HasActiveState(c)'
<1>1. /\ flow \in [TxIds -> FlowRow] /\ IInv
  BY DEF SInv, ConsentInv, FlowShape
<1>2. ASSUME NEW x \in TxIds, Open(PurgedFlow'[x]), PurgedFlow'[x].client = c
      PROVE  FALSE
  <2>1. PurgedFlow'[x] = IF Open(flow'[x]) /\ flow'[x].expires <= now'
                         THEN Closed(flow'[x]) ELSE flow'[x]
    BY DEF PurgedFlow
  <2>2. flow'[x] \in FlowRow /\ flow'[x] = PurgedFlow[x]
    BY PurgedFlowFacts DEF SInv, ConsentInv
  <2>3. PurgedFlow'[x] = PurgedFlow[x]
    BY <1>2, <2>1, <2>2, ClosedFacts DEF Open
  <2> QED
    BY <1>2, <2>3 DEF HasActiveState, Open
<1>3. ASSUME NEW t \in PrunedTokens', grants'[t.grant].client = c
      PROVE  FALSE
  <2>1. t \in PrunedTokens /\ grants' = PrunedGrants
    BY <1>3 DEF Look, Pruned, PrunedTokens
  <2>2. grants'[t.grant] = grants[t.grant]
    BY <1>1, <2>1, PrunedFacts
  <2> QED
    BY <1>3, <2>1, <2>2 DEF HasActiveState
<1> QED
  BY <1>2, <1>3 DEF HasActiveState, Open

\* The client the owner revokes is left with nothing.
LEMMA RevokedIsIdle ==
  ASSUME SInv, NEW c \in Clients, RevokeClientByOwner(c)
  PROVE  ~HasActiveState(c)'
<1>1. /\ flow \in [TxIds -> FlowRow] /\ IInv
  BY DEF SInv, ConsentInv, FlowShape
<1>2. /\ flow' = Ended(FlowsOf(c))
      /\ tokens' = {t \in PrunedTokens :
                      t.grant \notin {g \in GrantIds : PrunedGrants[g].client = c}}
      /\ grants' = [g \in GrantIds |-> IF g \in {h \in GrantIds : PrunedGrants[h].client = c}
                                       THEN NoGrant ELSE PrunedGrants[g]]
  BY DEF RevokeClientByOwner, Dropped, Cascade
<1>3. ASSUME NEW x \in TxIds, Open(PurgedFlow'[x]), PurgedFlow'[x].client = c
      PROVE  FALSE
  <2>1. /\ flow' \in [TxIds -> FlowRow]
        /\ flow'[x].client = flow[x].client
        /\ flow'[x].stage # "gone" => flow'[x] = flow[x]
    <3>1. FlowsOf(c) \in SUBSET TxIds
      BY DEF FlowsOf
    <3>2. FlowsEbb
      BY <1>2, <3>1, EbbFacts DEF SInv, ConsentInv
    <3> QED
      BY <3>2, EbbKeepsFlow DEF SInv, ConsentInv
  <2>2. PurgedFlow'[x] = IF Open(flow'[x]) /\ flow'[x].expires <= now'
                         THEN Closed(flow'[x]) ELSE flow'[x]
    BY DEF PurgedFlow
  <2>3. PurgedFlow'[x] = flow'[x] /\ Open(flow'[x])
    BY <1>3, <2>1, <2>2, ClosedFacts DEF Open
  <2>4. flow[x].client = c /\ Open(flow[x]) /\ flow'[x] = flow[x]
    BY <1>3, <2>1, <2>3 DEF Open
  <2>5. x \in FlowsOf(c)
    BY <2>4 DEF FlowsOf, Open
  <2>6. flow'[x] = Closed(flow[x])
    BY <1>2, <2>4, <2>5 DEF Ended
  <2> QED
    BY <1>1, <2>3, <2>6, ClosedFacts DEF Open
<1>4. ASSUME NEW t \in PrunedTokens', grants'[t.grant].client = c
      PROVE  FALSE
  <2>1. t \in tokens'
    BY <1>4 DEF PrunedTokens
  <2>2. /\ t \in PrunedTokens /\ t.grant \in GrantIds /\ PrunedGrants[t.grant].client # c
    BY <1>1, <1>2, <2>1, PrunedFacts
  <2>3. grants'[t.grant] = PrunedGrants[t.grant]
    BY <1>2, <2>2
  <2> QED
    BY <1>4, <2>2, <2>3
<1> QED
  BY <1>3, <1>4 DEF HasActiveState, Open

\* When the owner revokes everything nobody is left with anything.
LEMMA AllRevokedAreIdle ==
  ASSUME SInv, RevokeAllByOwner, NEW c
  PROVE  ~HasActiveState(c)'
<1>1. /\ flow \in [TxIds -> FlowRow] /\ IInv
  BY DEF SInv, ConsentInv, FlowShape
<1>2. \A t \in PrunedTokens' : FALSE
  <2>1. tokens' = {t \in PrunedTokens : t.grant \notin GrantIds}
    BY DEF RevokeAllByOwner, Dropped, Cascade
  <2> QED
    BY <1>1, <2>1, PrunedFacts DEF PrunedTokens
<1>3. ASSUME NEW x \in TxIds, Open(PurgedFlow'[x])
      PROVE  FALSE
  <2>1. flow'[x] = IF Open(flow[x]) THEN Closed(flow[x]) ELSE PurgedFlow[x]
    BY DEF RevokeAllByOwner, Ended
  <2>2. flow'[x] \in FlowRow /\ ~Open(flow'[x])
    BY <1>1, <2>1, ClosedFacts DEF Open, PurgedFlow
  <2>3. PurgedFlow'[x] = flow'[x]
    BY <2>2 DEF PurgedFlow
  <2> QED
    BY <1>3, <2>2, <2>3
<1> QED
  BY <1>2, <1>3 DEF HasActiveState, Open

LEMMA StepDropsIdleOnly ==
  ASSUME SInv, ServiceNext
  PROVE  DropsIdleOnly
<1>1. Listing(lru) /\ Listing(disk)
  BY DEF SInv, RegistryInv, RegistryShape
<1>2. ASSUME ToSet(lru) \subseteq ToSet(lru')
      PROVE  DropsIdleOnly
  BY <1>2 DEF DropsIdleOnly
<1>3. ASSUME Restart
      PROVE  DropsIdleOnly
  BY <1>3 DEF DropsIdleOnly
<1>4. ASSUME NEW c \in Dynamic, NEW saved \in BOOLEAN, RegisterClient(c, saved)
      PROVE  DropsIdleOnly
  <2>1. /\ Listing(Remaining) /\ Len(Remaining) < MaxDynamic
        /\ ToSet(Remaining) \subseteq ToSet(lru)
        /\ \A d \in ToSet(lru) \ ToSet(Remaining) : MayEvict(d)
    BY <1>1, <1>4, RemainingFacts DEF RegisterClient
  <2>2. c \notin ToSet(Remaining)
    BY <1>4, <2>1 DEF RegisterClient, SInv, RegistryInv, RegistryShape
  <2>3. ToSet(Append(Remaining, c)) = ToSet(Remaining) \cup {c}
    BY <2>1, <2>2, ListingAppend
  <2>4. Look /\ flow' = PurgedFlow /\ lru' \in {lru, Append(Remaining, c)}
    BY <1>4 DEF RegisterClient, Swapped
  <2>5. \A d \in ToSet(lru) \ ToSet(lru') : ~HasActiveState(d)
    BY <2>1, <2>3, <2>4 DEF MayEvict
  <2>6. \A d \in ToSet(lru) \ ToSet(lru') : ~HasActiveState(d)'
    BY <2>4, <2>5, LookingActivatesNobody
  <2> QED
    BY <2>6 DEF DropsIdleOnly
<1>5. ASSUME ReloadClientsByOwner
      PROVE  DropsIdleOnly
  <2>1. Look /\ flow' = PurgedFlow
        /\ \A d \in ToSet(lru) \ ToSet(lru') : ~HasActiveState(d)
    BY <1>5 DEF ReloadClientsByOwner, MayReload
  <2>2. \A d \in ToSet(lru) \ ToSet(lru') : ~HasActiveState(d)'
    BY <2>1, LookingActivatesNobody
  <2> QED
    BY <2>2 DEF DropsIdleOnly
<1>6. ASSUME NEW c \in Clients, RevokeClientByOwner(c)
      PROVE  DropsIdleOnly
  <2>1. ToSet(lru') = ToSet(lru) \ {c}
    BY <1>1, <1>6, ListingWithout DEF RevokeClientByOwner
  <2>2. \A d \in ToSet(lru) \ ToSet(lru') : d = c
    BY <2>1
  <2> QED
    BY <1>6, <2>2, RevokedIsIdle DEF DropsIdleOnly
<1>7. ASSUME RevokeAllByOwner
      PROVE  DropsIdleOnly
  BY <1>7, AllRevokedAreIdle DEF DropsIdleOnly
<1>8. ASSUME NEW c \in Clients, lru' = MovedToEnd(c)
      PROVE  ToSet(lru) \subseteq ToSet(lru')
  BY <1>1, <1>8, MovedFacts
<1>9. \/ Restart \/ ReloadClientsByOwner \/ RevokeAllByOwner
      \/ \E c \in Dynamic, saved \in BOOLEAN : RegisterClient(c, saved)
      \/ \E c \in Clients : RevokeClientByOwner(c)
      \/ \E c \in Clients : lru' = MovedToEnd(c)
      \/ lru' = lru
  <2>1. ASSUME NEW c \in Dynamic, EditRegistry(c) \/ RevokeClientFails(c)
        PROVE  lru' = lru
    BY <2>1 DEF EditRegistry, RevokeClientFails
  <2>2. ASSUME NEW c \in Clients, BeginRefused(c)
        PROVE  lru' = MovedToEnd(c)
    BY <2>2 DEF BeginRefused
  <2>3. ASSUME NEW x \in TxIds, NEW c \in Clients, NEW profile \in Profiles,
               NEW proposes \in BOOLEAN, BeginAuthorization(x, c, profile, proposes)
        PROVE  lru' = MovedToEnd(c)
    BY <2>3 DEF BeginAuthorization
  <2>4. ASSUME NEW x \in TxIds, \/ \E profile \in Profiles : ApproveAuthorization(x, profile)
                                \/ DenyAuthorization(x)
                                \/ \E g \in GrantIds : ExchangeAuthorizationCode(x, g)
        PROVE  lru' = lru
    BY <2>4, Zenon DEF ApproveAuthorization, DenyAuthorization, ExchangeAuthorizationCode
  <2>5. ASSUME NEW g \in GrantIds, RevokeToken(g) \/ OwnerRevokesGrant(g) \/ RestrictConnection(g)
        PROVE  lru' = lru
    BY <2>5 DEF RevokeToken, OwnerRevokesGrant, RestrictConnection, serviceVars
  <2>6. ASSUME ExchangeRefreshToken \/ RevokeAllFails \/ Purge \/ Time
        PROVE  lru' = lru
    BY <2>6 DEF ExchangeRefreshToken, RevokeAllFails, Purge, Time, serviceVars
  <2> QED
    BY <2>1, <2>2, <2>3, <2>4, <2>5, <2>6 DEF ServiceNext
<1> QED
  BY <1>2, <1>3, <1>4, <1>5, <1>6, <1>7, <1>8, <1>9

\* Only a restart forgets a client that still has a transaction, a code or a
\* live token.
THEOREM ActiveClientsAreKept == ServiceSpec => NoActiveClientDropped
<1>1. SInv /\ [ServiceNext]_vars => [DropsIdleOnly]_vars
  BY StepDropsIdleOnly
<1> QED
  BY <1>1, ServiceInvariant, PTL DEF ServiceSpec, NoActiveClientDropped, DropsIdleOnly

\* The service, too, answers a refresh token with one and the same pair.
THEOREM ServiceAnswersAreRepeated == ServiceSpec => AnswersRepeat
<1>1. SInv /\ [ServiceNext]_vars => [RepeatsAnswer]_grantVars
  <2> SUFFICES ASSUME SInv, ServiceNext PROVE RepeatsAnswer
    BY DEF vars
  <2>1. ASSUME answered' = answered
        PROVE  RepeatsAnswer
    BY <2>1 DEF RepeatsAnswer
  <2>2. ASSUME NEW h \in history, Retry(h)
        PROVE  RepeatsAnswer
    BY <2>2, RetryRepeats DEF SInv
  <2>3. ASSUME NEW t \in tokens, Rotate(t)
        PROVE  RepeatsAnswer
    BY <2>3, RotateRepeats DEF SInv
  <2>4. \/ answered' = answered
        \/ \E h \in history : Retry(h)
        \/ \E t \in tokens : Rotate(t)
    <3>1. ASSUME NEW c \in Dynamic, \/ EditRegistry(c) \/ RevokeClientFails(c)
                                    \/ \E saved \in BOOLEAN : RegisterClient(c, saved)
          PROVE  answered' = answered
      BY <3>1 DEF EditRegistry, RevokeClientFails, RegisterClient, Look, grantVars
    <3>2. ASSUME NEW c \in Clients, BeginRefused(c) \/ RevokeClientByOwner(c)
          PROVE  answered' = answered
      BY <3>2 DEF BeginRefused, RevokeClientByOwner, Look
    <3>3. ASSUME NEW x \in TxIds,
                 \/ \E c \in Clients, profile \in Profiles, proposes \in BOOLEAN :
                      BeginAuthorization(x, c, profile, proposes)
                 \/ \E profile \in Profiles : ApproveAuthorization(x, profile)
                 \/ DenyAuthorization(x)
                 \/ \E g \in GrantIds : ExchangeAuthorizationCode(x, g)
          PROVE  answered' = answered
      BY <3>3, Zenon DEF BeginAuthorization, ApproveAuthorization, DenyAuthorization,
                         ExchangeAuthorizationCode, Look, Issue
    <3>4. ASSUME NEW g \in GrantIds,
                 RevokeToken(g) \/ OwnerRevokesGrant(g) \/ RestrictConnection(g)
          PROVE  answered' = answered
      BY <3>4 DEF RevokeToken, OwnerRevokesGrant, RevokeGrant, RestrictConnection,
                  RestrictByAccessToken
    <3>5. ASSUME RevokeAllByOwner \/ RevokeAllFails \/ ReloadClientsByOwner \/ Restart
                 \/ Purge \/ Time
          PROVE  answered' = answered
      BY <3>5 DEF RevokeAllByOwner, RevokeAllFails, ReloadClientsByOwner, Restart, Purge, Time,
                  Tick, Look, grantVars
    <3>6. ASSUME NEW h \in history, Reuse(h)
          PROVE  answered' = answered
      BY <3>6 DEF Reuse
    <3> QED
      BY <3>1, <3>2, <3>3, <3>4, <3>5, <3>6 DEF ServiceNext, ExchangeRefreshToken
  <2> QED
    BY <2>1, <2>2, <2>3, <2>4
<1> QED
  BY <1>1, ServiceInvariant, PTL DEF ServiceSpec, AnswersRepeat, RepeatsAnswer

=============================================================================
