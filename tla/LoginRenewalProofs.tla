---- MODULE LoginRenewalProofs ----
(***************************************************************************)
(* What holds of LoginRenewal for any readers, timers, number of logins    *)
(* and faults.  `Kernel` is the inductive invariant; each of its parts has *)
(* a lemma of its own, by cases on the disjuncts of Next.                  *)
(***************************************************************************)
EXTENDS LoginRenewal, FiniteSetTheorems, TLAPS

\* A caller past the lock carries the login it read, one with an answer the new one.
Carries ==
  \A c \in Callers : /\ pc[c] \in Critical => sess[c] # None
                     /\ pc[c] = "answered" => got[c] # None

\* The failures of an exchange, whatever they were.
ExchangeFails(c) == pc[c] \in Exchanging /\ \E p, a \in BOOLEAN : Fails(c, p, a)

\* Ways to fail share one shape.
LEMMA FailuresAreAlike ==
  ASSUME NEW c, GrantDead(c) \/ Outage(c) \/ Unclear(c) \/ GateRefuses(c) \/ Unreadable(c)
                \/ NothingToReplace(c)
  PROVE  ExchangeFails(c)
BY DEF GrantDead, Outage, Unclear, GateRefuses, Unreadable, NothingToReplace, ExchangeFails,
       Exchanging

\* A step, with the failures under one name.
LEMMA Steps ==
  ASSUME Next
  PROVE \/ \E a \in Agents : StartAsks(a) \/ TurnFails(a) \/ ReaderParks(a) \/ Resume(a)
                             \/ StartDropped(a)
        \/ \E c \in Timers : TimerFires(c)
        \/ \E c \in Callers : Enter(c) \/ ServerRenews(c) \/ Store(c) \/ ExchangeFails(c)
                              \/ Warn(c) \/ Forgive(c) \/ Arm(c) \/ Granted(c) \/ Refused(c)
        \/ SignInStores \/ SignInForgets \/ SignInArms \/ SignInAnswers
        \/ SignInDropped \/ TimePasses \/ FloorPasses \/ LoginDeleted \/ Restart \/ BootArms
<1>1. ASSUME NEW c \in Callers, Exchanges(c)
      PROVE  ServerRenews(c) \/ Store(c) \/ ExchangeFails(c)
  BY <1>1, FailuresAreAlike DEF Exchanges
<1> QED BY <1>1 DEF Next, Asks, Answers, SignsIn, Environment

-----------------------------------------------------------------------------
(* Logins *)

\* The fields of a login, and the login a moment later.
LEMMA LoginFields ==
  ASSUME NEW l \in Login
  PROVE  /\ l.gen \in Gens /\ l.by \in Gens /\ l.rt \in Gens /\ l.life \in Lives
         /\ Ages(l) \in Login
         /\ Ages(l).gen = l.gen /\ Ages(l).by = l.by /\ Ages(l).rt = l.rt
         /\ Ages(l).life = IF l.life = "fresh" THEN "near" ELSE "lapsed"
BY DEF Login, Lives, Ages

\* What the server and a sign-in make is a login.
LEMMA LoginMade ==
  ASSUME NEW g \in Gens, NEW b \in Gens, NEW r \in Gens, NEW life \in Lives
  PROVE  [gen |-> g, by |-> b, life |-> life, rt |-> r] \in Login
BY DEF Login

\* Nothing that is stored is the placeholder, and a caller is no two things.
LEMMA NoneIsNone ==
  /\ None \notin Login
  /\ Gens \subseteq Nat \ {0} /\ MaxLogins \in Nat
BY RenewalAssumption DEF Gens

-----------------------------------------------------------------------------
(* Types *)

LEMMA ParkedTyped == Parked \in [st : {"parked", "up", "needs_auth"}, on : 0..MaxLogins]
BY RenewalAssumption DEF Parked

LEMMA ZeroIsNoLogin == 0 \in 0..MaxLogins /\ 0 \in 0..MaxAttempts
BY RenewalAssumption

LEMMA InitTypes == Init => TypeOK /\ Carries
<1> SUFFICES ASSUME Init PROVE TypeOK /\ Carries
  OBVIOUS
<1>1. /\ agent \in [Agents -> [st : {"parked", "up", "needs_auth"}, on : 0..MaxLogins]]
      /\ attempts \in 0..MaxAttempts /\ issued \in 0..MaxLogins
      /\ forced \in [Callers -> 0..MaxLogins]
  BY ParkedTyped, ZeroIsNoLogin DEF Init
<1>3. TypeOK
  BY <1>1 DEF Init, TypeOK
<1>2. Carries
  BY DEF Init, Carries, Critical, Exchanging
<1> QED BY <1>2, <1>3

\* A schedule that is made leaves a typed record of it.
LEMMA ArmTypes ==
  ASSUME TypeOK, NEW l \in Login, ArmRenewal(l)
  PROVE  /\ failure' \in [kind : {"permanent", "transient", "short"}, of : Gens] \cup {None}
         /\ timer' \in {"none", "armed", "missed"}
<1>1. l.by \in Gens BY LoginFields
<1>2. [kind |-> "short", of |-> l.by] \in [kind : {"permanent", "transient", "short"}, of : Gens]
  BY <1>1
<1> QED BY <1>2 DEF ArmRenewal, TypeOK

LEMMA TypesKept ==
  ASSUME TypeOK, Carries, [Next]_vars
  PROVE  TypeOK' /\ Carries'
<1> USE NoneIsNone
<1>0. CASE UNCHANGED vars
  <2>1. TypeOK' BY <1>0 DEF vars, TypeOK, Login
  <2>2. Carries' BY <1>0 DEF vars, Carries
  <2> QED BY <2>1, <2>2
<1> USE DEF server, people, record, Goes, Critical, Exchanging, Callers
<1>1. ASSUME NEW a \in Agents, StartAsks(a) PROVE TypeOK' /\ Carries'
  <2>1. agent' \in [Agents -> [st : {"parked", "up", "needs_auth"}, on : 0..MaxLogins]]
    BY <1>1, ZeroIsNoLogin DEF StartAsks, NeedsAuth, TypeOK
  <2>2. \/ pc' = pc
        \/ pc' = [pc EXCEPT ![a] = "wait"]
    BY <1>1 DEF StartAsks
  <2>3. TypeOK' BY <1>1, <2>1, <2>2, ZeroIsNoLogin DEF StartAsks, TypeOK
  <2>4. Carries' BY <1>1, <2>2 DEF StartAsks, TypeOK, Carries
  <2> QED BY <2>3, <2>4
<1>2. ASSUME NEW a \in Agents, TurnFails(a) PROVE TypeOK' /\ Carries'
  <2>1. vault # None => vault.gen \in Gens /\ vault.by \in Gens BY LoginFields DEF TypeOK
  <2>2. agent' \in [Agents -> [st : {"parked", "up", "needs_auth"}, on : 0..MaxLogins]]
    BY <1>2, ParkedTyped, ZeroIsNoLogin DEF TurnFails, Recycles, Parks, NeedsAuth, TypeOK
  <2>3. \/ pc' = pc /\ forced' = forced
        \/ /\ vault # None /\ forced' = [forced EXCEPT ![a] = vault.gen]
           /\ pc' = [pc EXCEPT ![a] = "wait"]
    BY <1>2 DEF TurnFails
  <2>4. TypeOK' BY <1>2, <2>1, <2>2, <2>3 DEF TurnFails, TypeOK, Gens
  <2>5. Carries' BY <1>2, <2>3 DEF TurnFails, TypeOK, Carries
  <2> QED BY <2>4, <2>5
<1>3. ASSUME NEW a \in Agents, ReaderParks(a) PROVE TypeOK' /\ Carries'
  BY <1>3, ParkedTyped DEF ReaderParks, Parks, TypeOK, Carries
<1>4. ASSUME NEW a \in Agents, Resume(a) PROVE TypeOK' /\ Carries'
  BY <1>4, ParkedTyped DEF Resume, Parks, TypeOK, Carries
<1>5. ASSUME NEW a \in Agents, StartDropped(a) PROVE TypeOK' /\ Carries'
  BY <1>5 DEF StartDropped, TypeOK, Carries
<1>6. ASSUME NEW c \in Timers, TimerFires(c) PROVE TypeOK' /\ Carries'
  <2>1. c \in Callers BY DEF Callers
  <2>f. /\ recent' \in BOOLEAN /\ timer' \in {"none", "armed", "missed"} /\ booted' \in BOOLEAN
    BY <1>6 DEF TimerFires, TypeOK
  <2>2. TypeOK' BY <1>6, <2>f, <2>1 DEF TimerFires, TypeOK
  <2>3. Carries' BY <1>6, <2>1 DEF TimerFires, TypeOK, Carries
  <2> QED BY <2>2, <2>3
<1>7. ASSUME NEW c \in Callers, Enter(c) PROVE TypeOK' /\ Carries'
  <2>f. /\ recent' \in BOOLEAN /\ timer' \in {"none", "armed", "missed"} /\ booted' \in BOOLEAN
    BY <1>7 DEF Enter, TypeOK
  <2>1. TypeOK' BY <1>7, <2>f DEF Enter, TypeOK
  <2>2. /\ got' = got
        /\ \/ pc' = [pc EXCEPT ![c] = "refused"] /\ sess' = sess
           \/ sess' = sess /\ pc' = [pc EXCEPT ![c] = "granted"]
           \/ vault # None /\ sess' = [sess EXCEPT ![c] = vault]
              /\ \E to \in {"arming", "exchange"} : pc' = [pc EXCEPT ![c] = to]
    BY <1>7 DEF Enter
  <2>3. Carries' BY <2>2 DEF TypeOK, Carries
  <2> QED BY <2>1, <2>3
<1>8. ASSUME NEW c \in Callers, ServerRenews(c) PROVE TypeOK' /\ Carries'
  <2>1. sess[c] \in Login BY <1>8 DEF ServerRenews, TypeOK, Carries
  <2>2. issued + 1 \in Gens BY <1>8 DEF ServerRenews, TypeOK, Gens
  <2>3. PICK life \in Issues, rotates \in BOOLEAN :
          /\ got' = [got EXCEPT ![c] =
                       [gen |-> issued + 1, by |-> sess[c].by, life |-> life,
                        rt |-> IF rotates THEN issued + 1 ELSE sess[c].rt]]
          /\ spent' = IF rotates THEN spent \cup {sess[c].rt} ELSE spent
    BY <1>8 DEF ServerRenews
  <2>4. [gen |-> issued + 1, by |-> sess[c].by, life |-> life,
         rt |-> IF rotates THEN issued + 1 ELSE sess[c].rt] \in Login
    BY <2>1, <2>2, LoginFields, LoginMade, RenewalAssumption DEF Lives
  <2>5. sess[c].rt \in Gens BY <2>1, LoginFields
  <2>6. spent' \subseteq Gens BY <2>3, <2>5 DEF TypeOK
  <2>7. got' \in [Callers -> Login \cup {None}] /\ got'[c] # None BY <2>3, <2>4 DEF TypeOK
  <2>8. issued' \in 0..MaxLogins BY <1>8 DEF ServerRenews, TypeOK
  <2>9. /\ pc' = [pc EXCEPT ![c] = "answered"]
        /\ UNCHANGED <<vault, forced, sess, record, recent, timer, people, agent, booted, alone>>
    BY <1>8 DEF ServerRenews
  <2>10. TypeOK' BY <2>6, <2>7, <2>8, <2>9 DEF TypeOK
  <2>11. Carries' BY <2>1, <2>3, <2>7, <2>9 DEF Carries, TypeOK
  <2> QED BY <2>10, <2>11
<1>9. ASSUME NEW c \in Callers, Store(c) PROVE TypeOK' /\ Carries'
  BY <1>9 DEF Store, TypeOK, Carries
<1>10. ASSUME NEW c \in Callers, ExchangeFails(c) PROVE TypeOK' /\ Carries'
  <2>1. sess[c].by \in Gens BY <1>10, LoginFields DEF ExchangeFails, TypeOK, Carries
  <2>2. Tries \in 0..MaxAttempts BY RenewalAssumption DEF Tries, TypeOK
  <2> QED BY <1>10, <2>1, <2>2 DEF ExchangeFails, Fails, TypeOK, Carries
<1>11. ASSUME NEW c \in Callers, Warn(c) PROVE TypeOK' /\ Carries'
  BY <1>11 DEF Warn, Usable, TypeOK, Carries
<1>12. ASSUME NEW c \in Callers, Forgive(c) PROVE TypeOK' /\ Carries'
  <2>f. /\ recent' \in BOOLEAN /\ timer' \in {"none", "armed", "missed"} /\ booted' \in BOOLEAN
    BY <1>12 DEF Forgive, TypeOK
  <2>1. TypeOK' BY <1>12, <2>f, RenewalAssumption DEF Forgive, TypeOK
  <2>2. Carries' BY <1>12 DEF Forgive, TypeOK, Carries
  <2> QED BY <2>1, <2>2
<1>13. ASSUME NEW c \in Callers, Arm(c) PROVE TypeOK' /\ Carries'
  <2>1. sess[c] \in Login BY <1>13 DEF Arm, TypeOK, Carries
  <2>2. ArmRenewal(sess[c]) BY <1>13 DEF Arm
  <2> QED BY <1>13, <2>1, <2>2, ArmTypes DEF Arm, TypeOK, Carries
<1>14. ASSUME NEW c \in Callers, Granted(c) PROVE TypeOK' /\ Carries'
  <2>1. vault # None => vault.gen \in Gens BY LoginFields DEF TypeOK
  <2> QED BY <1>14, <2>1, ParkedTyped DEF Granted, Recycles, Parks, TypeOK, Carries, Gens
<1>15. ASSUME NEW c \in Callers, Refused(c) PROVE TypeOK' /\ Carries'
  <2>1. agent' \in [Agents -> [st : {"parked", "up", "needs_auth"}, on : 0..MaxLogins]]
    BY <1>15, ZeroIsNoLogin DEF Refused, NeedsAuth, TypeOK
  <2>2. 0 \in 0..MaxLogins BY ZeroIsNoLogin
  <2>3. TypeOK' BY <1>15, <2>1, <2>2 DEF Refused, TypeOK
  <2>4. Carries' BY <1>15 DEF Refused, TypeOK, Carries
  <2> QED BY <2>3, <2>4
<1>16. CASE SignInStores
  <2>1. issued + 1 \in Gens BY <1>16 DEF SignInStores, TypeOK, Gens
  <2>2. \A life \in Issues : [gen |-> issued + 1, by |-> issued + 1, rt |-> issued + 1,
                              life |-> life] \in Login
    BY <2>1, RenewalAssumption DEF Login, Lives
  <2>3. vault' \in Login BY <1>16, <2>2 DEF SignInStores
  <2> QED BY <1>16, <2>1, <2>3 DEF SignInStores, TypeOK, Carries, Gens
<1>17. CASE SignInForgets
  BY <1>17, RenewalAssumption DEF SignInForgets, TypeOK, Carries
<1>19. CASE SignInArms
  <2>1. vault # None => ArmRenewal(vault) BY <1>19 DEF SignInArms
  <2> QED BY <1>19, <2>1, ArmTypes DEF SignInArms, TypeOK, Carries
<1>20. CASE SignInAnswers BY <1>20 DEF SignInAnswers, TypeOK, Carries
<1>21. CASE SignInDropped BY <1>21 DEF SignInDropped, TypeOK, Carries
<1>22. CASE TimePasses BY <1>22, LoginFields DEF TimePasses, TypeOK, Carries
<1>23. CASE FloorPasses BY <1>23 DEF FloorPasses, TypeOK, Carries
<1>24. CASE LoginDeleted BY <1>24 DEF LoginDeleted, TypeOK, Carries
<1>25. CASE Restart
  <2>1. /\ agent' \in [Agents -> [st : {"parked", "up", "needs_auth"}, on : 0..MaxLogins]]
        /\ attempts' \in 0..MaxAttempts
    <3>1. \A a \in Agents : agent[a] \in [st : {"parked", "up", "needs_auth"}, on : 0..MaxLogins]
      BY DEF TypeOK
    <3> QED BY <1>25, <3>1, ParkedTyped, RenewalAssumption DEF Restart
  <2>f. /\ recent' \in BOOLEAN /\ timer' \in {"none", "armed", "missed"} /\ booted' \in BOOLEAN
    BY <1>25 DEF Restart, TypeOK
  <2>2. TypeOK' BY <1>25, <2>f, <2>1 DEF Restart, TypeOK
  <2>3. Carries' BY <1>25 DEF Restart, Carries
  <2> QED BY <2>2, <2>3
<1>26. CASE BootArms
  <2>1. vault # None => ArmRenewal(vault) BY <1>26 DEF BootArms
  <2> QED BY <1>26, <2>1, ArmTypes DEF BootArms, TypeOK, Carries
<1> QED
  BY <1>0, <1>1, <1>2, <1>3, <1>4, <1>5, <1>6, <1>7, <1>8, <1>9, <1>10, <1>11, <1>12, <1>13,
     <1>14, <1>15, <1>16, <1>17, <1>19, <1>20, <1>21, <1>22, <1>23, <1>24, <1>25, <1>26,
     Steps

\* Every reachable state of the broker is well typed, and the count of failures
\* nobody could read never passes the cap (Broker in refresh.rs).
THEOREM RenewalTypes == Spec => []TypeOK
<1>1. TypeOK /\ Carries /\ [Next]_vars => (TypeOK /\ Carries)'
  BY TypesKept
<1> QED BY InitTypes, <1>1, PTL DEF Spec

-----------------------------------------------------------------------------
(* Where logins come from *)

\* The logins somebody holds.
Stored == ({vault} \cup {sess[c] : c \in Callers} \cup {got[c] : c \in Callers}) \ {None}

\* A step takes a login from where it was, ages it, or makes one: of its own line
\* at a sign-in, of the line it renews at an exchange.
ComeFrom ==
  \/ /\ issued' = issued
     /\ \A l \in Stored' : l \in Stored \/ (vault # None /\ l = Ages(vault))
  \/ /\ issued' = issued + 1
     /\ \E n \in Login :
          /\ n.gen = issued + 1 /\ Stored' \subseteq Stored \cup {n}
          /\ \/ n.by = issued + 1 /\ n.rt = issued + 1
             \/ \E m \in Stored : n.by = m.by /\ n.rt \in {issued + 1, m.rt}

LEMMA LoginsComeFrom ==
  ASSUME TypeOK, Carries, [Next]_vars
  PROVE  ComeFrom
<1> USE NoneIsNone
<1> DEFINE Same == issued' = issued /\ Stored' \subseteq Stored
<1>s. Same => ComeFrom
  BY DEF ComeFrom
<1>0. CASE UNCHANGED vars
  <2>1. Same BY <1>0 DEF vars, server, Stored
  <2> QED BY <2>1, <1>s
<1> USE DEF server, people, record, Critical, Exchanging
<1>1. ASSUME NEW a \in Agents, StartAsks(a) PROVE ComeFrom
  <2>1. Same BY <1>1 DEF StartAsks, Stored
  <2> QED BY <2>1, <1>s
<1>2. ASSUME NEW a \in Agents, TurnFails(a) PROVE ComeFrom
  <2>1. Same BY <1>2 DEF TurnFails, Stored
  <2> QED BY <2>1, <1>s
<1>3. ASSUME NEW a \in Agents, ReaderParks(a) PROVE ComeFrom
  <2>1. Same BY <1>3 DEF ReaderParks, Stored
  <2> QED BY <2>1, <1>s
<1>4. ASSUME NEW a \in Agents, Resume(a) PROVE ComeFrom
  <2>1. Same BY <1>4 DEF Resume, Stored
  <2> QED BY <2>1, <1>s
<1>5. ASSUME NEW a \in Agents, StartDropped(a) PROVE ComeFrom
  <2>1. Same BY <1>5 DEF StartDropped, Stored, TypeOK
  <2> QED BY <2>1, <1>s
<1>6. ASSUME NEW c \in Timers, TimerFires(c) PROVE ComeFrom
  <2>1. Same BY <1>6 DEF TimerFires, Stored
  <2> QED BY <2>1, <1>s
<1>7. ASSUME NEW c \in Callers, Enter(c) PROVE ComeFrom
  <2>1. issued' = issued /\ vault' = vault /\ got' = got /\ sess' \in {sess, [sess EXCEPT ![c] = vault]}
    BY <1>7 DEF Enter
  <2>2. Same BY <2>1 DEF Stored, TypeOK
  <2> QED BY <2>2, <1>s
<1>8. ASSUME NEW c \in Callers, ServerRenews(c) PROVE ComeFrom
  <2>1. sess[c] \in Login /\ sess[c] \in Stored BY <1>8 DEF ServerRenews, Stored, TypeOK, Carries
  <2>2. issued + 1 \in Gens BY <1>8 DEF ServerRenews, TypeOK, Gens
  <2>3. PICK life \in Issues, rotates \in BOOLEAN :
          got' = [got EXCEPT ![c] =
                       [gen |-> issued + 1, by |-> sess[c].by, life |-> life,
                        rt |-> IF rotates THEN issued + 1 ELSE sess[c].rt]]
    BY <1>8 DEF ServerRenews
  <2> DEFINE n == [gen |-> issued + 1, by |-> sess[c].by, life |-> life,
                   rt |-> IF rotates THEN issued + 1 ELSE sess[c].rt]
  <2>4. n \in Login BY <2>1, <2>2, LoginFields, LoginMade, RenewalAssumption DEF Lives
  <2>5. n.gen = issued + 1 /\ n.by = sess[c].by /\ n.rt \in {issued + 1, sess[c].rt}
    OBVIOUS
  <2>6. issued' = issued + 1 /\ vault' = vault /\ sess' = sess BY <1>8 DEF ServerRenews
  <2>7. got' = [got EXCEPT ![c] = n] BY <2>3
  <2> HIDE DEF n
  <2>8. Stored' \subseteq Stored \cup {n} BY <2>6, <2>7 DEF Stored, TypeOK
  <2> QED BY <2>1, <2>4, <2>5, <2>6, <2>8 DEF ComeFrom
<1>9. ASSUME NEW c \in Callers, Store(c) PROVE ComeFrom
  <2>1. /\ issued' = issued /\ vault' \in {vault, got[c]}
        /\ sess' = [sess EXCEPT ![c] = vault'] /\ got' = [got EXCEPT ![c] = None]
    BY <1>9 DEF Store
  <2>2. Same BY <2>1 DEF Stored, TypeOK
  <2> QED BY <2>2, <1>s
<1>10. ASSUME NEW c \in Callers, ExchangeFails(c) PROVE ComeFrom
  <2>1. issued' = issued /\ vault' = vault /\ sess' = sess /\ got' = [got EXCEPT ![c] = None]
    BY <1>10 DEF ExchangeFails, Fails
  <2>2. Same BY <2>1 DEF Stored, TypeOK
  <2> QED BY <2>2, <1>s
<1>11. ASSUME NEW c \in Callers, Warn(c) PROVE ComeFrom
  <2>1. Same BY <1>11 DEF Warn, Stored
  <2> QED BY <2>1, <1>s
<1>12. ASSUME NEW c \in Callers, Forgive(c) PROVE ComeFrom
  <2>1. Same BY <1>12 DEF Forgive, Stored
  <2> QED BY <2>1, <1>s
<1>13. ASSUME NEW c \in Callers, Arm(c) PROVE ComeFrom
  <2>1. Same BY <1>13 DEF Arm, Stored
  <2> QED BY <2>1, <1>s
<1>14. ASSUME NEW c \in Callers, Granted(c) PROVE ComeFrom
  <2>1. Same BY <1>14 DEF Granted, Stored, TypeOK
  <2> QED BY <2>1, <1>s
<1>15. ASSUME NEW c \in Callers, Refused(c) PROVE ComeFrom
  <2>1. Same BY <1>15 DEF Refused, Stored, TypeOK
  <2> QED BY <2>1, <1>s
<1>16. CASE SignInStores
  <2>1. issued + 1 \in Gens BY <1>16 DEF SignInStores, TypeOK, Gens
  <2>2. PICK life \in Issues :
          vault' = [gen |-> issued + 1, by |-> issued + 1, rt |-> issued + 1, life |-> life]
    BY <1>16 DEF SignInStores
  <2> DEFINE n == [gen |-> issued + 1, by |-> issued + 1, rt |-> issued + 1, life |-> life]
  <2>3. n \in Login BY <2>1, RenewalAssumption DEF Login, Lives
  <2>4. n.gen = issued + 1 /\ n.by = issued + 1 /\ n.rt = issued + 1
    OBVIOUS
  <2>5. issued' = issued + 1 /\ vault' = n /\ sess' = sess /\ got' = got BY <1>16, <2>2 DEF SignInStores
  <2> HIDE DEF n
  <2>6. Stored' \subseteq Stored \cup {n} BY <2>5 DEF Stored
  <2> QED BY <2>3, <2>4, <2>5, <2>6 DEF ComeFrom
<1>17. CASE SignInForgets
  <2>1. Same BY <1>17 DEF SignInForgets, Stored
  <2> QED BY <2>1, <1>s
<1>19. CASE SignInArms
  <2>1. Same BY <1>19 DEF SignInArms, Stored
  <2> QED BY <2>1, <1>s
<1>20. CASE SignInAnswers
  <2>1. Same BY <1>20 DEF SignInAnswers, Stored
  <2> QED BY <2>1, <1>s
<1>21. CASE SignInDropped
  <2>1. Same BY <1>21 DEF SignInDropped, Stored
  <2> QED BY <2>1, <1>s
<1>22. CASE TimePasses
  <2>1. issued' = issued /\ vault # None /\ vault' = Ages(vault) /\ sess' = sess /\ got' = got
    BY <1>22 DEF TimePasses
  <2>2. \A l \in Stored' : l \in Stored \/ l = Ages(vault) BY <2>1 DEF Stored
  <2> QED BY <2>1, <2>2 DEF ComeFrom
<1>23. CASE FloorPasses
  <2>1. Same BY <1>23 DEF FloorPasses, Stored
  <2> QED BY <2>1, <1>s
<1>24. CASE LoginDeleted
  <2>1. Same BY <1>24 DEF LoginDeleted, Stored
  <2> QED BY <2>1, <1>s
<1>25. CASE Restart
  <2>1. Same BY <1>25 DEF Restart, Stored
  <2> QED BY <2>1, <1>s
<1>26. CASE BootArms
  <2>1. Same BY <1>26 DEF BootArms, Stored
  <2> QED BY <2>1, <1>s
<1> QED
  BY <1>0, <1>1, <1>2, <1>3, <1>4, <1>5, <1>6, <1>7, <1>8, <1>9, <1>10, <1>11, <1>12,
     <1>13, <1>14, <1>15, <1>16, <1>17, <1>19, <1>20, <1>21, <1>22, <1>23, <1>24,
     <1>25, <1>26, Steps

\* No login and no report of a failure is ahead of the server.
Known ==
  /\ \A l \in Stored : l.gen <= issued /\ l.by <= issued /\ l.rt <= issued
  /\ \A c \in Callers : forced[c] <= issued

\* A refresh token belongs to one line of logins.
OneLine == \A l, m \in Stored : l.rt = m.rt => l.by = m.by

\* Every login somebody holds is one.
LEMMA StoredAreLogins == TypeOK => Stored \subseteq Login
BY DEF TypeOK, Stored

LEMMA LinesKept ==
  ASSUME TypeOK, Carries, Known, OneLine, [Next]_vars
  PROVE  OneLine' /\ \A l \in Stored' : l.gen <= issued' /\ l.by <= issued' /\ l.rt <= issued'
<1>1. /\ \A l \in Stored : l.gen \in Nat /\ l.by \in Nat /\ l.rt \in Nat
      /\ issued \in Nat
  <2>1. \A l \in Stored : l.gen \in Gens /\ l.by \in Gens /\ l.rt \in Gens
    BY StoredAreLogins, LoginFields
  <2>2. issued \in Nat BY NoneIsNone DEF TypeOK
  <2> QED BY <2>1, <2>2, NoneIsNone
<1>2. CASE issued' = issued /\ \A l \in Stored' : l \in Stored \/ (vault # None /\ l = Ages(vault))
  <2>1. vault # None => /\ vault \in Stored
                        /\ Ages(vault).gen = vault.gen /\ Ages(vault).by = vault.by
                        /\ Ages(vault).rt = vault.rt
    BY LoginFields DEF Stored, TypeOK
  <2>2. \A l \in Stored' : \E m \in Stored : l.gen = m.gen /\ l.by = m.by /\ l.rt = m.rt
    BY <1>2, <2>1
  <2> QED BY <1>1, <1>2, <2>2 DEF OneLine, Known
<1>3. ASSUME issued' = issued + 1, NEW n \in Login, n.gen = issued + 1,
             Stored' \subseteq Stored \cup {n},
             \/ n.by = issued + 1 /\ n.rt = issued + 1
             \/ \E m \in Stored : n.by = m.by /\ n.rt \in {issued + 1, m.rt}
      PROVE  OneLine' /\ \A l \in Stored' : l.gen <= issued' /\ l.by <= issued' /\ l.rt <= issued'
  <2>1. \A l \in Stored : l.rt # issued + 1 BY <1>1 DEF Known
  <2>2. \A l \in Stored : l.rt = n.rt => l.by = n.by BY <1>3, <2>1 DEF OneLine
  <2>3. OneLine' BY <1>3, <2>2 DEF OneLine
  <2>4. n.by <= issued + 1 /\ n.rt <= issued + 1 BY <1>1, <1>3 DEF Known
  <2>5. ASSUME NEW l \in Stored'
        PROVE  l.gen <= issued' /\ l.by <= issued' /\ l.rt <= issued'
    <3>1. CASE l = n BY <1>1, <1>3, <2>4, <3>1
    <3>2. CASE l \in Stored BY <1>1, <1>3, <3>2 DEF Known
    <3> QED BY <1>3, <2>5, <3>1, <3>2
  <2> QED BY <2>3, <2>5
<1> QED BY <1>2, <1>3, LoginsComeFrom DEF ComeFrom

-----------------------------------------------------------------------------
(* The lock, and the generations *)

\* The lineage lock: one caller at a time is past it.
OneAtATime == \A c, d \in Callers : pc[c] \in Critical /\ pc[d] \in Critical => c = d

\* A renewal is of the line of the login it was made from.
Renewed == \A c \in Callers : pc[c] = "answered" => got[c].by = sess[c].by

\* An answer of the server is a generation that nobody has met yet.
Distinct ==
  \A c \in Callers : got[c] # None =>
    /\ vault # None => vault.gen # got[c].gen
    /\ \A d \in Callers : /\ forced[d] # got[c].gen
                          /\ d # c /\ got[d] # None => got[d].gen # got[c].gen

\* The generation a child failed on was near its end when it asked.
Worn == \A c \in Callers : vault # None /\ forced[c] = vault.gen => vault.life # "fresh"

LEMMA LockKept ==
  ASSUME TypeOK, Carries, OneAtATime, Renewed, [Next]_vars
  PROVE  OneAtATime' /\ Renewed'
<1>0. CASE UNCHANGED vars
  BY <1>0 DEF vars, OneAtATime, Renewed
<1> USE DEF server, people, record, Goes, Critical, Exchanging, Callers
<1>1. ASSUME NEW a \in Agents, StartAsks(a) PROVE OneAtATime' /\ Renewed'
  BY <1>1 DEF StartAsks, TypeOK, OneAtATime, Renewed
<1>2. ASSUME NEW a \in Agents, TurnFails(a) PROVE OneAtATime' /\ Renewed'
  BY <1>2 DEF TurnFails, TypeOK, OneAtATime, Renewed
<1>3. ASSUME NEW a \in Agents, ReaderParks(a) PROVE OneAtATime' /\ Renewed'
  BY <1>3 DEF ReaderParks, TypeOK, OneAtATime, Renewed
<1>4. ASSUME NEW a \in Agents, Resume(a) PROVE OneAtATime' /\ Renewed'
  BY <1>4 DEF Resume, TypeOK, OneAtATime, Renewed
<1>5. ASSUME NEW a \in Agents, StartDropped(a) PROVE OneAtATime' /\ Renewed'
  BY <1>5 DEF StartDropped, TypeOK, OneAtATime, Renewed
<1>6. ASSUME NEW c \in Timers, TimerFires(c) PROVE OneAtATime' /\ Renewed'
  BY <1>6 DEF TimerFires, TypeOK, OneAtATime, Renewed
<1>7. ASSUME NEW c \in Callers, Enter(c) PROVE OneAtATime' /\ Renewed'
  <2>1. /\ \A d \in Callers : pc[d] \notin Critical
        /\ got' = got
        /\ \E to \in {"refused", "arming", "granted", "exchange"} : pc' = [pc EXCEPT ![c] = to]
        /\ sess' \in {sess, [sess EXCEPT ![c] = vault]}
    BY <1>7 DEF Enter, Held
  <2> QED BY <2>1 DEF TypeOK, OneAtATime, Renewed
<1>8. ASSUME NEW c \in Callers, ServerRenews(c) PROVE OneAtATime' /\ Renewed'
  <2>1. pc[c] = "exchange" /\ pc' = [pc EXCEPT ![c] = "answered"] /\ sess' = sess
    BY <1>8 DEF ServerRenews
  <2>2. PICK life \in Issues, rotates \in BOOLEAN :
          got' = [got EXCEPT ![c] =
                       [gen |-> issued + 1, by |-> sess[c].by, life |-> life,
                        rt |-> IF rotates THEN issued + 1 ELSE sess[c].rt]]
    BY <1>8 DEF ServerRenews
  <2>3. got'[c].by = sess[c].by /\ \A d \in Callers : d # c => got'[d] = got[d]
    BY <2>2 DEF TypeOK
  <2> QED BY <2>1, <2>3 DEF TypeOK, OneAtATime, Renewed
<1>9. ASSUME NEW c \in Callers, Store(c) PROVE OneAtATime' /\ Renewed'
  BY <1>9 DEF Store, TypeOK, OneAtATime, Renewed
<1>10. ASSUME NEW c \in Callers, ExchangeFails(c) PROVE OneAtATime' /\ Renewed'
  BY <1>10 DEF ExchangeFails, Fails, TypeOK, OneAtATime, Renewed
<1>11. ASSUME NEW c \in Callers, Warn(c) PROVE OneAtATime' /\ Renewed'
  BY <1>11 DEF Warn, TypeOK, OneAtATime, Renewed
<1>12. ASSUME NEW c \in Callers, Forgive(c) PROVE OneAtATime' /\ Renewed'
  BY <1>12 DEF Forgive, TypeOK, OneAtATime, Renewed
<1>13. ASSUME NEW c \in Callers, Arm(c) PROVE OneAtATime' /\ Renewed'
  BY <1>13 DEF Arm, TypeOK, OneAtATime, Renewed
<1>14. ASSUME NEW c \in Callers, Granted(c) PROVE OneAtATime' /\ Renewed'
  BY <1>14 DEF Granted, TypeOK, OneAtATime, Renewed
<1>15. ASSUME NEW c \in Callers, Refused(c) PROVE OneAtATime' /\ Renewed'
  BY <1>15 DEF Refused, TypeOK, OneAtATime, Renewed
<1>16. CASE SignInStores
  BY <1>16 DEF SignInStores, TypeOK, OneAtATime, Renewed
<1>17. CASE SignInForgets
  BY <1>17 DEF SignInForgets, TypeOK, OneAtATime, Renewed
<1>19. CASE SignInArms
  BY <1>19 DEF SignInArms, TypeOK, OneAtATime, Renewed
<1>20. CASE SignInAnswers
  BY <1>20 DEF SignInAnswers, TypeOK, OneAtATime, Renewed
<1>21. CASE SignInDropped
  BY <1>21 DEF SignInDropped, TypeOK, OneAtATime, Renewed
<1>22. CASE TimePasses
  BY <1>22 DEF TimePasses, TypeOK, OneAtATime, Renewed
<1>23. CASE FloorPasses
  BY <1>23 DEF FloorPasses, TypeOK, OneAtATime, Renewed
<1>24. CASE LoginDeleted
  BY <1>24 DEF LoginDeleted, TypeOK, OneAtATime, Renewed
<1>25. CASE Restart
  BY <1>25 DEF Restart, TypeOK, OneAtATime, Renewed
<1>26. CASE BootArms
  BY <1>26 DEF BootArms, TypeOK, OneAtATime, Renewed
<1> QED
  BY <1>0, <1>1, <1>2, <1>3, <1>4, <1>5, <1>6, <1>7, <1>8, <1>9, <1>10, <1>11, <1>12,
     <1>13, <1>14, <1>15, <1>16, <1>17, <1>19, <1>20, <1>21, <1>22, <1>23, <1>24,
     <1>25, <1>26, Steps

LEMMA GenerationsKept ==
  ASSUME TypeOK, Known, Distinct, [Next]_vars
  PROVE  Distinct' /\ \A c \in Callers : forced'[c] <= issued'
<1> DEFINE Goal == Distinct' /\ \A c \in Callers : forced'[c] <= issued'
<1>n. /\ issued \in Nat /\ \A c \in Callers : forced[c] \in Nat /\ forced[c] <= issued
      /\ vault # None => vault \in Stored /\ vault.gen \in Nat \ {0} /\ vault.gen <= issued
      /\ \A c \in Callers : got[c] # None => got[c].gen \in Nat \ {0} /\ got[c].gen <= issued
  <2>1. issued \in Nat /\ \A c \in Callers : forced[c] \in Nat BY NoneIsNone DEF TypeOK
  <2>2. /\ vault # None => vault \in Stored /\ vault \in Login
        /\ \A c \in Callers : got[c] # None => got[c] \in Stored /\ got[c] \in Login
    BY DEF Stored, TypeOK
  <2>3. vault # None => vault.gen \in Nat \ {0} /\ vault.gen <= issued
    BY <2>2, LoginFields, NoneIsNone DEF Known
  <2>4. \A c \in Callers : got[c] # None => got[c].gen \in Nat \ {0} /\ got[c].gen <= issued
    BY <2>2, LoginFields, NoneIsNone DEF Known
  <2> QED BY <2>1, <2>2, <2>3, <2>4 DEF Known
<1>0. CASE UNCHANGED vars
  BY <1>0, <1>n DEF vars, Distinct
<1> USE DEF server, people, record, Callers
<1>1. ASSUME NEW a \in Agents, StartAsks(a) PROVE Goal
  BY <1>1, <1>n DEF StartAsks, TypeOK, Distinct
<1>2. ASSUME NEW a \in Agents, TurnFails(a) PROVE Goal
  BY <1>2, <1>n DEF TurnFails, TypeOK, Distinct
<1>3. ASSUME NEW a \in Agents, ReaderParks(a) PROVE Goal
  BY <1>3, <1>n DEF ReaderParks, TypeOK, Distinct
<1>4. ASSUME NEW a \in Agents, Resume(a) PROVE Goal
  BY <1>4, <1>n DEF Resume, TypeOK, Distinct
<1>5. ASSUME NEW a \in Agents, StartDropped(a) PROVE Goal
  BY <1>5, <1>n DEF StartDropped, TypeOK, Distinct
<1>6. ASSUME NEW c \in Timers, TimerFires(c) PROVE Goal
  BY <1>6, <1>n DEF TimerFires, TypeOK, Distinct
<1>7. ASSUME NEW c \in Callers, Enter(c) PROVE Goal
  BY <1>7, <1>n DEF Enter, TypeOK, Distinct
<1>8. ASSUME NEW c \in Callers, ServerRenews(c) PROVE Goal
  <2>1. PICK life \in Issues, rotates \in BOOLEAN :
          got' = [got EXCEPT ![c] =
                       [gen |-> issued + 1, by |-> sess[c].by, life |-> life,
                        rt |-> IF rotates THEN issued + 1 ELSE sess[c].rt]]
    BY <1>8 DEF ServerRenews
  <2>2. got'[c].gen = issued + 1 /\ \A d \in Callers : d # c => got'[d] = got[d]
    BY <2>1 DEF TypeOK
  <2>3. issued' = issued + 1 /\ vault' = vault /\ forced' = forced BY <1>8 DEF ServerRenews
  <2> QED BY <2>2, <2>3, <1>n DEF TypeOK, Distinct
<1>9. ASSUME NEW c \in Callers, Store(c) PROVE Goal
  <2>1. /\ vault' \in {vault, got[c]} /\ vault # None /\ got' = [got EXCEPT ![c] = None]
        /\ issued' = issued /\ forced' = forced
    BY <1>9 DEF Store
  <2>2. Distinct' BY <2>1, <1>n DEF TypeOK, Distinct
  <2> QED BY <2>1, <2>2, <1>n
<1>10. ASSUME NEW c \in Callers, ExchangeFails(c) PROVE Goal
  BY <1>10, <1>n DEF ExchangeFails, Fails, TypeOK, Distinct
<1>11. ASSUME NEW c \in Callers, Warn(c) PROVE Goal
  BY <1>11, <1>n DEF Warn, TypeOK, Distinct
<1>12. ASSUME NEW c \in Callers, Forgive(c) PROVE Goal
  BY <1>12, <1>n DEF Forgive, TypeOK, Distinct
<1>13. ASSUME NEW c \in Callers, Arm(c) PROVE Goal
  BY <1>13, <1>n DEF Arm, TypeOK, Distinct
<1>14. ASSUME NEW c \in Callers, Granted(c) PROVE Goal
  BY <1>14, <1>n DEF Granted, TypeOK, Distinct
<1>15. ASSUME NEW c \in Callers, Refused(c) PROVE Goal
  BY <1>15, <1>n DEF Refused, TypeOK, Distinct
<1>16. CASE SignInStores
  <2>1. issued' = issued + 1 /\ vault'.gen = issued + 1 /\ got' = got /\ forced' = forced
    BY <1>16 DEF SignInStores
  <2> QED BY <2>1, <1>n DEF TypeOK, Distinct
<1>17. CASE SignInForgets
  BY <1>17, <1>n DEF SignInForgets, TypeOK, Distinct
<1>19. CASE SignInArms
  BY <1>19, <1>n DEF SignInArms, TypeOK, Distinct
<1>20. CASE SignInAnswers
  BY <1>20, <1>n DEF SignInAnswers, TypeOK, Distinct
<1>21. CASE SignInDropped
  BY <1>21, <1>n DEF SignInDropped, TypeOK, Distinct
<1>22. CASE TimePasses
  <2>1. /\ vault # None /\ vault' = Ages(vault)
        /\ issued' = issued /\ got' = got /\ forced' = forced
    BY <1>22 DEF TimePasses
  <2>2. vault'.gen = vault.gen BY <2>1, LoginFields DEF TypeOK
  <2> QED BY <2>1, <2>2, <1>n DEF TypeOK, Distinct
<1>23. CASE FloorPasses
  BY <1>23, <1>n DEF FloorPasses, TypeOK, Distinct
<1>24. CASE LoginDeleted
  BY <1>24, <1>n DEF LoginDeleted, TypeOK, Distinct
<1>25. CASE Restart
  BY <1>25, <1>n DEF Restart, TypeOK, Distinct
<1>26. CASE BootArms
  BY <1>26, <1>n DEF BootArms, TypeOK, Distinct
<1> QED
  BY <1>0, <1>1, <1>2, <1>3, <1>4, <1>5, <1>6, <1>7, <1>8, <1>9, <1>10, <1>11, <1>12,
     <1>13, <1>14, <1>15, <1>16, <1>17, <1>19, <1>20, <1>21, <1>22, <1>23, <1>24,
     <1>25, <1>26, Steps

LEMMA WearKept ==
  ASSUME TypeOK, Known, Distinct, Worn, FreshNotRenewed, [Next]_vars
  PROVE  Worn' /\ FreshNotRenewed'
<1>n. \A c \in Callers : forced[c] \in Nat /\ forced[c] <= issued
  BY NoneIsNone DEF TypeOK, Known
<1>v. vault # None => vault.gen \in Nat \ {0}
  BY LoginFields, NoneIsNone DEF TypeOK
<1>0. CASE UNCHANGED vars
  BY <1>0 DEF vars, Worn, FreshNotRenewed
<1> USE DEF server, people, record, Goes, Exchanging, Callers
<1>1. ASSUME NEW a \in Agents, StartAsks(a) PROVE Worn' /\ FreshNotRenewed'
  BY <1>1, <1>v DEF StartAsks, TypeOK, Worn, FreshNotRenewed
<1>2. ASSUME NEW a \in Agents, TurnFails(a) PROVE Worn' /\ FreshNotRenewed'
  BY <1>2, <1>v DEF TurnFails, TypeOK, Worn, FreshNotRenewed
<1>3. ASSUME NEW a \in Agents, ReaderParks(a) PROVE Worn' /\ FreshNotRenewed'
  BY <1>3, <1>v DEF ReaderParks, TypeOK, Worn, FreshNotRenewed
<1>4. ASSUME NEW a \in Agents, Resume(a) PROVE Worn' /\ FreshNotRenewed'
  BY <1>4, <1>v DEF Resume, TypeOK, Worn, FreshNotRenewed
<1>5. ASSUME NEW a \in Agents, StartDropped(a) PROVE Worn' /\ FreshNotRenewed'
  BY <1>5, <1>v DEF StartDropped, TypeOK, Worn, FreshNotRenewed
<1>6. ASSUME NEW c \in Timers, TimerFires(c) PROVE Worn' /\ FreshNotRenewed'
  BY <1>6, <1>v DEF TimerFires, TypeOK, Worn, FreshNotRenewed
<1>7. ASSUME NEW c \in Callers, Enter(c) PROVE Worn' /\ FreshNotRenewed'
  <2>1. /\ vault' = vault /\ forced' = forced
        /\ \/ /\ sess' \in {sess, [sess EXCEPT ![c] = vault]}
              /\ \E to \in {"refused", "arming", "granted"} : pc' = [pc EXCEPT ![c] = to]
           \/ /\ vault # None /\ (forced[c] = vault.gen \/ vault.life # "fresh")
              /\ sess' = [sess EXCEPT ![c] = vault]
              /\ pc' = [pc EXCEPT ![c] = "exchange"]
    BY <1>7 DEF Enter, StillOnIt
  <2> QED BY <2>1 DEF TypeOK, Worn, FreshNotRenewed
<1>8. ASSUME NEW c \in Callers, ServerRenews(c) PROVE Worn' /\ FreshNotRenewed'
  <2>1. pc[c] = "exchange" /\ pc' = [pc EXCEPT ![c] = "answered"] /\ sess' = sess
        /\ vault' = vault /\ forced' = forced
    BY <1>8 DEF ServerRenews
  <2> QED BY <2>1 DEF TypeOK, Worn, FreshNotRenewed
<1>9. ASSUME NEW c \in Callers, Store(c) PROVE Worn' /\ FreshNotRenewed'
  <2>1. /\ vault' \in {vault, got[c]} /\ vault # None
        /\ sess' = [sess EXCEPT ![c] = vault'] /\ pc' = [pc EXCEPT ![c] = "forgiving"]
        /\ got[c] # None => vault' # got[c] \/ \A d \in Callers : forced'[d] # got[c].gen
        /\ forced' = forced
    BY <1>9 DEF Store, Distinct
  <2>2. got[c] # None \/ vault' = vault \/ vault' = None BY <2>1
  <2> QED BY <2>1, <2>2 DEF TypeOK, Worn, FreshNotRenewed
<1>10. ASSUME NEW c \in Callers, ExchangeFails(c) PROVE Worn' /\ FreshNotRenewed'
  BY <1>10, <1>v DEF ExchangeFails, Fails, TypeOK, Worn, FreshNotRenewed
<1>11. ASSUME NEW c \in Callers, Warn(c) PROVE Worn' /\ FreshNotRenewed'
  BY <1>11, <1>v DEF Warn, TypeOK, Worn, FreshNotRenewed
<1>12. ASSUME NEW c \in Callers, Forgive(c) PROVE Worn' /\ FreshNotRenewed'
  BY <1>12, <1>v DEF Forgive, TypeOK, Worn, FreshNotRenewed
<1>13. ASSUME NEW c \in Callers, Arm(c) PROVE Worn' /\ FreshNotRenewed'
  BY <1>13, <1>v DEF Arm, TypeOK, Worn, FreshNotRenewed
<1>14. ASSUME NEW c \in Callers, Granted(c) PROVE Worn' /\ FreshNotRenewed'
  BY <1>14, <1>v DEF Granted, TypeOK, Worn, FreshNotRenewed
<1>15. ASSUME NEW c \in Callers, Refused(c) PROVE Worn' /\ FreshNotRenewed'
  BY <1>15, <1>v DEF Refused, TypeOK, Worn, FreshNotRenewed
<1>16. CASE SignInStores
  <2>1. vault'.gen = issued + 1 /\ forced' = forced /\ sess' = sess /\ pc' = pc
    BY <1>16 DEF SignInStores
  <2>2. issued \in Nat BY NoneIsNone DEF TypeOK
  <2> QED BY <2>1, <2>2, <1>n DEF Worn, FreshNotRenewed
<1>17. CASE SignInForgets
  BY <1>17, <1>v DEF SignInForgets, TypeOK, Worn, FreshNotRenewed
<1>19. CASE SignInArms
  BY <1>19, <1>v DEF SignInArms, TypeOK, Worn, FreshNotRenewed
<1>20. CASE SignInAnswers
  BY <1>20, <1>v DEF SignInAnswers, TypeOK, Worn, FreshNotRenewed
<1>21. CASE SignInDropped
  BY <1>21, <1>v DEF SignInDropped, TypeOK, Worn, FreshNotRenewed
<1>22. CASE TimePasses
  <2>1. /\ vault # None /\ vault' = Ages(vault)
        /\ sess' = sess /\ pc' = pc /\ forced' = forced
    BY <1>22 DEF TimePasses
  <2>2. vault'.life # "fresh" BY <2>1, LoginFields DEF TypeOK
  <2> QED BY <2>1, <2>2 DEF Worn, FreshNotRenewed
<1>23. CASE FloorPasses
  BY <1>23, <1>v DEF FloorPasses, TypeOK, Worn, FreshNotRenewed
<1>24. CASE LoginDeleted
  BY <1>24, <1>v DEF LoginDeleted, TypeOK, Worn, FreshNotRenewed
<1>25. CASE Restart
  BY <1>25, <1>v DEF Restart, TypeOK, Worn, FreshNotRenewed
<1>26. CASE BootArms
  BY <1>26, <1>v DEF BootArms, TypeOK, Worn, FreshNotRenewed
<1> QED
  BY <1>0, <1>1, <1>2, <1>3, <1>4, <1>5, <1>6, <1>7, <1>8, <1>9, <1>10, <1>11, <1>12,
     <1>13, <1>14, <1>15, <1>16, <1>17, <1>19, <1>20, <1>21, <1>22, <1>23, <1>24,
     <1>25, <1>26, Steps

-----------------------------------------------------------------------------
(* The theorems about logins *)

Kernel ==
  /\ TypeOK /\ Carries /\ Known /\ OneLine
  /\ OneAtATime /\ Renewed /\ Distinct /\ Worn /\ FreshNotRenewed

LEMMA InitKernel == Init => Kernel
<1> SUFFICES ASSUME Init PROVE Kernel
  OBVIOUS
<1>1. TypeOK /\ Carries BY InitTypes
<1>2. Stored = {} BY DEF Init, Stored
<1>3. Known /\ OneLine BY <1>2 DEF Init, Known, OneLine
<1>4. OneAtATime /\ Renewed /\ FreshNotRenewed
  BY DEF Init, OneAtATime, Renewed, FreshNotRenewed, Critical, Exchanging
<1>5. Distinct /\ Worn BY DEF Init, Distinct, Worn
<1> QED BY <1>1, <1>3, <1>4, <1>5 DEF Kernel

LEMMA KernelKept ==
  ASSUME Kernel, [Next]_vars
  PROVE  Kernel'
<1>1. TypeOK' /\ Carries' BY TypesKept DEF Kernel
<1>2. OneLine' /\ \A l \in Stored' : l.gen <= issued' /\ l.by <= issued' /\ l.rt <= issued'
  BY LinesKept DEF Kernel
<1>3. OneAtATime' /\ Renewed' BY LockKept DEF Kernel
<1>4. Distinct' /\ \A c \in Callers : forced'[c] <= issued' BY GenerationsKept DEF Kernel
<1>5. Worn' /\ FreshNotRenewed' BY WearKept DEF Kernel
<1>6. Known' BY <1>2, <1>4 DEF Known
<1> QED BY <1>1, <1>2, <1>3, <1>4, <1>5, <1>6 DEF Kernel

\* However many readers fail together, and whatever else goes on, nobody takes the
\* refresh token of a login with more than the lead left to the server
\* (ensure_fresh's renew_if_still).
THEOREM FreshLoginsAreNotRenewed == Spec => []FreshNotRenewed
<1>1. Kernel => FreshNotRenewed BY DEF Kernel
<1>2. Kernel /\ [Next]_vars => Kernel' BY KernelKept
<1> QED BY InitKernel, <1>1, <1>2, PTL DEF Spec

\* What a step does to the line of the vault's login.
FollowsOn == vault' # None => Lineage' = Lineage \/ (Lineage' = issued' /\ issued' = issued + 1)

LEMMA StepFollowsOn ==
  ASSUME Kernel, [Next]_vars
  PROVE  FollowsOn
<1> USE DEF Kernel
<1>s. vault' = vault => FollowsOn BY DEF FollowsOn, Lineage
<1>0. CASE UNCHANGED vars
  BY <1>0, <1>s DEF vars
<1>1. ASSUME NEW a \in Agents, StartAsks(a) PROVE FollowsOn
  BY <1>1, <1>s DEF StartAsks
<1>2. ASSUME NEW a \in Agents, TurnFails(a) PROVE FollowsOn
  BY <1>2, <1>s DEF TurnFails
<1>3. ASSUME NEW a \in Agents, ReaderParks(a) PROVE FollowsOn
  BY <1>3, <1>s DEF ReaderParks
<1>4. ASSUME NEW a \in Agents, Resume(a) PROVE FollowsOn
  BY <1>4, <1>s DEF Resume
<1>5. ASSUME NEW a \in Agents, StartDropped(a) PROVE FollowsOn
  BY <1>5, <1>s DEF StartDropped
<1>6. ASSUME NEW c \in Timers, TimerFires(c) PROVE FollowsOn
  BY <1>6, <1>s DEF TimerFires
<1>7. ASSUME NEW c \in Callers, Enter(c) PROVE FollowsOn
  BY <1>7, <1>s DEF Enter
<1>8. ASSUME NEW c \in Callers, ServerRenews(c) PROVE FollowsOn
  BY <1>8, <1>s DEF ServerRenews
<1>9. ASSUME NEW c \in Callers, Store(c) PROVE FollowsOn
  <2>1. /\ vault # None /\ pc[c] = "answered"
        /\ vault' = IF vault.rt = sess[c].rt THEN got[c] ELSE vault
    BY <1>9 DEF Store
  <2>2. CASE vault.rt = sess[c].rt
    <3>1. vault \in Stored /\ sess[c] \in Stored
      BY <2>1 DEF Stored, Carries, Critical, Exchanging
    <3>2. vault.by = sess[c].by BY <2>2, <3>1 DEF OneLine
    <3>3. got[c].by = vault.by BY <2>1, <3>2 DEF Renewed
    <3> QED BY <2>1, <2>2, <3>3 DEF FollowsOn, Lineage
  <2> QED BY <2>1, <2>2, <1>s
<1>10. ASSUME NEW c \in Callers, ExchangeFails(c) PROVE FollowsOn
  BY <1>10, <1>s DEF ExchangeFails, Fails
<1>11. ASSUME NEW c \in Callers, Warn(c) PROVE FollowsOn
  BY <1>11, <1>s DEF Warn
<1>12. ASSUME NEW c \in Callers, Forgive(c) PROVE FollowsOn
  BY <1>12, <1>s DEF Forgive
<1>13. ASSUME NEW c \in Callers, Arm(c) PROVE FollowsOn
  BY <1>13, <1>s DEF Arm
<1>14. ASSUME NEW c \in Callers, Granted(c) PROVE FollowsOn
  BY <1>14, <1>s DEF Granted
<1>15. ASSUME NEW c \in Callers, Refused(c) PROVE FollowsOn
  BY <1>15, <1>s DEF Refused
<1>16. CASE SignInStores
  <2>1. vault'.by = issued + 1 /\ issued' = issued + 1
    BY <1>16 DEF SignInStores
  <2> QED BY <2>1 DEF FollowsOn, Lineage
<1>17. CASE SignInForgets
  BY <1>17, <1>s DEF SignInForgets
<1>19. CASE SignInArms
  BY <1>19, <1>s DEF SignInArms
<1>20. CASE SignInAnswers
  BY <1>20, <1>s DEF SignInAnswers
<1>21. CASE SignInDropped
  BY <1>21, <1>s DEF SignInDropped
<1>22. CASE TimePasses
  <2>1. vault # None /\ vault' = Ages(vault) BY <1>22 DEF TimePasses
  <2>2. vault'.by = vault.by BY <2>1, LoginFields DEF TypeOK
  <2> QED BY <2>1, <2>2 DEF FollowsOn, Lineage
<1>23. CASE FloorPasses
  BY <1>23, <1>s DEF FloorPasses
<1>24. CASE LoginDeleted
  BY <1>24 DEF LoginDeleted, FollowsOn
<1>25. CASE Restart
  BY <1>25, <1>s DEF Restart
<1>26. CASE BootArms
  BY <1>26, <1>s DEF BootArms
<1> QED
  BY <1>0, <1>1, <1>2, <1>3, <1>4, <1>5, <1>6, <1>7, <1>8, <1>9, <1>10, <1>11, <1>12,
     <1>13, <1>14, <1>15, <1>16, <1>17, <1>19, <1>20, <1>21, <1>22, <1>23, <1>24,
     <1>25, <1>26, Steps

\* A renewal never puts a login over one that was saved or deleted while it ran:
\* the vault changes only along a line, or to what a person has just signed in to
\* (replace_session_if in vault.rs).
THEOREM LoginsAreNeverPutBack == Spec => LoginsFollowOn
<1>1. Kernel /\ [Next]_vars => [vault' # None =>
        Lineage' = Lineage \/ (Lineage' = issued' /\ issued' = issued + 1)]_vars
  BY StepFollowsOn DEF FollowsOn
<1>2. Kernel /\ [Next]_vars => Kernel' BY KernelKept
<1> QED BY InitKernel, <1>1, <1>2, PTL DEF Spec, LoginsFollowOn

-----------------------------------------------------------------------------
(* That a renewal is scheduled *)

\* The login a caller works on is no older than the vault's, if it is of its line.
Older ==
  \A c \in Callers : pc[c] \in Critical /\ vault # None /\ vault.by = sess[c].by =>
    /\ vault.life = "fresh" => sess[c].life = "fresh"
    /\ sess[c].life = "lapsed" => vault.life = "lapsed"

\* A fired timer forces nothing.
Unforced == \A c \in Timers : forced[c] = 0

\* While a caller is about to schedule a retry, the failure on record is its own.
OwnVerdict ==
  \A c \in Callers : pc[c] = "retrying" /\ failure # None =>
    failure.kind = "short" \/ failure.of = sess[c].by

\* The vault's login is one that must be renewed,
Due ==
  /\ booted /\ vault # None
  /\ \/ vault.life = "fresh"
     \/ /\ vault.life = "near"
        /\ failure # None /\ failure.kind = "transient" /\ failure.of = vault.by

\* and this is who will see to it, or would have: a timer, a sign-in that has not scheduled yet, a
\* fired timer on its way, or a caller that is about to schedule.
SeenTo ==
  \/ timer # "none"
  \/ signin \in {"stored", "forgotten"}
  \/ \E c \in Timers : pc[c] = "wait" \/ (pc[c] \in Exchanging /\ sess[c].by = vault.by)
  \/ \E c \in Callers : pc[c] \in {"retrying", "forgiving", "arming"} /\ sess[c].by = vault.by

Scheduled == Due => SeenTo

\* What a failed exchange leaves behind.
LEMMA FailureLeaves ==
  ASSUME NEW c, ExchangeFails(c)
  PROVE  /\ pc[c] \in Exchanging /\ failure'.of = sess[c].by
         /\ \/ pc' = [pc EXCEPT ![c] = "retrying"]
            \/ pc' = [pc EXCEPT ![c] = "giving_up"] /\ failure'.kind = "permanent"
         /\ UNCHANGED <<vault, sess, forced, timer, signin, booted>>
<1>1. PICK p, a \in BOOLEAN : Fails(c, p, a) BY DEF ExchangeFails
<1> DEFINE final == p \/ (a /\ Tries >= MaxAttempts)
<1>2. /\ failure' = [kind |-> IF final THEN "permanent" ELSE "transient", of |-> sess[c].by]
      /\ pc' = [pc EXCEPT ![c] = IF final THEN "giving_up" ELSE "retrying"]
      /\ UNCHANGED <<vault, sess, forced, timer, signin, booted>>
  BY <1>1 DEF Fails, Goes, people
<1> HIDE DEF final
<1>3. CASE final BY <1>2, <1>3 DEF ExchangeFails
<1>4. CASE ~final BY <1>2, <1>4 DEF ExchangeFails
<1> QED BY <1>3, <1>4 DEF ExchangeFails

LEMMA OlderKept ==
  ASSUME Kernel, Older, [Next]_vars
  PROVE  Older'
<1> USE DEF Kernel
<1>0. CASE UNCHANGED vars
  BY <1>0 DEF vars, Older
<1> USE DEF server, people, record, Goes, Critical, Exchanging, Callers
<1>1. ASSUME NEW a \in Agents, StartAsks(a) PROVE Older'
  BY <1>1 DEF StartAsks, TypeOK, Older
<1>2. ASSUME NEW a \in Agents, TurnFails(a) PROVE Older'
  BY <1>2 DEF TurnFails, TypeOK, Older
<1>3. ASSUME NEW a \in Agents, ReaderParks(a) PROVE Older'
  BY <1>3 DEF ReaderParks, TypeOK, Older
<1>4. ASSUME NEW a \in Agents, Resume(a) PROVE Older'
  BY <1>4 DEF Resume, TypeOK, Older
<1>5. ASSUME NEW a \in Agents, StartDropped(a) PROVE Older'
  BY <1>5 DEF StartDropped, TypeOK, Older
<1>6. ASSUME NEW c \in Timers, TimerFires(c) PROVE Older'
  BY <1>6 DEF TimerFires, TypeOK, Older
<1>7. ASSUME NEW c \in Callers, Enter(c) PROVE Older'
  <2>1. /\ vault' = vault
        /\ \/ pc' = [pc EXCEPT ![c] = "refused"]
           \/ pc' = [pc EXCEPT ![c] = "granted"]
           \/ /\ sess' = [sess EXCEPT ![c] = vault]
              /\ \E to \in {"arming", "exchange"} : pc' = [pc EXCEPT ![c] = to]
        /\ \A d \in Callers : pc[d] \notin Critical
    BY <1>7 DEF Enter, Held
  <2> QED BY <2>1 DEF TypeOK, Older
<1>8. ASSUME NEW c \in Callers, ServerRenews(c) PROVE Older'
  <2>1. pc[c] = "exchange" /\ pc' = [pc EXCEPT ![c] = "answered"] /\ sess' = sess /\ vault' = vault
    BY <1>8 DEF ServerRenews
  <2> QED BY <2>1 DEF TypeOK, Older
<1>9. ASSUME NEW c \in Callers, Store(c) PROVE Older'
  <2>1. /\ pc[c] \in Critical /\ pc' = [pc EXCEPT ![c] = "forgiving"]
        /\ sess' = [sess EXCEPT ![c] = vault']
    BY <1>9 DEF Store
  <2>2. \A d \in Callers : pc'[d] \in Critical => d = c BY <2>1 DEF TypeOK, OneAtATime
  <2> QED BY <2>1, <2>2 DEF TypeOK, Older
<1>10. ASSUME NEW c \in Callers, ExchangeFails(c) PROVE Older'
  BY <1>10 DEF ExchangeFails, Fails, TypeOK, Older
<1>11. ASSUME NEW c \in Callers, Warn(c) PROVE Older'
  BY <1>11 DEF Warn, TypeOK, Older
<1>12. ASSUME NEW c \in Callers, Forgive(c) PROVE Older'
  BY <1>12 DEF Forgive, TypeOK, Older
<1>13. ASSUME NEW c \in Callers, Arm(c) PROVE Older'
  BY <1>13 DEF Arm, TypeOK, Older
<1>14. ASSUME NEW c \in Callers, Granted(c) PROVE Older'
  BY <1>14 DEF Granted, TypeOK, Older
<1>15. ASSUME NEW c \in Callers, Refused(c) PROVE Older'
  BY <1>15 DEF Refused, TypeOK, Older
<1>16. CASE SignInStores
  <2>1. vault'.by = issued + 1 /\ sess' = sess /\ pc' = pc BY <1>16 DEF SignInStores
  <2>2. \A c \in Callers : pc[c] \in Critical => sess[c].by <= issued
    BY DEF Known, Stored, Carries
  <2>3. \A c \in Callers : pc[c] \in Critical => sess[c].by \in Nat
    BY LoginFields, NoneIsNone DEF Carries, TypeOK
  <2>4. issued \in Nat BY NoneIsNone DEF TypeOK
  <2> QED BY <2>1, <2>2, <2>3, <2>4 DEF Older
<1>17. CASE SignInForgets
  BY <1>17 DEF SignInForgets, TypeOK, Older
<1>19. CASE SignInArms
  BY <1>19 DEF SignInArms, TypeOK, Older
<1>20. CASE SignInAnswers
  BY <1>20 DEF SignInAnswers, TypeOK, Older
<1>21. CASE SignInDropped
  BY <1>21 DEF SignInDropped, TypeOK, Older
<1>22. CASE TimePasses
  <2>1. /\ vault # None /\ vault' = Ages(vault) /\ sess' = sess /\ pc' = pc
    BY <1>22 DEF TimePasses
  <2>2. /\ vault'.life = IF vault.life = "fresh" THEN "near" ELSE "lapsed"
        /\ vault'.by = vault.by
    BY <2>1, LoginFields DEF TypeOK
  <2> QED BY <2>1, <2>2 DEF Older
<1>23. CASE FloorPasses
  BY <1>23 DEF FloorPasses, TypeOK, Older
<1>24. CASE LoginDeleted
  BY <1>24 DEF LoginDeleted, TypeOK, Older
<1>25. CASE Restart
  BY <1>25 DEF Restart, TypeOK, Older
<1>26. CASE BootArms
  BY <1>26 DEF BootArms, TypeOK, Older
<1> QED
  BY <1>0, <1>1, <1>2, <1>3, <1>4, <1>5, <1>6, <1>7, <1>8, <1>9, <1>10, <1>11, <1>12,
     <1>13, <1>14, <1>15, <1>16, <1>17, <1>19, <1>20, <1>21, <1>22, <1>23, <1>24,
     <1>25, <1>26, Steps

LEMMA VerdictsKept ==
  ASSUME Kernel, Unforced, OwnVerdict, [Next]_vars
  PROVE  Unforced' /\ OwnVerdict'
<1> USE DEF Kernel
<1>a. Agents \cap Timers = {} BY RenewalAssumption
<1>0. CASE UNCHANGED vars
  BY <1>0 DEF vars, Unforced, OwnVerdict
<1> USE DEF server, people, record, Goes, Critical, Exchanging, Callers
<1>1. ASSUME NEW a \in Agents, StartAsks(a) PROVE Unforced' /\ OwnVerdict'
  BY <1>1, <1>a DEF StartAsks, TypeOK, Unforced, OwnVerdict
<1>2. ASSUME NEW a \in Agents, TurnFails(a) PROVE Unforced' /\ OwnVerdict'
  <2>1. /\ sess' = sess /\ failure' = failure /\ a \notin Timers
        /\ \/ pc' = pc /\ forced' = forced
           \/ pc' = [pc EXCEPT ![a] = "wait"] /\ \A c \in Timers : forced'[c] = forced[c]
    BY <1>2, <1>a DEF TurnFails, TypeOK
  <2> QED BY <2>1 DEF TypeOK, Unforced, OwnVerdict
<1>3. ASSUME NEW a \in Agents, ReaderParks(a) PROVE Unforced' /\ OwnVerdict'
  BY <1>3, <1>a DEF ReaderParks, TypeOK, Unforced, OwnVerdict
<1>4. ASSUME NEW a \in Agents, Resume(a) PROVE Unforced' /\ OwnVerdict'
  BY <1>4, <1>a DEF Resume, TypeOK, Unforced, OwnVerdict
<1>5. ASSUME NEW a \in Agents, StartDropped(a) PROVE Unforced' /\ OwnVerdict'
  BY <1>5, <1>a DEF StartDropped, TypeOK, Unforced, OwnVerdict
<1>6. ASSUME NEW c \in Timers, TimerFires(c) PROVE Unforced' /\ OwnVerdict'
  BY <1>6, <1>a DEF TimerFires, TypeOK, Unforced, OwnVerdict
<1>7. ASSUME NEW c \in Callers, Enter(c) PROVE Unforced' /\ OwnVerdict'
  <2>1. /\ failure' = failure /\ forced' = forced
        /\ \/ sess' = sess /\ \E to \in {"refused", "granted"} : pc' = [pc EXCEPT ![c] = to]
           \/ /\ sess' = [sess EXCEPT ![c] = vault]
              /\ \E to \in {"arming", "exchange"} : pc' = [pc EXCEPT ![c] = to]
    BY <1>7 DEF Enter
  <2> QED BY <2>1 DEF TypeOK, Unforced, OwnVerdict
<1>8. ASSUME NEW c \in Callers, ServerRenews(c) PROVE Unforced' /\ OwnVerdict'
  <2>1. pc[c] = "exchange" /\ pc' = [pc EXCEPT ![c] = "answered"] /\ sess' = sess
        /\ forced' = forced /\ failure' = failure
    BY <1>8 DEF ServerRenews
  <2> QED BY <2>1 DEF TypeOK, Unforced, OwnVerdict
<1>9. ASSUME NEW c \in Callers, Store(c) PROVE Unforced' /\ OwnVerdict'
  <2>1. pc' = [pc EXCEPT ![c] = "forgiving"] /\ sess' = [sess EXCEPT ![c] = vault']
        /\ forced' = forced /\ failure' = failure
    BY <1>9 DEF Store
  <2> QED BY <2>1 DEF TypeOK, Unforced, OwnVerdict
<1>10. ASSUME NEW c \in Callers, ExchangeFails(c) PROVE Unforced' /\ OwnVerdict'
  <2>1. /\ pc[c] \in Critical /\ failure'.of = sess[c].by /\ sess' = sess /\ forced' = forced
        /\ \E to \in {"retrying", "giving_up"} : pc' = [pc EXCEPT ![c] = to]
    BY <1>10, FailureLeaves
  <2>2. \A d \in Callers : pc'[d] = "retrying" => d = c BY <2>1 DEF TypeOK, OneAtATime
  <2> QED BY <2>1, <2>2 DEF Unforced, OwnVerdict
<1>11. ASSUME NEW c \in Callers, Warn(c) PROVE Unforced' /\ OwnVerdict'
  BY <1>11, <1>a DEF Warn, TypeOK, Unforced, OwnVerdict
<1>12. ASSUME NEW c \in Callers, Forgive(c) PROVE Unforced' /\ OwnVerdict'
  BY <1>12, <1>a DEF Forgive, TypeOK, Unforced, OwnVerdict
<1>13. ASSUME NEW c \in Callers, Arm(c) PROVE Unforced' /\ OwnVerdict'
  <2>1. /\ pc' = [pc EXCEPT ![c] = "granted"] /\ sess' = [sess EXCEPT ![c] = None]
        /\ forced' = forced
        /\ failure' = failure \/ failure'.kind = "short"
    BY <1>13 DEF Arm, ArmRenewal
  <2> QED BY <2>1 DEF TypeOK, Unforced, OwnVerdict
<1>14. ASSUME NEW c \in Callers, Granted(c) PROVE Unforced' /\ OwnVerdict'
  BY <1>14, <1>a DEF Granted, TypeOK, Unforced, OwnVerdict
<1>15. ASSUME NEW c \in Callers, Refused(c) PROVE Unforced' /\ OwnVerdict'
  BY <1>15, <1>a DEF Refused, TypeOK, Unforced, OwnVerdict
<1>16. CASE SignInStores
  BY <1>16, <1>a DEF SignInStores, TypeOK, Unforced, OwnVerdict
<1>17. CASE SignInForgets
  BY <1>17, <1>a DEF SignInForgets, TypeOK, Unforced, OwnVerdict
<1>19. CASE SignInArms
  <2>1. /\ pc' = pc /\ sess' = sess /\ forced' = forced
        /\ failure' = failure \/ failure'.kind = "short"
    BY <1>19 DEF SignInArms, ArmRenewal
  <2> QED BY <2>1 DEF Unforced, OwnVerdict
<1>20. CASE SignInAnswers
  BY <1>20, <1>a DEF SignInAnswers, TypeOK, Unforced, OwnVerdict
<1>21. CASE SignInDropped
  BY <1>21, <1>a DEF SignInDropped, TypeOK, Unforced, OwnVerdict
<1>22. CASE TimePasses
  BY <1>22, <1>a DEF TimePasses, TypeOK, Unforced, OwnVerdict
<1>23. CASE FloorPasses
  BY <1>23, <1>a DEF FloorPasses, TypeOK, Unforced, OwnVerdict
<1>24. CASE LoginDeleted
  BY <1>24, <1>a DEF LoginDeleted, TypeOK, Unforced, OwnVerdict
<1>25. CASE Restart
  BY <1>25, <1>a DEF Restart, TypeOK, Unforced, OwnVerdict
<1>26. CASE BootArms
  <2>1. /\ pc' = pc /\ sess' = sess /\ forced' = forced
        /\ failure' = failure \/ failure'.kind = "short"
    BY <1>26 DEF BootArms, ArmRenewal
  <2> QED BY <2>1 DEF Unforced, OwnVerdict
<1> QED
  BY <1>0, <1>1, <1>2, <1>3, <1>4, <1>5, <1>6, <1>7, <1>8, <1>9, <1>10, <1>11, <1>12,
     <1>13, <1>14, <1>15, <1>16, <1>17, <1>19, <1>20, <1>21, <1>22, <1>23, <1>24,
     <1>25, <1>26, Steps

LEMMA ScheduleKept ==
  ASSUME Kernel, Older, Unforced, OwnVerdict, Scheduled, [Next]_vars
  PROVE  Scheduled'
<1> USE DEF Kernel
<1>a. Agents \cap Timers = {} BY RenewalAssumption
<1>0. CASE UNCHANGED vars
  BY <1>0 DEF vars, Scheduled, Due, SeenTo
<1> USE DEF server, people, record, Goes, Exchanging, Callers
<1>1. ASSUME NEW a \in Agents, StartAsks(a) PROVE Scheduled'
  BY <1>1, <1>a DEF StartAsks, TypeOK, Scheduled, Due, SeenTo
<1>2. ASSUME NEW a \in Agents, TurnFails(a) PROVE Scheduled'
  <2>1. /\ sess' = sess /\ failure' = failure /\ vault' = vault /\ timer' = timer
        /\ booted' = booted /\ signin' = signin /\ pc[a] = "idle"
        /\ pc' = pc \/ pc' = [pc EXCEPT ![a] = "wait"]
    BY <1>2 DEF TurnFails
  <2> QED BY <2>1 DEF TypeOK, Scheduled, Due, SeenTo
<1>3. ASSUME NEW a \in Agents, ReaderParks(a) PROVE Scheduled'
  BY <1>3, <1>a DEF ReaderParks, TypeOK, Scheduled, Due, SeenTo
<1>4. ASSUME NEW a \in Agents, Resume(a) PROVE Scheduled'
  BY <1>4, <1>a DEF Resume, TypeOK, Scheduled, Due, SeenTo
<1>5. ASSUME NEW a \in Agents, StartDropped(a) PROVE Scheduled'
  BY <1>5, <1>a DEF StartDropped, TypeOK, Scheduled, Due, SeenTo
<1>6. ASSUME NEW c \in Timers, TimerFires(c) PROVE Scheduled'
  BY <1>6, <1>a DEF TimerFires, TypeOK, Scheduled, Due, SeenTo
<1>7. ASSUME NEW c \in Callers, Enter(c) PROVE Scheduled'
  <2>1. /\ pc[c] = "wait" /\ vault' = vault /\ failure' = failure /\ booted' = booted
        /\ signin' = signin
        /\ \A d \in Callers : d # c => pc'[d] = pc[d] /\ sess'[d] = sess[d]
    BY <1>7 DEF Enter, TypeOK
  <2>2. timer' = timer \/ timer' = "armed" BY <1>7 DEF Enter
  <2>3. ASSUME c \in Timers, Due'
        PROVE  SeenTo'
    <3>1. vault # None /\ ~StillOnIt(c)
      BY <2>1, <2>3, LoginFields, NoneIsNone DEF Due, StillOnIt, Unforced
    <3>2. \/ pc'[c] = "arming" /\ sess'[c] = vault
          \/ timer' = "armed"
          \/ pc'[c] = "exchange" /\ sess'[c] = vault
      BY <1>7, <3>1 DEF Enter, TypeOK
    <3> QED BY <2>1, <2>3, <3>2 DEF SeenTo
  <2>4. CASE c \notin Timers
    BY <2>1, <2>2, <2>4 DEF Scheduled, Due, SeenTo
  <2> QED BY <2>3, <2>4 DEF Scheduled
<1>8. ASSUME NEW c \in Callers, ServerRenews(c) PROVE Scheduled'
  <2>1. /\ pc[c] = "exchange" /\ pc' = [pc EXCEPT ![c] = "answered"] /\ sess' = sess
        /\ vault' = vault /\ failure' = failure /\ booted' = booted /\ signin' = signin
        /\ timer' = timer
    BY <1>8 DEF ServerRenews
  <2> QED BY <2>1 DEF TypeOK, Scheduled, Due, SeenTo
<1>9. ASSUME NEW c \in Callers, Store(c) PROVE Scheduled'
  <2>1. pc'[c] = "forgiving" /\ sess'[c] = vault' BY <1>9 DEF Store, TypeOK
  <2> QED BY <2>1 DEF Scheduled, SeenTo
<1>10. ASSUME NEW c \in Callers, ExchangeFails(c) PROVE Scheduled'
  <2>1. /\ pc[c] \in Exchanging /\ failure'.of = sess[c].by /\ sess' = sess /\ timer' = timer
        /\ vault' = vault /\ booted' = booted /\ signin' = signin
        /\ \/ pc' = [pc EXCEPT ![c] = "retrying"]
           \/ pc' = [pc EXCEPT ![c] = "giving_up"] /\ failure'.kind = "permanent"
    BY <1>10, FailureLeaves
  <2>2. SUFFICES ASSUME Due' PROVE SeenTo'
    BY DEF Scheduled
  <2>3. CASE sess[c].by = vault.by
    <3>1. vault.life # "fresh" BY <2>1, <2>2, <2>3 DEF Due, Older, FreshNotRenewed, Critical
    <3>2. pc'[c] = "retrying" BY <2>1, <2>2, <3>1 DEF Due, TypeOK
    <3> QED BY <2>1, <2>3, <3>2 DEF SeenTo
  <2>4. CASE sess[c].by # vault.by
    <3>1. vault.life = "fresh" BY <2>1, <2>2, <2>4 DEF Due
    <3>2. SeenTo BY <2>1, <2>2, <3>1 DEF Due, Scheduled
    <3> QED BY <2>1, <2>4, <3>2 DEF SeenTo, TypeOK
  <2> QED BY <2>3, <2>4
<1>11. ASSUME NEW c \in Callers, Warn(c) PROVE Scheduled'
  <2>1. /\ sess' = [sess EXCEPT ![c] = None]
        /\ vault' = vault /\ booted' = booted /\ signin' = signin
        /\ failure' = failure /\ pc[c] \in {"retrying", "giving_up"}
        /\ \E to \in {"granted", "refused"} : pc' = [pc EXCEPT ![c] = to]
        /\ timer' = IF Usable(c) /\ pc[c] = "retrying" THEN "armed" ELSE timer
    BY <1>11 DEF Warn
  <2>2. timer # "none" => timer' # "none" BY <2>1
  <2>3. SUFFICES ASSUME Due' PROVE SeenTo'
    BY DEF Scheduled
  <2>4. Due /\ SeenTo BY <2>1, <2>3 DEF Due, Scheduled
  <2>5. CASE pc[c] = "retrying" /\ sess[c].by = vault.by
    <3>1. Usable(c) BY <2>4, <2>5 DEF Due, Older, Usable, Critical
    <3>2. timer' = "armed" BY <2>1, <2>5, <3>1
    <3> QED BY <3>2 DEF SeenTo
  <2>6. CASE ~(pc[c] = "retrying" /\ sess[c].by = vault.by)
    BY <2>1, <2>2, <2>4, <2>6 DEF SeenTo, TypeOK
  <2> QED BY <2>5, <2>6
<1>12. ASSUME NEW c \in Callers, Forgive(c) PROVE Scheduled'
  BY <1>12, <1>a DEF Forgive, TypeOK, Scheduled, Due, SeenTo
<1>13. ASSUME NEW c \in Callers, Arm(c) PROVE Scheduled'
  <2>1. /\ sess' = [sess EXCEPT ![c] = None]
        /\ vault' = vault /\ booted' = booted /\ signin' = signin
        /\ pc[c] = "arming" /\ pc' = [pc EXCEPT ![c] = "granted"]
        /\ \/ sess[c].life = "fresh" /\ timer' = "armed"
           \/ sess[c].life # "fresh" /\ failure'.kind = "short" /\ timer' = timer
    BY <1>13 DEF Arm, ArmRenewal
  <2>2. SUFFICES ASSUME Due', sess[c].life # "fresh" PROVE SeenTo'
    BY <2>1 DEF Scheduled, SeenTo
  <2>3. vault.life = "fresh" BY <2>1, <2>2 DEF Due
  <2>4. SeenTo BY <2>1, <2>2, <2>3 DEF Due, Scheduled
  <2>5. sess[c].by # vault.by BY <2>1, <2>2, <2>3 DEF Older, Due, Critical
  <2> QED BY <2>1, <2>2, <2>4, <2>5 DEF SeenTo, TypeOK
<1>14. ASSUME NEW c \in Callers, Granted(c) PROVE Scheduled'
  BY <1>14, <1>a DEF Granted, TypeOK, Scheduled, Due, SeenTo
<1>15. ASSUME NEW c \in Callers, Refused(c) PROVE Scheduled'
  BY <1>15, <1>a DEF Refused, TypeOK, Scheduled, Due, SeenTo
<1>16. CASE SignInStores
  BY <1>16, <1>a DEF SignInStores, TypeOK, Scheduled, Due, SeenTo
<1>17. CASE SignInForgets
  BY <1>17, <1>a DEF SignInForgets, TypeOK, Scheduled, Due, SeenTo
<1>19. CASE SignInArms
  <2>1. /\ vault' = vault
        /\ vault # None => \/ timer' = "armed"
                           \/ vault.life # "fresh" /\ failure'.kind = "short"
    BY <1>19 DEF SignInArms, ArmRenewal
  <2> QED BY <2>1 DEF Scheduled, Due, SeenTo
<1>20. CASE SignInAnswers
  BY <1>20, <1>a DEF SignInAnswers, TypeOK, Scheduled, Due, SeenTo
<1>21. CASE SignInDropped
  BY <1>21, <1>a DEF SignInDropped, TypeOK, Scheduled, Due, SeenTo
<1>22. CASE TimePasses
  <2>1. /\ vault # None /\ vault' = Ages(vault) /\ sess' = sess /\ pc' = pc /\ timer' = timer
        /\ failure' = failure /\ booted' = booted /\ signin' = signin
    BY <1>22 DEF TimePasses
  <2>2. /\ vault'.life = IF vault.life = "fresh" THEN "near" ELSE "lapsed"
        /\ vault'.by = vault.by
    BY <2>1, LoginFields DEF TypeOK
  <2> QED BY <2>1, <2>2 DEF Scheduled, Due, SeenTo
<1>23. CASE FloorPasses
  BY <1>23, <1>a DEF FloorPasses, TypeOK, Scheduled, Due, SeenTo
<1>24. CASE LoginDeleted
  BY <1>24, <1>a DEF LoginDeleted, TypeOK, Scheduled, Due, SeenTo
<1>25. CASE Restart
  BY <1>25, <1>a DEF Restart, TypeOK, Scheduled, Due, SeenTo
<1>26. CASE BootArms
  <2>1. /\ vault' = vault
        /\ vault # None => \/ timer' = "armed"
                           \/ vault.life # "fresh" /\ failure'.kind = "short"
    BY <1>26 DEF BootArms, ArmRenewal
  <2> QED BY <2>1 DEF Scheduled, Due, SeenTo
<1> QED
  BY <1>0, <1>1, <1>2, <1>3, <1>4, <1>5, <1>6, <1>7, <1>8, <1>9, <1>10, <1>11, <1>12,
     <1>13, <1>14, <1>15, <1>16, <1>17, <1>19, <1>20, <1>21, <1>22, <1>23, <1>24,
     <1>25, <1>26, Steps

\* A login with more than the lead left has a renewal coming, and so has one whose
\* renewal failed for a reason that may pass, for as long as it runs: after any
\* failures, hang-ups, deletions and restarts (arm_renewal and its callers).
THEOREM RenewalsAreScheduled == Spec => []RenewalIsScheduled
<1> DEFINE Inv == Kernel /\ Older /\ Unforced /\ OwnVerdict /\ Scheduled
<1>1. Init => Inv
  <2>1. SUFFICES ASSUME Init PROVE Inv
    OBVIOUS
  <2>2. Older /\ Unforced /\ OwnVerdict /\ Scheduled
    BY <2>1 DEF Init, Older, Unforced, OwnVerdict, Scheduled, Due, Callers, Critical, Exchanging
  <2> QED BY <2>1, <2>2, InitKernel
<1>2. Inv /\ [Next]_vars => Inv'
  BY KernelKept, OlderKept, VerdictsKept, ScheduleKept
<1>3. Inv => RenewalIsScheduled
  <2>1. SUFFICES ASSUME Inv, booted, vault # None,
                        \/ vault.life = "fresh"
                        \/ vault.life = "near" /\ failure # None /\ failure.kind = "transient"
                             /\ failure.of = vault.by
                 PROVE  Pending \/ timer = "missed"
    BY DEF RenewalIsScheduled
  <2>2. SeenTo BY <2>1 DEF Scheduled, Due
  <2>3. CASE timer # "none" BY <2>1, <2>3 DEF Pending, Kernel, TypeOK
  <2>4. CASE timer = "none" BY <2>2, <2>4 DEF SeenTo, Pending, Busy, Exchanging, Callers
  <2> QED BY <2>3, <2>4
<1> HIDE DEF Inv
<1> QED BY <1>1, <1>2, <1>3, PTL DEF Spec

-----------------------------------------------------------------------------
(* What the timers may still cost when nobody asks *)

\* The fired timers whose renewal may still fail, or set the next timer.
Underway == {c \in Timers : pc[c] \in ({"wait"} \cup Critical) \ {"giving_up"}}

\* With the one that sleeps: how many more failures nobody asked for.
Coming == Cardinality(Underway) + (IF timer = "armed" THEN 1 ELSE 0)

\* A count that is not full bounds the failures; a full one lets each timer that
\* was set before fail once more.
Budget ==
  /\ attempts < MaxAttempts => alone <= attempts
  /\ attempts = MaxAttempts => alone + Coming <= MaxAttempts + Cardinality(Timers)

\* Whoever asks starts the row again, and at boot no timer goes before it is armed.
Asked == \A a \in Agents : pc[a] \in Critical => alone = 0
Unarmed == ~booted => alone = 0 /\ \A c \in Timers : pc[c] = "idle"

Limits == Budget /\ Asked /\ Unarmed

LEMMA Counts ==
  /\ IsFiniteSet(Underway) /\ Cardinality(Underway) \in Nat
  /\ Cardinality(Timers) \in Nat /\ Cardinality(Underway) <= Cardinality(Timers)
<1>1. IsFiniteSet(Timers) /\ Underway \subseteq Timers
  BY RenewalAssumption DEF Underway
<1> QED BY <1>1, FS_Subset, FS_CardinalityType

LEMMA CountsNext ==
  /\ IsFiniteSet(Underway') /\ Cardinality(Underway') \in Nat
  /\ Cardinality(Underway') <= Cardinality(Timers)
<1>1. IsFiniteSet(Timers) /\ Underway' \subseteq Timers
  BY RenewalAssumption DEF Underway
<1> QED BY <1>1, FS_Subset, FS_CardinalityType

LEMMA NoMore ==
  ASSUME Underway' \subseteq Underway
  PROVE  Cardinality(Underway') <= Cardinality(Underway)
BY Counts, FS_Subset

LEMMA OneLess ==
  ASSUME NEW c \in Underway, Underway' \subseteq Underway \ {c}
  PROVE  Cardinality(Underway') + 1 <= Cardinality(Underway)
<1>1. IsFiniteSet(Underway \ {c}) /\ Cardinality(Underway \ {c}) = Cardinality(Underway) - 1
  BY Counts, FS_RemoveElement
<1>2. Cardinality(Underway') <= Cardinality(Underway \ {c})
  BY <1>1, FS_Subset
<1> QED BY <1>1, <1>2, Counts, CountsNext

LEMMA OneMore ==
  ASSUME NEW c, Underway' \subseteq Underway \cup {c}
  PROVE  Cardinality(Underway') <= Cardinality(Underway) + 1
<1>0. /\ IsFiniteSet(Underway \cup {c})
      /\ Cardinality(Underway \cup {c}) =
           IF c \in Underway THEN Cardinality(Underway) ELSE Cardinality(Underway) + 1
  BY Counts, FS_AddElement
<1>1. /\ IsFiniteSet(Underway \cup {c})
      /\ Cardinality(Underway \cup {c}) <= Cardinality(Underway) + 1
  BY <1>0, Counts
<1>2. Cardinality(Underway') <= Cardinality(Underway \cup {c})
  BY <1>1, FS_Subset
<1>3. Cardinality(Underway \cup {c}) \in Nat
  BY <1>1, FS_CardinalityType
<1> QED BY <1>1, <1>2, <1>3, Counts, CountsNext

\* What is coming is at most every timer there may be, and the one that sleeps.
LEMMA BudgetOfNone ==
  ASSUME TypeOK', alone' = 0
  PROVE  Budget'
<1>1. attempts' \in Nat /\ MaxAttempts \in Nat \ {0}
  BY RenewalAssumption DEF TypeOK
<1>2. Coming' <= Cardinality(Timers) + 1
  BY CountsNext, Counts DEF Coming
<1>3. Coming' \in Nat
  BY CountsNext DEF Coming
<1> QED BY <1>1, <1>2, <1>3, Counts DEF Budget

LEMMA BudgetOfFewer ==
  ASSUME TypeOK, Budget, attempts' = attempts, alone' = alone, Coming' <= Coming
  PROVE  Budget'
<1>1. alone \in Nat /\ attempts \in Nat /\ MaxAttempts \in Nat
  BY RenewalAssumption DEF TypeOK
<1>2. Coming' \in Nat /\ Coming \in Nat
  BY CountsNext, Counts DEF Coming
<1> QED BY <1>1, <1>2, Counts DEF Budget

\* A caller that moves, and the timer.
LEMMA Movers ==
  ASSUME TypeOK, NEW c \in Callers, NEW to, Goes(c, to)
  PROVE  /\ \A d \in Callers : pc'[d] = IF d = c THEN to ELSE pc[d]
         /\ to \in ({"wait"} \cup Critical) \ {"giving_up"} => Underway' \subseteq Underway \cup {c}
         /\ to \notin ({"wait"} \cup Critical) \ {"giving_up"} => Underway' \subseteq Underway \ {c}
         /\ c \in Agents => Underway' = Underway
         /\ pc[c] \in ({"wait"} \cup Critical) \ {"giving_up"} => Underway' \subseteq Underway
<1>1. \A d \in Callers : pc'[d] = IF d = c THEN to ELSE pc[d]
  BY DEF Goes, TypeOK
<1>2. Timers \subseteq Callers /\ (c \in Agents => c \notin Timers)
  BY RenewalAssumption DEF Callers
<1> QED BY <1>1, <1>2 DEF Underway

\* A caller that goes on or ends spends at most what it had; a timer that ends may
\* leave one asleep in its place.
LEMMA ComingKept ==
  ASSUME TypeOK, TypeOK', NEW c \in Callers, NEW to, Goes(c, to),
         \/ pc[c] \in ({"wait"} \cup Critical) \ {"giving_up"}
         \/ to \notin ({"wait"} \cup Critical) \ {"giving_up"},
         \/ timer' = timer
         \/ /\ c \in Timers /\ pc[c] \in ({"wait"} \cup Critical) \ {"giving_up"}
            /\ to \notin ({"wait"} \cup Critical) \ {"giving_up"}
  PROVE  Coming' <= Coming
<1>1. Underway' \subseteq Underway
  BY Movers
<1>2. CASE timer' = timer
  BY <1>1, <1>2, NoMore, Counts, CountsNext DEF Coming
<1>3. CASE /\ c \in Timers /\ pc[c] \in ({"wait"} \cup Critical) \ {"giving_up"}
           /\ to \notin ({"wait"} \cup Critical) \ {"giving_up"}
  <2>1. c \in Underway /\ Underway' \subseteq Underway \ {c}
    BY <1>3, Movers DEF Underway
  <2> QED BY <2>1, OneLess, Counts, CountsNext DEF Coming
<1> QED BY <1>2, <1>3

LEMMA AskedByOthers ==
  ASSUME TypeOK, Asked, alone' \in {alone, 0},
         \A a \in Agents : pc'[a] \in Critical => pc[a] \in Critical \/ alone' = 0
  PROVE  Asked'
BY DEF Asked

\* A failure: a timer's counts against the row, and is its last when it is full.
LEMMA FailureIsCounted ==
  ASSUME TypeOK, TypeOK', OneAtATime, Limits, NEW c \in Callers, ExchangeFails(c)
  PROVE  Limits'
<1>1. PICK p \in BOOLEAN, a \in BOOLEAN : Fails(c, p, a)
  BY DEF ExchangeFails
<1> DEFINE final == p \/ (a /\ Tries >= MaxAttempts)
           to == IF final THEN "giving_up" ELSE "retrying"
<1>2. /\ pc[c] \in Exchanging /\ Goes(c, to) /\ timer' = timer /\ booted' = booted
      /\ attempts' = IF a THEN Tries ELSE attempts
      /\ alone' = IF c \in Timers /\ a THEN alone + 1 ELSE alone
  BY <1>1 DEF ExchangeFails, Fails
<1>3. \A d \in Callers : pc'[d] = IF d = c THEN to ELSE pc[d]
  BY <1>2, Movers
<1>4. pc[c] \in ({"wait"} \cup Critical) \ {"giving_up"}
  BY <1>2 DEF Exchanging, Critical
<1>5. Coming' <= Coming
  BY <1>2, <1>4, ComingKept
<1>6. /\ alone \in Nat /\ attempts \in 0..MaxAttempts /\ MaxAttempts \in Nat \ {0}
      /\ Coming \in Nat /\ Coming' \in Nat /\ Cardinality(Timers) \in Nat
  BY RenewalAssumption, Counts, CountsNext DEF TypeOK, Coming
<1>7. Budget'
  <2>1. CASE ~a
    <3>1. attempts' = attempts /\ alone' = alone
      BY <1>2, <2>1
    <3> QED BY <1>5, <3>1, BudgetOfFewer DEF Limits
  <2>2. CASE a /\ c \in Agents
    <3>1. alone = 0
      BY <1>2, <2>2 DEF Limits, Asked, Exchanging, Critical
    <3>2. alone' = 0
      BY <1>2, <2>2, <3>1, RenewalAssumption
    <3> QED BY <3>2, BudgetOfNone
  <2>3. CASE a /\ c \in Timers
    <3>1. alone' = alone + 1 /\ attempts' = Tries
      BY <1>2, <2>3
    <3>2. CASE Tries < MaxAttempts
      BY <1>6, <3>1, <3>2 DEF Tries, Limits, Budget
    <3>3. CASE Tries >= MaxAttempts
      <4>1. to = "giving_up" /\ Tries = MaxAttempts
        BY <1>6, <2>3, <3>3 DEF Tries
      <4>2. c \in Underway /\ Underway' \subseteq Underway \ {c}
        BY <1>2, <1>4, <2>3, <4>1, Movers DEF Underway
      <4>3. Cardinality(Underway') + 1 <= Cardinality(Underway)
        BY <4>2, OneLess
      <4>4. CASE attempts = MaxAttempts
        <5>1. CASE timer = "armed"
          <6>1. Coming = Cardinality(Underway) + 1 /\ Coming' = Cardinality(Underway') + 1
            BY <1>2, <5>1 DEF Coming
          <6> QED BY <1>6, <3>1, <4>1, <4>3, <4>4, <6>1, Counts, CountsNext DEF Limits, Budget
        <5>2. CASE timer # "armed"
          <6>1. Coming = Cardinality(Underway) + 0 /\ Coming' = Cardinality(Underway') + 0
            BY <1>2, <5>2 DEF Coming
          <6> QED BY <1>6, <3>1, <4>1, <4>3, <4>4, <6>1, Counts, CountsNext DEF Limits, Budget
        <5> QED BY <5>1, <5>2
      <4>5. CASE attempts < MaxAttempts
        <5>1. alone' <= MaxAttempts
          BY <1>6, <3>1, <4>5 DEF Limits, Budget
        <5>2. Coming' <= Cardinality(Timers)
          BY <1>2, <4>3, Counts, CountsNext DEF Coming
        <5> QED BY <1>6, <3>1, <4>1, <5>1, <5>2 DEF Budget
      <4> QED BY <1>6, <4>4, <4>5
    <3> QED BY <1>6, <3>2, <3>3 DEF Tries
  <2> QED BY <2>1, <2>2, <2>3 DEF Callers
<1>8. Asked'
  <2>1. ASSUME NEW d \in Agents, pc'[d] \in Critical
        PROVE  alone' = 0
    <3>1. pc[d] \in Critical /\ d \in Callers
      BY <1>2, <1>3, <2>1 DEF Callers, Exchanging, Critical
    <3>2. d = c
      BY <1>2, <3>1 DEF OneAtATime, Exchanging, Critical
    <3>3. alone = 0 /\ c \notin Timers
      BY <2>1, <3>1, <3>2, RenewalAssumption DEF Limits, Asked
    <3> QED BY <1>2, <3>3
  <2> QED BY <2>1 DEF Asked
<1>9. Unarmed'
  <2>1. ~booted => c \notin Timers
    BY <1>2 DEF Limits, Unarmed, Exchanging
  <2> QED BY <1>2, <1>3, <2>1 DEF Limits, Unarmed, Callers
<1> QED BY <1>7, <1>8, <1>9 DEF Limits

\* Whatever else a caller does under the lock or after it.
LEMMA LimitsOfCaller ==
  ASSUME TypeOK, TypeOK', Limits, NEW c \in Callers,
         Enter(c) \/ ServerRenews(c) \/ Store(c) \/ Warn(c) \/ Forgive(c) \/ Arm(c)
         \/ Granted(c) \/ Refused(c)
  PROVE  Limits'
<1> DEFINE Counted == ({"wait"} \cup Critical) \ {"giving_up"}
<1>1. booted' = booted /\ alone' \in {alone, 0}
  BY DEF Enter, ServerRenews, Store, Warn, Forgive, Arm, Granted, Refused
<1>2. \E to \in ({"idle", "granted", "refused"} \cup Critical) \ {"giving_up"} :
        /\ Goes(c, to)
        /\ pc[c] \in Counted \/ to \in {"idle", "granted", "refused"}
        /\ timer' = timer \/ (pc[c] \in Counted /\ to \in {"granted", "refused"})
        /\ to \in Critical => pc[c] \in Critical \/ alone' = 0 \/ c \in Timers
        /\ pc[c] # "idle"
  <2>1. CASE Enter(c)
    <3>1. alone' = 0 \/ c \in Timers
      BY <2>1 DEF Enter, Callers
    <3> QED BY <2>1, <3>1 DEF Enter, Critical, Exchanging
  <2>2. CASE ServerRenews(c) \/ Store(c) \/ Forgive(c) \/ Granted(c) \/ Refused(c)
    BY <2>2 DEF ServerRenews, Store, Forgive, Granted, Refused, Critical, Exchanging
  <2>3. CASE Warn(c)
    <3>1. timer' = timer \/ pc[c] = "retrying"
      BY <2>3 DEF Warn, TypeOK
    <3> QED BY <2>3, <3>1 DEF Warn, Critical, Exchanging
  <2>4. CASE Arm(c)
    BY <2>4 DEF Arm, Critical, Exchanging
  <2> QED BY <2>1, <2>2, <2>3, <2>4
<1>3. PICK to \in ({"idle", "granted", "refused"} \cup Critical) \ {"giving_up"} :
        /\ Goes(c, to)
        /\ pc[c] \in Counted \/ to \in {"idle", "granted", "refused"}
        /\ timer' = timer \/ (pc[c] \in Counted /\ to \in {"granted", "refused"})
        /\ to \in Critical => pc[c] \in Critical \/ alone' = 0 \/ c \in Timers
        /\ pc[c] # "idle"
  BY <1>2
<1>4. \A d \in Callers : pc'[d] = IF d = c THEN to ELSE pc[d]
  BY <1>3, Movers
<1>5. Asked'
  BY <1>1, <1>3, <1>4, AskedByOthers, RenewalAssumption DEF Limits, Callers
<1>6. Unarmed'
  BY <1>1, <1>3, <1>4 DEF Limits, Unarmed, Callers
<1>7. Budget'
  <2>1. CASE alone' = 0
    BY <2>1, BudgetOfNone
  <2>2. CASE alone' # 0
    <3>1. alone' = alone /\ attempts' = attempts
      BY <1>1, <2>2 DEF Enter, ServerRenews, Store, Warn, Forgive, Arm, Granted, Refused, record
    <3>2. c \in Timers \/ timer' = timer
      <4>1. ASSUME c \in Agents, timer' # timer
            PROVE  FALSE
        <5>1. ~Enter(c)
          BY <2>2, <4>1 DEF Enter
        <5>2. pc[c] \in Critical
          BY <4>1, <5>1 DEF ServerRenews, Store, Warn, Forgive, Arm, Granted, Refused, Critical
        <5> QED BY <2>2, <3>1, <4>1, <5>2 DEF Limits, Asked
      <4> QED BY <4>1 DEF Callers
    <3>3. Coming' <= Coming
      BY <1>3, <3>2, ComingKept DEF Critical, Exchanging
    <3> QED BY <3>1, <3>3, BudgetOfFewer DEF Limits
  <2> QED BY <2>1, <2>2
<1> QED BY <1>5, <1>6, <1>7 DEF Limits

LEMMA LimitsKept ==
  ASSUME TypeOK, TypeOK', OneAtATime, Limits, [Next]_vars
  PROVE  Limits'
<1>z. alone' = 0 /\ booted' = booted /\ pc' = pc => Limits'
  BY BudgetOfNone DEF Limits, Asked, Unarmed
<1>y. ASSUME alone' = alone, attempts' = attempts, timer' = timer, booted' = booted,
             pc' = pc
      PROVE  Limits'
  <2>2. Underway' = Underway
    BY <1>y DEF Underway
  <2>3. Coming' <= Coming
    BY <1>y, <2>2, Counts DEF Coming
  <2>4. Budget'
    BY <1>y, <2>3, BudgetOfFewer DEF Limits
  <2> QED BY <1>y, <2>4 DEF Limits, Asked, Unarmed
<1>x. ASSUME NEW a \in Agents, NEW to \in {"idle", "wait"}, Goes(a, to), timer' = timer,
             alone' = alone, attempts' = attempts, booted' = booted
      PROVE  Limits'
  <2>1. a \in Callers /\ \A d \in Callers : pc'[d] = IF d = a THEN to ELSE pc[d]
    BY <1>x, Movers DEF Callers
  <2>2. Underway' = Underway
    BY <1>x, <2>1, Movers
  <2>3. Budget'
    BY <1>x, <2>2 DEF Limits, Budget, Coming
  <2>4. Asked'
    BY <1>x, <2>1, AskedByOthers DEF Limits, Callers, Critical, Exchanging
  <2>5. Unarmed'
    BY <1>x, <2>1, RenewalAssumption DEF Limits, Unarmed, Callers
  <2> QED BY <2>3, <2>4, <2>5 DEF Limits
<1>0. CASE UNCHANGED vars
  BY <1>0, <1>y DEF vars
<1>1. ASSUME NEW a \in Agents, StartAsks(a) \/ TurnFails(a) \/ ReaderParks(a) \/ Resume(a)
                               \/ StartDropped(a)
      PROVE  Limits'
  <2>1. CASE StartAsks(a) \/ StartDropped(a)
    BY <2>1, <1>x, <1>y DEF StartAsks, StartDropped, record
  <2>2. CASE TurnFails(a)
    BY <2>2, <1>x, <1>y DEF TurnFails, record
  <2>3. CASE ReaderParks(a) \/ Resume(a)
    BY <2>3, <1>y DEF ReaderParks, Resume, record
  <2> QED BY <1>1, <2>1, <2>2, <2>3
<1>2. ASSUME NEW c \in Timers, TimerFires(c) PROVE Limits'
  <2>m. CASE pc' = pc
    <3>1. /\ timer' = "missed" /\ alone' = alone /\ attempts' = attempts /\ booted' = booted
          /\ Underway' = Underway
      BY <1>2, <2>m DEF TimerFires, record, Underway, Goes, TypeOK, Callers
    <3>2. Coming' <= Coming BY <3>1, Counts DEF Coming
    <3> QED BY <2>m, <3>1, <3>2, BudgetOfFewer DEF Limits, Asked, Unarmed
  <2> SUFFICES ASSUME pc' # pc PROVE Limits'
    BY <2>m
  <2>1. /\ c \in Callers /\ Goes(c, "wait") /\ timer = "armed" /\ timer' = "none"
        /\ alone' = alone /\ attempts' = attempts /\ booted /\ booted'
    BY <1>2 DEF TimerFires, Callers, record, TypeOK
  <2>2. \A d \in Callers : pc'[d] = IF d = c THEN "wait" ELSE pc[d]
    BY <2>1, Movers
  <2>3. Underway' \subseteq Underway \cup {c}
    BY <2>1, Movers DEF Critical, Exchanging
  <2>4. Coming' <= Coming
    BY <2>1, <2>3, OneMore, Counts, CountsNext DEF Coming
  <2>5. Budget'
    BY <2>1, <2>4, BudgetOfFewer DEF Limits
  <2>6. Asked'
    BY <2>1, <2>2, AskedByOthers DEF Limits, Callers, Critical, Exchanging
  <2> QED BY <2>1, <2>5, <2>6 DEF Limits, Unarmed
<1>3. ASSUME NEW c \in Callers, Enter(c) \/ ServerRenews(c) \/ Store(c) \/ ExchangeFails(c)
                                \/ Warn(c) \/ Forgive(c) \/ Arm(c) \/ Granted(c) \/ Refused(c)
      PROVE  Limits'
  BY <1>3, FailureIsCounted, LimitsOfCaller
<1>4. CASE SignInStores \/ SignInAnswers \/ SignInDropped \/ TimePasses \/ FloorPasses
           \/ LoginDeleted
  BY <1>4, <1>y DEF SignInStores, SignInAnswers, SignInDropped, TimePasses, FloorPasses,
     LoginDeleted, record
<1>5. CASE SignInForgets \/ SignInArms
  BY <1>5, <1>z DEF SignInForgets, SignInArms
<1>6. CASE Restart
  <2>1. alone' = 0 /\ \A c \in Callers : pc'[c] = "idle"
    BY <1>6 DEF Restart
  <2> QED BY <2>1, BudgetOfNone DEF Limits, Asked, Unarmed, Callers
<1>7. CASE BootArms
  <2>1. alone' = 0 /\ booted' /\ pc' = pc
    BY <1>7 DEF BootArms, Limits, Unarmed
  <2> QED BY <2>1, BudgetOfNone DEF Limits, Asked, Unarmed
<1> QED
  BY <1>0, <1>1, <1>2, <1>3, <1>4, <1>5, <1>6, <1>7, Steps

\* With nobody asking, the engine stops trying: it fails MaxAttempts times in a row
\* for reasons it could not read, and each timer that was set before once more.
THEOREM TheEngineGivesUp == Spec => []EngineGivesUp
<1> DEFINE Inv == Kernel /\ Limits
<1>1. Init => Inv
  <2>1. SUFFICES ASSUME Init PROVE Limits
    BY InitKernel
  <2>2. Cardinality(Underway) \in Nat /\ Cardinality(Timers) \in Nat
         /\ Cardinality(Underway) <= Cardinality(Timers)
    BY Counts
  <2> QED BY <2>1, <2>2, RenewalAssumption DEF Init, Limits, Budget, Asked, Unarmed, Coming
<1>2. Inv /\ [Next]_vars => Inv'
  <2>1. Inv /\ [Next]_vars => Kernel'
    BY KernelKept
  <2> QED BY <2>1, LimitsKept DEF Kernel
<1>3. Inv => EngineGivesUp
  <2>1. SUFFICES ASSUME Inv PROVE EngineGivesUp
    OBVIOUS
  <2>2. alone \in Nat /\ attempts \in 0..MaxAttempts /\ MaxAttempts \in Nat
    BY <2>1, RenewalAssumption DEF Kernel, TypeOK
  <2>3. Coming \in Nat
    BY Counts DEF Coming
  <2> QED BY <2>1, <2>2, <2>3, Counts DEF Limits, Budget, EngineGivesUp
<1> HIDE DEF Inv
<1> QED BY <1>1, <1>2, <1>3, PTL DEF Spec
====
