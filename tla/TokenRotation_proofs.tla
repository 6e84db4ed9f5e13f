------------------------ MODULE TokenRotation_proofs ------------------------
(***************************************************************************)
(* Theorems about TokenRotation, for any calls, time, expiry, overlap and  *)
(* number of failures.                                                     *)
(*                                                                         *)
(* ExchangesAreLimited counts exchanges that ended; the invariant counts   *)
(* the calls on their way to one as well (ExchangeInv).                    *)
(***************************************************************************)
EXTENDS TokenRotation, FiniteSetTheorems, TLAPS

\* What a call holds, by its next statement.
LEMMA CallFields ==
    ASSUME TypeOK, NEW c \in Call
    PROVE  /\ call[c].pc \in {"revoke", "mint"} =>
                call[c] \in [pc: {"revoke", "mint"}, kind: {"refresh"}, old: Token]
           /\ call[c].pc = "store" =>
                call[c] \in [pc: {"store"}, kind: Kind, old: Token \cup {None}, new: Token]
           /\ call[c].pc = "done" => call[c] \in [pc: {"done"}, kind: Kind]
           /\ call[c].pc \notin {"idle", "done"} => call[c].kind \in Kind
  <1>1. call[c] \in CallState
    BY DEF TypeOK
  <1> QED
    BY <1>1 DEF CallState, Kind

\* A call that goes on with a legal state leaves the calls typed.
LEMMA GotoTyped ==
    ASSUME TypeOK, NEW c \in Call, NEW s \in CallState, Goto(c, s)
    PROVE  call' \in [Call -> CallState] /\ call'[c] = s /\ \A d \in Call \ {c} : call'[d] = call[d]
  BY DEF TypeOK, Goto

\* A call that answers leaves calls and answers typed.
LEMMA AnswerTyped ==
    ASSUME TypeOK, NEW c \in Call, call[c].kind \in Kind, NEW a \in Token \cup {None}, Answer(c, a)
    PROVE  /\ call' \in [Call -> CallState] /\ answer' \in [Call -> Token \cup {None}]
           /\ call'[c] = [pc |-> "done", kind |-> call[c].kind] /\ answer'[c] = a
           /\ \A d \in Call \ {c} : call'[d] = call[d] /\ answer'[d] = answer[d]
  <1>1. [pc |-> "done", kind |-> call[c].kind] \in CallState
    BY DEF CallState
  <1> QED
    BY <1>1, GotoTyped DEF Answer, TypeOK

LEMMA TokenNat == Token \subseteq Nat /\ None \notin Token
  BY TokenAssumption DEF Token

(***************************************************************************)
(* The steps on refresh_tokens.                                            *)
(***************************************************************************)
\* A row is inserted where there is none, a presented token is revoked, or rows
\* past their expiry are.
Inserts(t) ==
    ~Stored(t) /\ row' = [row EXCEPT ![t] = [revoked |-> FALSE, expires |-> now + TTL]]
Revokes(t) ==
    row' = [row EXCEPT ![t].revoked = TRUE]
Sweeps ==
    row' = [t \in Token |-> IF Live(t) /\ row[t].expires < now
                            THEN [row[t] EXCEPT !.revoked = TRUE] ELSE row[t]]

\* What a call in flight has done: the token it works on was presented and has
\* a row; the token it has made is not younger than the clock.
CallsBacked ==
    \A c \in Call :
       /\ call[c].pc \in {"revoke", "mint"} => call[c].old \in presented /\ Stored(call[c].old)
       /\ call[c].pc = "store" => call[c].new <= now

\* A row outlives the token it stands for.
RowsOutlive == \A t \in Token : Stored(t) => t + TTL <= row[t].expires

\* An answer given by a login or a rotation has its row.
AnswersAreStored ==
    \A c \in Call : (call[c].pc = "done" /\ call[c].kind # "register" /\ answer[c] # None) => Stored(answer[c])

IInv == TypeOK /\ CallsBacked /\ RowsOutlive /\ AnswersAreStored /\ AnswersAreDistinct

\* How a step changes the rows.
RowEffect ==
    \/ row' = row
    \/ \E t \in Token : t <= now /\ Inserts(t)
    \/ \E t \in Token : t \in presented /\ Stored(t) /\ Revokes(t)
    \/ Sweeps

LEMMA RowSteps ==
    ASSUME TypeOK, CallsBacked, [Next]_vars
    PROVE  RowEffect
  <1>1. ASSUME NEW c \in Call, Revoke(c) PROVE RowEffect
    <2>1. call[c].old \in Token /\ call[c].old \in presented /\ Stored(call[c].old)
      BY <1>1, CallFields DEF Revoke, CallsBacked
    <2> QED
      BY <1>1, <2>1 DEF Revoke, RowEffect, Revokes
  <1>2. ASSUME NEW c \in Call, Store(c) PROVE RowEffect
    <2>1. call[c].new \in Token /\ call[c].new <= now
      BY <1>2, CallFields DEF Store, CallsBacked
    <2> QED
      BY <1>2, <2>1 DEF Store, RowEffect, Inserts
  <1>3. CASE ExpireRefreshTokens
    BY <1>3 DEF ExpireRefreshTokens, RowEffect, Sweeps
  <1> QED
    BY <1>1, <1>2, <1>3 DEF Next, Tick, Login, Register, ReadToken, Mint, Fail, db, vars, RowEffect

\* Rows keep their type, stay, keep their expiry and stay revoked; a row that
\* is revoked was presented or is past its expiry.
LEMMA RowsKeep ==
    ASSUME TypeOK, RowEffect
    PROVE  /\ row' \in [Token -> Row \cup {None}]
           /\ \A t \in Token : Stored(t) =>
                 /\ row'[t] # None /\ row'[t].expires = row[t].expires
                 /\ row[t].revoked => row'[t].revoked
                 /\ (Live(t) /\ row'[t].revoked) => (t \in presented \/ row[t].expires < now)
           /\ \A t \in Token : (~Stored(t) /\ row'[t] # None) => t <= now /\ row'[t].expires = now + TTL
  <1>1. \A t \in Token : Stored(t) => row[t] \in Row
    BY DEF TypeOK, Stored
  <1>2. \A r \in Row : r # None
    BY NoneAssumption
  <1>3. \A t \in Token : Stored(t) =>
           /\ [row[t] EXCEPT !.revoked = TRUE] \in Row
           /\ [row[t] EXCEPT !.revoked = TRUE].expires = row[t].expires
           /\ [row[t] EXCEPT !.revoked = TRUE].revoked = TRUE
    BY <1>1 DEF Row
  <1>4. CASE row' = row
    BY <1>4 DEF TypeOK, Stored, Live
  <1>5. ASSUME NEW t \in Token, t <= now, Inserts(t)
        PROVE  /\ row' \in [Token -> Row \cup {None}]
               /\ \A u \in Token : Stored(u) => row'[u] = row[u]
               /\ \A u \in Token : (~Stored(u) /\ row'[u] # None) => u <= now /\ row'[u].expires = now + TTL
    <2>1. [revoked |-> FALSE, expires |-> now + TTL] \in Row
      BY TokenAssumption DEF TypeOK, Token, Row
    <2> QED
      BY <1>5, <2>1 DEF Inserts, TypeOK, Stored
  <1>6. ASSUME NEW t \in Token, t \in presented, Stored(t), Revokes(t)
        PROVE  /\ row' \in [Token -> Row \cup {None}]
               /\ row'[t] = [row[t] EXCEPT !.revoked = TRUE]
               /\ \A u \in Token \ {t} : row'[u] = row[u]
    BY <1>3, <1>6 DEF Revokes, TypeOK
  <1>7. ASSUME Sweeps
        PROVE  /\ row' \in [Token -> Row \cup {None}]
               /\ \A u \in Token : row'[u] = IF Live(u) /\ row[u].expires < now
                                             THEN [row[u] EXCEPT !.revoked = TRUE] ELSE row[u]
    <2>1. \A u \in Token : Live(u) => Stored(u)
      BY DEF Live
    <2> QED
      BY <1>3, <1>7, <2>1 DEF Sweeps, TypeOK
  <1>8. CASE \E t \in Token : t <= now /\ Inserts(t)
    BY <1>5, <1>8 DEF Stored, Live
  <1>9. CASE \E t \in Token : t \in presented /\ Stored(t) /\ Revokes(t)
    <2>1. PICK t \in Token : t \in presented /\ Stored(t) /\ Revokes(t)
      BY <1>9
    <2>2. \A u \in Token \ {t} : row'[u] = row[u]
      BY <1>6, <2>1
    <2>3. row'[t] # None /\ row'[t].expires = row[t].expires /\ row'[t].revoked
      BY <1>2, <1>3, <1>6, <2>1
    <2> QED
      BY <1>6, <2>1, <2>2, <2>3 DEF Stored, Live
  <1>10. CASE Sweeps
    BY <1>2, <1>3, <1>7, <1>10 DEF Stored, Live
  <1> QED
    BY <1>4, <1>8, <1>9, <1>10 DEF RowEffect

(***************************************************************************)
(* The calls.                                                              *)
(***************************************************************************)
\* A call in flight goes on, and its new state is typed and backed.
Goes(c) ==
    /\ answer' = answer
    /\ \E s \in CallState :
          /\ Goto(c, s) /\ s.pc # "done"
          /\ s.pc \in {"revoke", "mint"} => s.old \in presented' /\ Stored(s.old)
          /\ s.pc = "store" => s.new <= now

\* A call ends; an answer of a login or a rotation comes with its row, inserted
\* in this step.
Ends(c) ==
    /\ call[c].kind \in Kind
    /\ \E a \in Token \cup {None} :
          /\ Answer(c, a)
          /\ (call[c].kind # "register" /\ a # None) => ~Stored(a) /\ row'[a] # None

LEMMA CallSteps ==
    ASSUME TypeOK, CallsBacked, [Next]_vars
    PROVE  \/ call' = call /\ answer' = answer
           \/ \E c \in Call : Goes(c) \/ Ends(c)
  <1>0. now \in Token /\ now \in Nat /\ now <= now
    BY TokenNat DEF TypeOK
  <1>1. ASSUME NEW c \in Call, Login(c) \/ Register(c) PROVE Goes(c)
    <2> DEFINE s(k) == [pc |-> "store", kind |-> k, old |-> None, new |-> now]
    <2>1. \A k \in Kind : s(k) \in CallState /\ s(k).pc = "store" /\ s(k).new <= now
      BY <1>0 DEF CallState
    <2>2. answer' = answer /\ \E k \in Kind : Goto(c, s(k))
      BY <1>1 DEF Login, Register, Kind
    <2> QED
      BY <2>1, <2>2 DEF Goes
  <1>2. ASSUME NEW c \in Call, NEW t \in Token, ReadToken(c, t) PROVE Goes(c)
    <2> DEFINE s == [pc |-> "revoke", kind |-> "refresh", old |-> t]
    <2>1. s \in CallState /\ Goto(c, s) /\ answer' = answer /\ t \in presented' /\ Stored(t)
      BY <1>2 DEF CallState, ReadToken, Live
    <2> QED
      BY <2>1 DEF Goes
  <1>3. ASSUME NEW c \in Call, Revoke(c) PROVE Goes(c)
    <2> DEFINE s == [call[c] EXCEPT !.pc = "mint"]
    <2>1. call[c] \in [pc: {"revoke", "mint"}, kind: {"refresh"}, old: Token]
      BY <1>3, CallFields DEF Revoke
    <2>2. s \in CallState /\ s.pc = "mint" /\ s.old = call[c].old
      BY <2>1 DEF CallState
    <2>3. Goto(c, s) /\ answer' = answer /\ s.old \in presented' /\ Stored(s.old)
      BY <1>3, <2>2 DEF Revoke, CallsBacked
    <2> QED
      BY <2>2, <2>3 DEF Goes
  <1>4. ASSUME NEW c \in Call, Mint(c) PROVE Goes(c)
    <2> DEFINE s == [pc |-> "store", kind |-> "refresh", old |-> call[c].old, new |-> now]
    <2>1. call[c].old \in Token
      BY <1>4, CallFields DEF Mint
    <2>2. s \in CallState /\ s.pc = "store" /\ s.new <= now
      BY <1>0, <2>1 DEF CallState, Kind
    <2>3. Goto(c, s) /\ answer' = answer
      BY <1>4 DEF Mint
    <2> QED
      BY <2>2, <2>3 DEF Goes
  <1>5. ASSUME NEW c \in Call, Store(c) PROVE Ends(c)
    <2> DEFINE k == call[c]
    <2>1. k.kind \in Kind /\ k.new \in Token
      BY <1>5, CallFields DEF Store
    <2>2. PICK inserted \in BOOLEAN :
             /\ inserted => ~Stored(k.new)
             /\ row' = IF inserted THEN [row EXCEPT ![k.new] = [revoked |-> FALSE, expires |-> now + TTL]]
                                   ELSE row
             /\ Answer(c, IF inserted \/ k.kind = "register" THEN k.new ELSE None)
      BY <1>5 DEF Store
    <2>3. CASE inserted
      <3>1. [revoked |-> FALSE, expires |-> now + TTL] \in Row
        BY <1>0, TokenAssumption DEF TypeOK, Token, Row
      <3>2. row'[k.new] # None
        BY <2>1, <2>2, <2>3, <3>1, NoneAssumption DEF TypeOK
      <3> QED
        BY <2>1, <2>2, <2>3, <3>2 DEF Ends
    <2>4. CASE ~inserted
      BY <2>1, <2>2, <2>4, TokenNat DEF Ends
    <2> QED
      BY <2>3, <2>4
  <1>6. ASSUME NEW c \in Call, Fail(c) PROVE Ends(c)
    <2>1. call[c].kind \in Kind
      BY <1>6, CallFields DEF Fail, InFlight
    <2> QED
      BY <1>6, <2>1 DEF Fail, Ends
  <1> QED
    BY <1>1, <1>2, <1>3, <1>4, <1>5, <1>6 DEF Next, Tick, ExpireRefreshTokens, vars

LEMMA TypeStep ==
    ASSUME TypeOK, CallsBacked, [Next]_vars
    PROVE  TypeOK'
  <1>1. row' \in [Token -> Row \cup {None}]
    BY RowSteps, RowsKeep
  <1>2. call' \in [Call -> CallState] /\ answer' \in [Call -> Token \cup {None}]
    <2>1. ASSUME NEW c \in Call, Goes(c)
          PROVE  call' \in [Call -> CallState] /\ answer' \in [Call -> Token \cup {None}]
      BY <2>1, GotoTyped DEF Goes, TypeOK
    <2>2. ASSUME NEW c \in Call, Ends(c)
          PROVE  call' \in [Call -> CallState] /\ answer' \in [Call -> Token \cup {None}]
      BY <2>2, AnswerTyped DEF Ends
    <2>3. CASE call' = call /\ answer' = answer
      BY <2>3 DEF TypeOK
    <2>4. (call' = call /\ answer' = answer) \/ \E c \in Call : Goes(c) \/ Ends(c)
      BY CallSteps
    <2> QED
      BY <2>1, <2>2, <2>3, <2>4
  <1>3. user' \in BOOLEAN
    <2>1. user \in BOOLEAN
      BY DEF TypeOK
    <2>2. CASE \E c \in Call : Register(c)
      BY <2>2 DEF Register
    <2>3. CASE ~\E c \in Call : Register(c)
      <3>1. user' = user
        BY <2>3 DEF Next, Tick, ExpireRefreshTokens, Login, ReadToken, Revoke, Mint, Store, Fail, db, vars
      <3> QED
        BY <2>1, <3>1
    <2> QED
      BY <2>2, <2>3
  <1>4. now' \in Token
    <2>1. now \in Token
      BY DEF TypeOK
    <2>2. CASE Tick
      BY <2>1, <2>2, TokenAssumption DEF Tick, Token
    <2>3. CASE ~Tick
      <3>1. now' = now
        BY <2>3 DEF Next, ExpireRefreshTokens, Login, Register, ReadToken, Revoke, Mint, Store, Fail, vars
      <3> QED
        BY <2>1, <3>1
    <2> QED
      BY <2>2, <2>3
  <1>5. presented' \subseteq Token
    BY DEF Next, Tick, ExpireRefreshTokens, Login, Register, ReadToken, Revoke, Mint, Store, Fail, vars, TypeOK
  <1>6. faults' \in 0..MaxFaults
    <2>1. faults' = faults \/ Fault
      BY DEF Next, Tick, ExpireRefreshTokens, Login, Register, ReadToken, Revoke, Mint, Store, Fail, vars
    <2> QED
      BY <2>1, TokenAssumption DEF Fault, TypeOK
  <1>7. exchanged' \in [Token -> Nat]
    <2>1. ASSUME NEW c \in Call, Store(c) PROVE exchanged' \in [Token -> Nat]
      <3>1. exchanged' = exchanged \/ exchanged' = [exchanged EXCEPT ![call[c].old] = @ + 1]
        BY <2>1 DEF Store
      <3> QED
        BY <3>1 DEF TypeOK
    <2> QED
      BY <2>1 DEF Next, Tick, ExpireRefreshTokens, Login, Register, ReadToken, Revoke, Mint, Fail, vars, TypeOK
  <1> QED
    BY <1>1, <1>2, <1>3, <1>4, <1>5, <1>6, <1>7 DEF TypeOK

LEMMA InvStep == IInv /\ [Next]_vars => IInv'
  <1> SUFFICES ASSUME IInv, [Next]_vars PROVE IInv'
    OBVIOUS
  <1>1. TypeOK /\ CallsBacked /\ RowsOutlive /\ AnswersAreStored /\ AnswersAreDistinct /\ RowEffect
    BY RowSteps DEF IInv
  <1>2. TypeOK'
    BY <1>1, TypeStep
  <1>3. \A t \in Token : Stored(t) => row'[t] # None
    BY <1>1, RowsKeep
  <1>4. presented \subseteq presented' /\ now <= now'
    <2>1. presented \subseteq presented'
      BY DEF Next, Tick, ExpireRefreshTokens, Login, Register, ReadToken, Revoke, Mint, Store, Fail, vars
    <2>2. now' = now \/ now' = now + 1
      BY DEF Next, Tick, ExpireRefreshTokens, Login, Register, ReadToken, Revoke, Mint, Store, Fail, vars
    <2>3. now \in Nat
      BY <1>1, TokenNat DEF TypeOK
    <2> QED
      BY <2>1, <2>2, <2>3
  <1>5. ASSUME NEW d \in Call, call'[d] = call[d]
        PROVE  /\ call'[d].pc \in {"revoke", "mint"} => call'[d].old \in presented' /\ row'[call'[d].old] # None
               /\ call'[d].pc = "store" => call'[d].new <= now'
    <2>1. CASE call[d].pc \in {"revoke", "mint"}
      BY <1>1, <1>3, <1>4, <1>5, <2>1, CallFields DEF CallsBacked
    <2>2. CASE call[d].pc = "store"
      <3>1. call[d].new \in Nat /\ now \in Nat /\ now' \in Nat /\ call[d].new <= now
        BY <1>1, <1>2, <2>2, CallFields, TokenNat DEF TypeOK, CallsBacked
      <3> QED
        BY <1>4, <1>5, <2>2, <3>1
    <2> QED
      BY <1>5, <2>1, <2>2
  <1>6. CallsBacked'
    <2>1. ASSUME NEW c \in Call, Goes(c) PROVE CallsBacked'
      <3>1. PICK s \in CallState :
              /\ Goto(c, s) /\ s.pc # "done"
              /\ s.pc \in {"revoke", "mint"} => s.old \in presented' /\ Stored(s.old)
              /\ s.pc = "store" => s.new <= now
        BY <2>1 DEF Goes
      <3>2. call'[c] = s /\ \A d \in Call \ {c} : call'[d] = call[d]
        BY <1>1, <3>1, GotoTyped
      <3>3. s.pc \in {"revoke", "mint"} => s.old \in Token /\ row'[s.old] # None
        BY <1>3, <3>1 DEF CallState
      <3>4. s.pc = "store" => s.new <= now'
        <4>1. s.pc = "store" => s.new \in Token
          BY DEF CallState
        <4>2. now \in Nat /\ now' \in Nat
          BY <1>1, <1>2, TokenNat DEF TypeOK
        <4>3. CASE s.pc = "store"
          <5>1. s.new \in Nat /\ s.new <= now
            BY <3>1, <4>1, <4>3, TokenNat
          <5> QED
            BY <1>4, <4>2, <5>1
        <4> QED
          BY <4>3
      <3> QED
        BY <1>5, <3>1, <3>2, <3>3, <3>4 DEF CallsBacked, Stored
    <2>2. ASSUME NEW c \in Call, Ends(c) PROVE CallsBacked'
      <3>1. call'[c].pc = "done" /\ \A d \in Call \ {c} : call'[d] = call[d]
        <4>1. PICK a \in Token \cup {None} : Answer(c, a) /\ call[c].kind \in Kind
          BY <2>2 DEF Ends
        <4>2. call'[c] = [pc |-> "done", kind |-> call[c].kind]
          BY <1>1, <4>1, AnswerTyped
        <4>3. \A d \in Call \ {c} : call'[d] = call[d]
          BY <1>1, <4>1, AnswerTyped
        <4> QED
          BY <4>2, <4>3
      <3> QED
        BY <1>5, <3>1 DEF CallsBacked, Stored
    <2> QED
      BY <1>1, <1>5, <2>1, <2>2, CallSteps DEF CallsBacked, Stored
  <1>7. RowsOutlive'
    <2> SUFFICES ASSUME NEW t \in Token, row'[t] # None PROVE t + TTL <= row'[t].expires
      BY DEF RowsOutlive, Stored
    <2>1. CASE Stored(t)
      BY <1>1, <2>1, RowsKeep DEF RowsOutlive
    <2>2. CASE ~Stored(t)
      <3>1. t <= now /\ row'[t].expires = now + TTL
        BY <1>1, <2>2, RowsKeep
      <3> QED
        <4>1. now \in Nat /\ t \in Nat /\ TTL \in Nat
          BY <1>1, TokenNat, TokenAssumption DEF TypeOK
        <4> QED
          BY <3>1, <4>1
    <2> QED
      BY <2>1, <2>2
  <1>8. AnswersAreStored' /\ AnswersAreDistinct'
    <2>1. CASE call' = call /\ answer' = answer
      <3>1. \A c \in Call : answer[c] # None => answer[c] \in Token
        BY <1>1 DEF TypeOK
      <3> QED
        BY <1>1, <1>3, <2>1, <3>1 DEF AnswersAreStored, AnswersAreDistinct, Stored
    <2>2. ASSUME NEW c \in Call, Goes(c) PROVE AnswersAreStored' /\ AnswersAreDistinct'
      <3>1. /\ answer' = answer /\ call'[c].pc # "done"
            /\ \A d \in Call \ {c} : call'[d] = call[d]
        BY <1>1, <2>2, GotoTyped DEF Goes
      <3>2. \A d \in Call : answer[d] # None => answer[d] \in Token
        BY <1>1 DEF TypeOK
      <3> QED
        BY <1>1, <1>3, <3>1, <3>2 DEF AnswersAreStored, AnswersAreDistinct, Stored
    <2>3. ASSUME NEW c \in Call, Ends(c) PROVE AnswersAreStored' /\ AnswersAreDistinct'
      <3>1. PICK a \in Token \cup {None} :
              /\ Answer(c, a) /\ call[c].kind \in Kind
              /\ (call[c].kind # "register" /\ a # None) => ~Stored(a) /\ row'[a] # None
        BY <2>3 DEF Ends
      <3>2. /\ call'[c] = [pc |-> "done", kind |-> call[c].kind] /\ answer'[c] = a
            /\ \A d \in Call \ {c} : call'[d] = call[d] /\ answer'[d] = answer[d]
        BY <1>1, <3>1, AnswerTyped
      <3>3. call'[c].kind = call[c].kind
        BY <3>2
      <3>4. \A d \in Call : answer[d] # None => answer[d] \in Token
        BY <1>1 DEF TypeOK
      <3>5. \A d \in Call \ {c} :
               (call[d].pc = "done" /\ call[d].kind # "register" /\ answer[d] # None) => Stored(answer[d])
        BY <1>1 DEF AnswersAreStored
      <3>6. AnswersAreStored'
        BY <1>3, <3>1, <3>2, <3>3, <3>4, <3>5 DEF AnswersAreStored, Stored
      <3>7. AnswersAreDistinct'
        <4> SUFFICES ASSUME NEW x \in Call, NEW y \in Call, x # y,
                            call'[x].pc = "done", call'[x].kind # "register",
                            call'[y].pc = "done", call'[y].kind # "register",
                            answer'[x] # None, answer'[x] = answer'[y]
                     PROVE  FALSE
          BY DEF AnswersAreDistinct
        <4>1. CASE x = c
          BY <3>1, <3>2, <3>3, <3>5, <4>1
        <4>2. CASE y = c
          BY <3>1, <3>2, <3>3, <3>5, <4>2
        <4>3. CASE x # c /\ y # c
          BY <1>1, <3>2, <4>3 DEF AnswersAreDistinct
        <4> QED
          BY <4>1, <4>2, <4>3
      <3> QED
        BY <3>6, <3>7
    <2> QED
      BY <1>1, <2>1, <2>2, <2>3, CallSteps
  <1> QED
    BY <1>2, <1>6, <1>7, <1>8 DEF IInv

LEMMA InvHolds == Spec => []IInv
  <1>1. Init => IInv
    <2> SUFFICES ASSUME Init PROVE IInv
      OBVIOUS
    <2>1. call \in [Call -> CallState] /\ \A c \in Call : call[c].pc = "idle"
      BY DEF Init, CallState
    <2>2. \A t \in Token : ~Stored(t)
      BY DEF Init, Stored
    <2>3. TypeOK
      <3>1. now \in Token /\ faults \in 0..MaxFaults
        BY TokenAssumption DEF Init, Token
      <3>2. /\ row \in [Token -> Row \cup {None}] /\ answer \in [Call -> Token \cup {None}]
            /\ exchanged \in [Token -> Nat] /\ presented \subseteq Token
        BY DEF Init
      <3>3. user \in BOOLEAN
        BY DEF Init
      <3> QED
        BY <2>1, <3>1, <3>2, <3>3 DEF TypeOK
    <2> QED
      BY <2>1, <2>2, <2>3 DEF IInv, CallsBacked, RowsOutlive, AnswersAreStored, AnswersAreDistinct
  <1> QED
    BY <1>1, InvStep, PTL DEF Spec

\* Every variable keeps its type.
THEOREM TypeCorrect == Spec => []TypeOK
  BY InvHolds, PTL DEF IInv

\* No two logins or rotations ever answer with the same refresh token, however
\* many fall into one second.
THEOREM DistinctAnswers == Spec => []AnswersAreDistinct
  BY InvHolds, PTL DEF IInv

\* A revoked token never becomes valid again.
THEOREM RevokedForGood == Spec => RevokedStaysRevoked
  <1> DEFINE Kept == \A t \in Token : (Stored(t) /\ row[t].revoked) => (row'[t] # None /\ row'[t].revoked)
  <1>1. IInv /\ [Next]_vars => [Kept]_row
    BY RowSteps, RowsKeep DEF IInv
  <1> QED
    BY <1>1, InvHolds, PTL DEF Spec, RevokedStaysRevoked

\* A token loses its validity because it was presented or has run out, and for
\* no other reason.
THEOREM RevokedForACause == Spec => RevocationHasCause
  <1> DEFINE Kept == \A t \in Token : (Live(t) /\ row'[t].revoked) => (t \in presented \/ ~Accepted(t))
  <1>1. ASSUME IInv, [Next]_vars PROVE [Kept]_row
    <2> SUFFICES ASSUME NEW t \in Token, Live(t), row'[t].revoked, t \notin presented
                 PROVE  ~Accepted(t)
      OBVIOUS
    <2>1. Stored(t)
      BY DEF Live
    <2>2. row[t].expires < now
      BY <1>1, <2>1, RowSteps, RowsKeep DEF IInv
    <2>3. t + TTL <= row[t].expires
      BY <1>1, <2>1 DEF IInv, RowsOutlive
    <2>4. row[t] \in Row
      BY <1>1, <2>1 DEF IInv, TypeOK, Stored
    <2>5. row[t].expires \in Nat /\ now \in Nat /\ t \in Nat /\ TTL \in Nat
      BY <1>1, <2>4, TokenNat, TokenAssumption DEF IInv, TypeOK, Row
    <2> QED
      BY <2>2, <2>3, <2>5 DEF Accepted
  <1> QED
    BY <1>1, InvHolds, PTL DEF Spec, RevocationHasCause

(***************************************************************************)
(* How often a token is exchanged.  While it is valid, a call that got     *)
(* past its revocation did so because that statement failed: exchanges and *)
(* calls past it are counted by the faults.  From its revocation on no     *)
(* call joins, and those that hold it were all in flight together.         *)
(***************************************************************************)
Holds(k, t) == k.pc \in {"revoke", "mint", "store"} /\ k.old = t
IsPast(k, t) == k.pc \in {"mint", "store"} /\ k.old = t
Holding(t) == {c \in Call : Holds(call[c], t)}
Past(t)    == {c \in Call : IsPast(call[c], t)}

InFlightBound == IsFiniteSet(InFlight) /\ Cardinality(InFlight) <= MaxInFlight
NotStored(t) == ~Stored(t) => (exchanged[t] = 0 /\ Holding(t) = {})
LiveCount(t) == Live(t) => exchanged[t] + Cardinality(Past(t)) <= faults
AnyCount(t)  == exchanged[t] + Cardinality(Holding(t)) <= MaxInFlight + faults

ExchangeInv == InFlightBound /\ \A t \in Token : NotStored(t) /\ LiveCount(t) /\ AnyCount(t)

\* A part of a set is no larger than a part of that part and the whole.
LEMMA SplitCount ==
    ASSUME NEW I, IsFiniteSet(I), NEW H, H \subseteq I, NEW P, P \subseteq H
    PROVE  Cardinality(H) <= Cardinality(P) + Cardinality(I)
  <1>1. IsFiniteSet(H) /\ IsFiniteSet(P) /\ IsFiniteSet(H \ P)
    BY FS_Subset
  <1>2. Cardinality(H \ P) <= Cardinality(I)
    BY FS_Subset
  <1>3. H \cap P = P
    OBVIOUS
  <1>4. Cardinality(H \ P) = Cardinality(H) - Cardinality(P)
    BY <1>1, <1>3, FS_Difference
  <1>5. /\ Cardinality(H) \in Nat /\ Cardinality(P) \in Nat /\ Cardinality(I) \in Nat
    BY <1>1, FS_CardinalityType
  <1> QED
    BY <1>2, <1>4, <1>5

LEMMA HoldersFinite ==
    ASSUME IsFiniteSet(InFlight), NEW t
    PROVE  /\ Holding(t) \subseteq InFlight /\ Past(t) \subseteq Holding(t)
           /\ IsFiniteSet(Holding(t)) /\ Cardinality(Holding(t)) \in Nat
           /\ IsFiniteSet(Past(t)) /\ Cardinality(Past(t)) \in Nat
  <1>1. Holding(t) \subseteq InFlight /\ Past(t) \subseteq Holding(t)
    BY DEF Holding, Past, Holds, IsPast, InFlight
  <1>2. IsFiniteSet(Holding(t)) /\ IsFiniteSet(Past(t))
    BY <1>1, FS_Subset
  <1> QED
    BY <1>1, <1>2, FS_CardinalityType

\* What a step of one call does to the holders of a token.
LEMMA HoldersOf ==
    ASSUME TypeOK, NEW c \in Call, NEW s, Goto(c, s), NEW t
    PROVE  /\ Holding(t)' = IF Holds(s, t) THEN Holding(t) \cup {c} ELSE Holding(t) \ {c}
           /\ Past(t)' = IF IsPast(s, t) THEN Past(t) \cup {c} ELSE Past(t) \ {c}
  <1>1. call'[c] = s /\ \A d \in Call \ {c} : call'[d] = call[d]
    BY DEF Goto, TypeOK
  <1>2. Holding(t)' = IF Holds(s, t) THEN Holding(t) \cup {c} ELSE Holding(t) \ {c}
    BY <1>1 DEF Holding, Holds
  <1>3. Past(t)' = IF IsPast(s, t) THEN Past(t) \cup {c} ELSE Past(t) \ {c}
    BY <1>1 DEF Past, IsPast
  <1> QED
    BY <1>2, <1>3

\* Only a call that may start joins those in flight.
LEMMA InFlightStep ==
    ASSUME TypeOK, InFlightBound, [Next]_vars
    PROVE  InFlightBound'
  <1>0. Cardinality(InFlight) \in Nat /\ MaxInFlight \in Nat
    BY FS_CardinalityType, TokenAssumption DEF InFlightBound
  <1>1. ASSUME InFlight' \subseteq InFlight PROVE InFlightBound'
    <2>1. IsFiniteSet(InFlight') /\ Cardinality(InFlight') <= Cardinality(InFlight)
      BY <1>1, FS_Subset DEF InFlightBound
    <2>2. Cardinality(InFlight') \in Nat
      BY <2>1, FS_CardinalityType
    <2> QED
      BY <1>0, <2>1, <2>2 DEF InFlightBound
  <1>2. ASSUME NEW c \in Call, MayStart(c), NEW s, Goto(c, s) PROVE InFlightBound'
    <2>1. InFlight' \subseteq InFlight \cup {c}
      BY <1>2 DEF InFlight, Goto, TypeOK
    <2>2. /\ IsFiniteSet(InFlight \cup {c})
          /\ Cardinality(InFlight \cup {c}) <= Cardinality(InFlight) + 1
      BY <1>0, FS_AddElement DEF InFlightBound
    <2>3. /\ IsFiniteSet(InFlight') /\ Cardinality(InFlight') <= Cardinality(InFlight \cup {c})
      BY <2>1, <2>2, FS_Subset
    <2>4. Cardinality(InFlight') \in Nat /\ Cardinality(InFlight \cup {c}) \in Nat
      BY <2>2, <2>3, FS_CardinalityType
    <2>5. Cardinality(InFlight) < MaxInFlight
      BY <1>2 DEF MayStart
    <2> QED
      BY <1>0, <2>2, <2>3, <2>4, <2>5 DEF InFlightBound
  <1>3. ASSUME NEW c \in Call, c \in InFlight, NEW s, Goto(c, s) PROVE InFlightBound'
    <2>1. InFlight' \subseteq InFlight
      BY <1>3 DEF InFlight, Goto, TypeOK
    <2> QED
      BY <1>1, <2>1
  <1>4. CASE call' = call
    BY <1>1, <1>4 DEF InFlight
  <1>5. ASSUME NEW c \in Call, Login(c) \/ Register(c) \/ \E t \in Token : ReadToken(c, t)
        PROVE  InFlightBound'
    BY <1>2, <1>5 DEF Login, Register, ReadToken
  <1>6. ASSUME NEW c \in Call, Revoke(c) \/ Mint(c) \/ Store(c) \/ Fail(c) PROVE InFlightBound'
    <2>1. c \in InFlight
      BY <1>6 DEF Revoke, Mint, Store, Fail, InFlight
    <2> QED
      BY <1>3, <1>6, <2>1 DEF Revoke, Mint, Store, Fail, Answer
  <1> QED
    BY <1>4, <1>5, <1>6 DEF Next, Tick, ExpireRefreshTokens, vars

\* The counts of a token at which nothing grows.
LEMMA QuietToken ==
    ASSUME TypeOK, ExchangeInv, NEW t \in Token, faults' \in Nat, faults <= faults',
           exchanged'[t] = exchanged[t], Stored(t)' <=> Stored(t),
           Holding(t)' \subseteq Holding(t),
           Live(t)' => Live(t) /\ Past(t)' \subseteq Past(t)
    PROVE  NotStored(t)' /\ LiveCount(t)' /\ AnyCount(t)'
  <1> DEFINE h == Cardinality(Holding(t))
             p == Cardinality(Past(t))
  <1>1. /\ IsFiniteSet(Holding(t)) /\ IsFiniteSet(Past(t)) /\ h \in Nat /\ p \in Nat
        /\ exchanged[t] \in Nat /\ faults \in Nat /\ MaxInFlight \in Nat
    BY HoldersFinite, TokenAssumption DEF ExchangeInv, InFlightBound, TypeOK
  <1>2. Cardinality(Holding(t)') <= h /\ Cardinality(Holding(t)') \in Nat
    BY <1>1, FS_Subset, FS_CardinalityType
  <1>3. Live(t)' => Cardinality(Past(t)') <= p /\ Cardinality(Past(t)') \in Nat
    BY <1>1, FS_Subset, FS_CardinalityType
  <1>4. NotStored(t)'
    BY DEF ExchangeInv, NotStored
  <1>5. LiveCount(t)'
    BY <1>1, <1>3 DEF ExchangeInv, LiveCount
  <1>6. AnyCount(t)'
    BY <1>1, <1>2 DEF ExchangeInv, AnyCount
  <1> QED
    BY <1>4, <1>5, <1>6
\* A step of a call that holds at most what it held, where the rows stay.
LEMMA QuietCall ==
    ASSUME TypeOK, ExchangeInv, NEW c \in Call, NEW s, Goto(c, s), row' = row,
           exchanged' = exchanged, faults' \in Nat, faults <= faults', NEW t \in Token,
           Holds(s, t) => Holds(call[c], t), IsPast(s, t) => IsPast(call[c], t)
    PROVE  NotStored(t)' /\ LiveCount(t)' /\ AnyCount(t)'
  <1>1. Holding(t)' \subseteq Holding(t) /\ Past(t)' \subseteq Past(t)
    BY HoldersOf DEF Holding, Past
  <1>2. (Stored(t)' <=> Stored(t)) /\ (Live(t)' <=> Live(t))
    BY DEF Stored, Live
  <1> QED
    BY <1>1, <1>2, QuietToken

\* A token that is read gains a holder while it is valid.
LEMMA ReadCounts ==
    ASSUME TypeOK, ExchangeInv, InFlightBound', NEW c \in Call, NEW u \in Token, ReadToken(c, u),
           NEW t \in Token
    PROVE  NotStored(t)' /\ LiveCount(t)' /\ AnyCount(t)'
  <1> DEFINE s == [pc |-> "revoke", kind |-> "refresh", old |-> u]
  <1>1. /\ Goto(c, s) /\ row' = row /\ exchanged' = exchanged /\ faults' = faults /\ Live(u)
        /\ faults \in Nat /\ faults <= faults'
    BY DEF ReadToken, db, TypeOK
  <1>2. CASE t # u
    <2>1. ~Holds(s, t) /\ ~IsPast(s, t)
      BY <1>2 DEF Holds, IsPast
    <2> QED
      BY <1>1, <2>1, QuietCall
  <1>3. CASE t = u
    <2>1. Past(t)' \subseteq Past(t)
      BY <1>1, HoldersOf DEF IsPast
    <2>2. /\ IsFiniteSet(Past(t)) /\ Cardinality(Past(t)) \in Nat /\ exchanged[t] \in Nat
          /\ MaxInFlight \in Nat
      BY HoldersFinite, TokenAssumption DEF ExchangeInv, InFlightBound, TypeOK
    <2>3. Cardinality(Past(t)') <= Cardinality(Past(t)) /\ Cardinality(Past(t)') \in Nat
      BY <2>1, <2>2, FS_Subset, FS_CardinalityType
    <2>4. exchanged[t] + Cardinality(Past(t)) <= faults
      BY <1>1, <1>3 DEF ExchangeInv, LiveCount
    <2>5. Stored(t)' /\ NotStored(t)'
      BY <1>1, <1>3 DEF Live, Stored, NotStored
    <2>6. LiveCount(t)'
      BY <1>1, <2>2, <2>3, <2>4 DEF LiveCount
    <2>7. /\ Holding(t)' \subseteq InFlight' /\ Past(t)' \subseteq Holding(t)'
          /\ Cardinality(Holding(t)') \in Nat
      <3>1. IsFiniteSet(InFlight)'
        BY DEF InFlightBound
      <3>2. Holding(t)' \subseteq InFlight' /\ Past(t)' \subseteq Holding(t)'
        BY DEF Holding, Past, Holds, IsPast, InFlight
      <3> QED
        BY <3>1, <3>2, FS_Subset, FS_CardinalityType
    <2>8. Cardinality(Holding(t)') <= Cardinality(Past(t)') + Cardinality(InFlight')
      BY <2>7, SplitCount DEF InFlightBound
    <2>9. Cardinality(InFlight') \in Nat /\ Cardinality(InFlight') <= MaxInFlight
      BY FS_CardinalityType DEF InFlightBound
    <2>10. AnyCount(t)'
      BY <1>1, <2>2, <2>3, <2>4, <2>7, <2>8, <2>9 DEF AnyCount
    <2> QED
      BY <2>5, <2>6, <2>10
  <1> QED
    BY <1>2, <1>3

\* Getting past the revocation of a token that stays valid costs a fault.
LEMMA RevokeCounts ==
    ASSUME TypeOK, CallsBacked, ExchangeInv, NEW c \in Call, Revoke(c), NEW t \in Token
    PROVE  NotStored(t)' /\ LiveCount(t)' /\ AnyCount(t)'
  <1> DEFINE k == call[c]
             s == [k EXCEPT !.pc = "mint"]
  <1>1. /\ k \in [pc: {"revoke", "mint"}, kind: {"refresh"}, old: Token] /\ k.pc = "revoke"
        /\ Stored(k.old)
    BY CallFields DEF Revoke, CallsBacked
  <1>2. s.pc = "mint" /\ s.old = k.old
    BY <1>1
  <1>3. Goto(c, s) /\ exchanged' = exchanged
    BY DEF Revoke
  <1>4. Holding(t)' \subseteq Holding(t)
    <2>1. Holds(s, t) => Holds(k, t)
      BY <1>1, <1>2 DEF Holds
    <2>2. Holds(k, t) => c \in Holding(t)
      BY DEF Holding
    <2> HIDE DEF s
    <2> QED
      BY <1>3, <2>1, <2>2, HoldersOf
  <1>5. Past(t)' \subseteq IF t = k.old THEN Past(t) \cup {c} ELSE Past(t)
    <2>1. IsPast(s, t) => t = k.old
      BY <1>2 DEF IsPast
    <2> HIDE DEF s
    <2> QED
      BY <1>3, <2>1, HoldersOf
  <1>6. faults \in Nat /\ faults' \in Nat /\ faults <= faults'
    BY DEF Revoke, Fault, TypeOK
  <1>7. CASE row' = [row EXCEPT ![k.old].revoked = TRUE]
    <2>1. row' = [row EXCEPT ![k.old] = [row[k.old] EXCEPT !.revoked = TRUE]]
      BY <1>7
    <2>2. row[k.old] \in Row
      BY <1>1 DEF TypeOK, Stored
    <2>3. /\ [row[k.old] EXCEPT !.revoked = TRUE] \in Row
          /\ [row[k.old] EXCEPT !.revoked = TRUE].revoked = TRUE
      BY <2>2 DEF Row
    <2>4. Stored(t)' <=> Stored(t)
      BY <1>1, <2>1, <2>3, NoneAssumption DEF Stored, TypeOK
    <2>5. Live(t)' => Live(t) /\ t # k.old
      BY <1>1, <2>1, <2>3 DEF Live, Stored, TypeOK
    <2> HIDE DEF s, k
    <2> QED
      BY <1>3, <1>4, <1>5, <1>6, <2>4, <2>5, QuietToken
  <1>8. CASE row' = row /\ Fault
    <2>1. (Stored(t)' <=> Stored(t)) /\ (Live(t)' <=> Live(t))
      BY <1>8 DEF Stored, Live
    <2>2. CASE t # k.old
      BY <1>3, <1>4, <1>5, <1>6, <2>1, <2>2, QuietToken
    <2>3. CASE t = k.old
      <3>1. /\ IsFiniteSet(Past(t)) /\ Cardinality(Past(t)) \in Nat /\ exchanged[t] \in Nat
            /\ IsFiniteSet(Holding(t)) /\ Cardinality(Holding(t)) \in Nat /\ MaxInFlight \in Nat
        BY HoldersFinite, TokenAssumption DEF ExchangeInv, InFlightBound, TypeOK
      <3>2. /\ IsFiniteSet(Past(t) \cup {c})
            /\ Cardinality(Past(t) \cup {c}) <= Cardinality(Past(t)) + 1
        BY <3>1, FS_AddElement
      <3>3. Past(t)' \subseteq Past(t) \cup {c}
        BY <1>5, <2>3
      <3>4. Cardinality(Past(t)') <= Cardinality(Past(t) \cup {c})
        BY <3>2, <3>3, FS_Subset
      <3>5. Cardinality(Past(t)') \in Nat /\ Cardinality(Past(t) \cup {c}) \in Nat
        BY <3>2, <3>3, FS_Subset, FS_CardinalityType
      <3>6. Cardinality(Past(t)') <= Cardinality(Past(t)) + 1
        BY <3>1, <3>2, <3>4, <3>5
      <3>7. faults' = faults + 1
        BY <1>8 DEF Fault
      <3>8. NotStored(t)'
        BY <1>1, <2>1, <2>3 DEF NotStored
      <3>9. LiveCount(t)'
        BY <1>3, <1>6, <2>1, <3>1, <3>5, <3>6, <3>7 DEF ExchangeInv, LiveCount
      <3>10. AnyCount(t)'
        <4>1. Cardinality(Holding(t)') <= Cardinality(Holding(t)) /\ Cardinality(Holding(t)') \in Nat
          BY <1>4, <3>1, FS_Subset, FS_CardinalityType
        <4> QED
          BY <1>3, <1>6, <3>1, <3>7, <4>1 DEF ExchangeInv, AnyCount
      <3> QED
        BY <3>8, <3>9, <3>10
    <2> QED
      BY <2>2, <2>3
  <1> QED
    BY <1>7, <1>8 DEF Revoke
\* A rotation that succeeds is one exchange more and one holder less; the token
\* that is inserted had neither.
LEMMA StoreCounts ==
    ASSUME TypeOK, ExchangeInv, NEW c \in Call, Store(c), NEW t \in Token
    PROVE  NotStored(t)' /\ LiveCount(t)' /\ AnyCount(t)'
  <1> DEFINE k == call[c]
             s == [pc |-> "done", kind |-> k.kind]
  <1>1. k \in [pc: {"store"}, kind: Kind, old: Token \cup {None}, new: Token]
    BY CallFields DEF Store
  <1>2. Goto(c, s)
    BY DEF Store, Answer
  <1>3. ~Holds(s, t) /\ ~IsPast(s, t)
    BY DEF Holds, IsPast
  <1>4. Holding(t)' = Holding(t) \ {c} /\ Past(t)' = Past(t) \ {c}
    BY <1>2, <1>3, HoldersOf
  <1>5. faults \in Nat /\ faults' \in Nat /\ faults <= faults'
    BY DEF Store, Fault, TypeOK
  <1>6. PICK inserted \in BOOLEAN :
           /\ inserted => ~Stored(k.new)
           /\ row' = IF inserted THEN [row EXCEPT ![k.new] = [revoked |-> FALSE, expires |-> now + TTL]]
                                 ELSE row
           /\ exchanged' = IF inserted /\ k.kind = "refresh"
                           THEN [exchanged EXCEPT ![k.old] = @ + 1] ELSE exchanged
    BY DEF Store
  <1>7. CASE ~inserted
    BY <1>2, <1>3, <1>5, <1>6, <1>7, QuietCall
  <1>8. CASE inserted /\ t = k.new
    <2>1. exchanged[t] = 0 /\ Holding(t) = {} /\ Past(t) = {}
      BY <1>6, <1>8, HoldersFinite DEF ExchangeInv, NotStored, InFlightBound
    <2>2. exchanged'[t] = 0
      <3>1. k.old # t
        BY <1>1, <2>1 DEF Holding, Holds
      <3> QED
        BY <1>6, <2>1, <3>1 DEF TypeOK
    <2>3. Cardinality(Holding(t)') = 0 /\ Cardinality(Past(t)') = 0
      BY <1>4, <2>1, FS_EmptySet
    <2>4. MaxInFlight \in Nat
      BY TokenAssumption
    <2>5. NotStored(t)'
      BY <1>4, <2>1, <2>2 DEF NotStored
    <2>6. LiveCount(t)' /\ AnyCount(t)'
      <3>1. exchanged'[t] + Cardinality(Past(t)') <= faults'
        BY <1>5, <2>2, <2>3
      <3>2. exchanged'[t] + Cardinality(Holding(t)') <= MaxInFlight + faults'
        <4>1. \A x, h, m, f \in Nat : x = 0 /\ h = 0 => x + h <= m + f
          OBVIOUS
        <4>2. exchanged'[t] \in Nat /\ Cardinality(Holding(t)') \in Nat
          BY <2>2, <2>3
        <4> QED
          BY <1>5, <2>2, <2>3, <2>4, <4>1, <4>2
      <3>3. LiveCount(t)'
        BY <3>1 DEF LiveCount
      <3>4. AnyCount(t)'
        BY <3>2 DEF AnyCount
      <3> QED
        BY <3>3, <3>4
    <2> QED
      BY <2>5, <2>6
  <1>9. CASE inserted /\ t # k.new
    <2>1. row'[t] = row[t]
      BY <1>6, <1>9 DEF TypeOK
    <2>2. (Stored(t)' <=> Stored(t)) /\ (Live(t)' <=> Live(t))
      BY <2>1 DEF Stored, Live
    <2>3. CASE exchanged'[t] = exchanged[t]
      BY <1>4, <1>5, <2>2, <2>3, QuietToken
    <2>4. CASE exchanged'[t] # exchanged[t]
      <3>1. k.old = t /\ exchanged'[t] = exchanged[t] + 1
        BY <1>6, <2>4 DEF TypeOK
      <3>2. c \in Holding(t) /\ c \in Past(t)
        BY <1>1, <3>1 DEF Holding, Past, Holds, IsPast
      <3>3. /\ IsFiniteSet(Past(t)) /\ Cardinality(Past(t)) \in Nat /\ exchanged[t] \in Nat
            /\ IsFiniteSet(Holding(t)) /\ Cardinality(Holding(t)) \in Nat /\ MaxInFlight \in Nat
        BY HoldersFinite, TokenAssumption DEF ExchangeInv, InFlightBound, TypeOK
      <3>4. /\ Cardinality(Holding(t)') = Cardinality(Holding(t)) - 1
            /\ Cardinality(Past(t)') = Cardinality(Past(t)) - 1
        BY <1>4, <3>2, <3>3, FS_RemoveElement
      <3>5. Stored(t)
        BY <3>2 DEF ExchangeInv, NotStored
      <3>6. NotStored(t)'
        BY <2>2, <3>5 DEF NotStored
      <3>7. LiveCount(t)'
        BY <1>5, <2>2, <3>1, <3>3, <3>4 DEF ExchangeInv, LiveCount
      <3>8. AnyCount(t)'
        BY <1>5, <3>1, <3>3, <3>4 DEF ExchangeInv, AnyCount
      <3> QED
        BY <3>6, <3>7, <3>8
    <2> QED
      BY <2>3, <2>4
  <1> QED
    BY <1>7, <1>8, <1>9

LEMMA ExchangeStep ==
    ASSUME TypeOK, CallsBacked, ExchangeInv, [Next]_vars
    PROVE  ExchangeInv'
  <1>0. InFlightBound' /\ faults \in Nat /\ faults <= faults
    BY InFlightStep DEF ExchangeInv, TypeOK
  <1> SUFFICES ASSUME NEW t \in Token PROVE NotStored(t)' /\ LiveCount(t)' /\ AnyCount(t)'
    BY <1>0 DEF ExchangeInv
  <1> DEFINE Good == NotStored(t)' /\ LiveCount(t)' /\ AnyCount(t)'
  <1>1. ASSUME NEW c \in Call, Login(c) \/ Register(c) PROVE Good
    <2> DEFINE s(k) == [pc |-> "store", kind |-> k, old |-> None, new |-> now]
    <2>1. \A k \in Kind : ~Holds(s(k), t) /\ ~IsPast(s(k), t)
      BY TokenNat DEF Holds, IsPast
    <2>2. /\ row' = row /\ exchanged' = exchanged /\ faults' = faults
          /\ \E k \in Kind : Goto(c, s(k))
      BY <1>1 DEF Login, Register, db, Kind
    <2> QED
      BY <1>0, <2>1, <2>2, QuietCall
  <1>2. ASSUME NEW c \in Call, NEW u \in Token, ReadToken(c, u) PROVE Good
    BY <1>0, <1>2, ReadCounts
  <1>3. ASSUME NEW c \in Call, Mint(c) PROVE Good
    <2> DEFINE s == [pc |-> "store", kind |-> "refresh", old |-> call[c].old, new |-> now]
    <2>1. (Holds(s, t) => Holds(call[c], t)) /\ (IsPast(s, t) => IsPast(call[c], t)) /\ Goto(c, s)
      BY <1>3 DEF Mint, Holds, IsPast
    <2>2. row' = row /\ exchanged' = exchanged /\ faults' = faults
      BY <1>3 DEF Mint, db
    <2> QED
      BY <1>0, <2>1, <2>2, QuietCall
  <1>4. ASSUME NEW c \in Call, Fail(c) PROVE Good
    <2> DEFINE s == [pc |-> "done", kind |-> call[c].kind]
    <2>1. ~Holds(s, t) /\ ~IsPast(s, t) /\ Goto(c, s)
      BY <1>4 DEF Fail, Answer, Holds, IsPast
    <2>2. row' = row /\ exchanged' = exchanged /\ faults' = faults + 1
      BY <1>4 DEF Fail, Fault, db
    <2> QED
      BY <1>0, <2>1, <2>2, QuietCall
  <1>5. CASE call' = call /\ exchanged' = exchanged /\ faults' = faults /\ (row' = row \/ Sweeps)
    <2>1. Holding(t)' = Holding(t) /\ Past(t)' = Past(t)
      BY <1>5 DEF Holding, Past
    <2>2. (Stored(t)' <=> Stored(t)) /\ (Live(t)' => Live(t))
      <3>1. CASE row' = row
        BY <3>1 DEF Stored, Live
      <3>2. CASE Sweeps
        <4>1. RowEffect
          BY <3>2 DEF RowEffect
        <4>2. Stored(t) => Stored(t)' /\ (row[t].revoked => row'[t].revoked)
          BY <4>1, RowsKeep DEF Stored
        <4>3. ~Stored(t) => row'[t] = row[t]
          BY <3>2 DEF Sweeps, Live
        <4> QED
          BY <4>2, <4>3 DEF Stored, Live
      <3> QED
        BY <1>5, <3>1, <3>2
    <2> QED
      BY <1>0, <1>5, <2>1, <2>2, QuietToken
  <1>6. CASE Tick \/ ExpireRefreshTokens \/ UNCHANGED vars
    BY <1>5, <1>6 DEF Tick, ExpireRefreshTokens, Sweeps, db, vars
  <1> QED
    BY <1>1, <1>2, <1>3, <1>4, <1>6, RevokeCounts, StoreCounts DEF Next

LEMMA ExchangeHolds == Spec => []ExchangeInv
  <1>1. Init => ExchangeInv
    <2> SUFFICES ASSUME Init PROVE ExchangeInv
      OBVIOUS
    <2>1. \A c \in Call : call[c].pc = "idle"
      BY DEF Init
    <2>2. InFlight = {} /\ \A t \in Token : Holding(t) = {} /\ ~Stored(t) /\ exchanged[t] = 0
      BY <2>1 DEF Init, InFlight, Holding, Holds, Stored
    <2>3. IsFiniteSet({}) /\ Cardinality({}) = 0 /\ MaxInFlight \in Nat /\ faults = 0
      BY FS_EmptySet, TokenAssumption DEF Init
    <2>4. InFlightBound
      BY <2>2, <2>3 DEF InFlightBound
    <2>5. \A t \in Token : NotStored(t) /\ LiveCount(t) /\ AnyCount(t)
      BY <2>2, <2>3 DEF NotStored, LiveCount, AnyCount, Live
    <2> QED
      BY <2>4, <2>5 DEF ExchangeInv
  <1>2. IInv /\ ExchangeInv /\ [Next]_vars => ExchangeInv'
    BY ExchangeStep DEF IInv
  <1> QED
    BY <1>1, <1>2, InvHolds, PTL DEF Spec

\* A refresh token is exchanged at most once for each call that overlaps and
\* once for each fault.
THEOREM LimitedExchanges == Spec => []ExchangesAreLimited
  <1>1. ASSUME TypeOK, ExchangeInv, NEW t \in Token PROVE exchanged[t] <= MaxInFlight + faults
    <2>1. Cardinality(Holding(t)) \in Nat /\ exchanged[t] \in Nat /\ faults \in Nat /\ MaxInFlight \in Nat
      BY <1>1, HoldersFinite, TokenAssumption DEF ExchangeInv, InFlightBound, TypeOK
    <2> QED
      BY <1>1, <2>1 DEF ExchangeInv, AnyCount
  <1>2. IInv /\ ExchangeInv => ExchangesAreLimited
    BY <1>1 DEF IInv, ExchangesAreLimited
  <1> QED
    BY <1>2, InvHolds, ExchangeHolds, PTL
=============================================================================
