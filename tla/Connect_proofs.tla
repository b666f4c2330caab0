----------------------------- MODULE Connect_proofs -----------------------------
(***************************************************************************)
(* Proofs about Connect, for any connection strings, hosts and servers:    *)
(* no attempt leaves its socket behind, and the connection that is         *)
(* returned is in step.                                                    *)
(***************************************************************************)
EXTENDS Connect, SequenceTheorems, WellFoundedInduction, TLAPS

USE DEF searchVars, connVars, netVars, choiceVars

--------------------------------------------------------------------------------
(* Sockets *)

\* The ways an attempt ends, as far as sockets go.
LEMMA EndClosesSocket ==
    ASSUME NoSocketLeft, pc \notin {"lookup", "dial", "failed"}, NEW e,
           Panics(e) \/ TLSFails(e) \/ RuntimeError
    PROVE  NoSocketLeft'
<1>1. open = {i} /\ open' = open \ {i}
  BY DEF NoSocketLeft, Panics, TLSFails, RuntimeError, CloseSocket, CloseAfterTLS
<1>2. pc' \in {"dial", "failed"}
  BY DEF Panics, TLSFails, RuntimeError, Fails
<1> QED
  BY <1>1, <1>2 DEF NoSocketLeft

\* The steps that go on with an attempt keep its socket.
LEMMA GoesOn ==
    ASSUME NoSocketLeft, pc \notin {"lookup", "dial", "failed"},
           pc' \notin {"lookup", "dial", "failed"}, UNCHANGED <<i, open>>
    PROVE  NoSocketLeft'
BY DEF NoSocketLeft

LEMMA SaysMovesNothing == ASSUME NEW msgs, Says(msgs) PROVE UNCHANGED <<pc, i, open>>
BY DEF Says

LEMMA ServerMovesNothing == ASSUME ServerActs PROVE UNCHANGED <<pc, i, open>>
<1>1. CASE ServerAnswersSSL
  BY <1>1, SaysMovesNothing DEF ServerAnswersSSL
<1>2. CASE ServerStartsUp
  BY <1>2, SaysMovesNothing DEF ServerStartsUp
<1>3. CASE ServerAuthenticates
  BY <1>3, SaysMovesNothing DEF ServerAuthenticates
<1>4. CASE ServerShowsRole
  BY <1>4, SaysMovesNothing DEF ServerShowsRole
<1> QED
  BY <1>1, <1>2, <1>3, <1>4 DEF ServerActs

LEMMA SocketStep ==
    ASSUME NoSocketLeft, [Next]_vars
    PROVE  NoSocketLeft'
<1>1. CASE Lookup
  BY <1>1 DEF Lookup, NoSocketLeft
<1>2. CASE DialFails
  BY <1>2 DEF DialFails, Fails, NoSocketLeft
<1>3. CASE Dial
  BY <1>3 DEF Dial, NoSocketLeft
<1>4. CASE StartTLS
  BY <1>4, GoesOn DEF StartTLS
<1>5. CASE StartTLSFails
  BY <1>5, EndClosesSocket DEF StartTLSFails
<1>6. CASE Hello
  BY <1>6, GoesOn DEF Hello
<1>7. CASE HelloFails
  BY <1>7, EndClosesSocket DEF HelloFails
<1>8. CASE StartupSkips
  BY <1>8, GoesOn DEF StartupSkips
<1>9. CASE AuthAnswers
  BY <1>9, GoesOn DEF AuthAnswers
<1>10. CASE AuthGss
  BY <1>10, GoesOn DEF AuthGss
<1>11. CASE AuthRefuses
  BY <1>11, EndClosesSocket DEF AuthRefuses
<1>12. CASE AuthAccepted
  BY <1>12, GoesOn DEF AuthAccepted
<1>13. CASE StartupFails
  BY <1>13, EndClosesSocket DEF StartupFails
<1>14. CASE Ready
  BY <1>14, GoesOn DEF Ready
<1>15. CASE Query
  BY <1>15, GoesOn DEF Query
<1>16. CASE NilRows
  BY <1>16, EndClosesSocket DEF NilRows
<1>17. CASE Row
  BY <1>17, GoesOn DEF Row, Drains
<1>18. CASE RowFails
  BY <1>18, EndClosesSocket DEF RowFails
<1>19. CASE RowsClose
  <2>1. CASE Panics("role")
    BY <1>19, <2>1, EndClosesSocket DEF RowsClose
  <2>2. CASE ~Panics("role")
    BY <1>19, <2>2, GoesOn DEF RowsClose
  <2> QED
    BY <2>1, <2>2
<1>20. CASE RowsCloseFails
  BY <1>20, EndClosesSocket, GoesOn DEF RowsCloseFails
<1>21. CASE ServerActs
  BY <1>21, ServerMovesNothing DEF NoSocketLeft
<1>22. CASE ServerGivesUp
  BY <1>22 DEF ServerGivesUp, NoSocketLeft
<1>23. CASE ConnBreaks
  BY <1>23 DEF ConnBreaks, NoSocketLeft
<1>24. CASE UNCHANGED vars
  BY <1>24 DEF vars, NoSocketLeft
<1> QED
  BY <1>1, <1>2, <1>3, <1>4, <1>5, <1>6, <1>7, <1>8, <1>9, <1>10, <1>11, <1>12, <1>13,
     <1>14, <1>15, <1>16, <1>17, <1>18, <1>19, <1>20, <1>21, <1>22, <1>23, <1>24
     DEF Next, Continues, ServerSteps

\* Whatever connection string, servers and failures: no attempt of connect leaves its
\* socket open when the next one starts or when Connect fails.
THEOREM SocketsClosed == Spec => []NoSocketLeft
<1>1. Init => NoSocketLeft
  BY DEF Init, NoSocketLeft
<1>2. NoSocketLeft /\ [Next]_vars => NoSocketLeft'
  BY SocketStep
<1> QED
  BY <1>1, <1>2, PTL DEF Spec
--------------------------------------------------------------------------------
(* The connection is in step *)

\* The answer to a message ends with "Z", or is one request of the authentication.
IsSeq(s) == \E M : s \in Seq(M)
ZLast(s) == \A k \in 1..Len(s) : s[k].type = "Z" => k = Len(s)
Asks(m) == m.type = "R" /\ m.val # "ok"
AsksAlone(s) == \A k \in 1..Len(s) : Asks(s[k]) => Len(s) = 1
Answer(s) == IsSeq(s) /\ ZLast(s) /\ AsksAlone(s)

\* Nothing is sent before the answer to what was sent last has been read.
StepInv ==
    /\ Answer(toClient)
    /\ toServer # <<>> => toClient = <<>>
    /\ pc \in {"lookup", "dial", "hello", "connected", "failed"} => toClient = <<>>
    /\ pc \in {"lookup", "dial", "hello", "row", "drain", "noRows", "connected", "failed"} =>
           toServer = <<>>
    /\ pc = "sslAnswer" =>
           Len(toClient) <= 1 /\ (toServer = <<>> \/ Head(toServer).type = "SSLRequest")

LEMMA NothingIsAnswer == Answer(<<>>)
<1>1. <<>> \in Seq({})
  OBVIOUS
<1> QED
  BY <1>1 DEF Answer, IsSeq, ZLast, AsksAlone

LEMMA OneIsAnswer == ASSUME NEW m PROVE Answer(<<m>>)
<1>1. <<m>> \in Seq({m}) /\ Len(<<m>>) = 1
  OBVIOUS
<1>2. IsSeq(<<m>>)
  BY <1>1 DEF IsSeq
<1>3. ZLast(<<m>>) /\ AsksAlone(<<m>>)
  BY <1>1 DEF ZLast, AsksAlone
<1> QED
  BY <1>2, <1>3 DEF Answer

LEMMA BurstIsAnswer == Answer(Burst)
<1> DEFINE M == {Msg("R", "ok"), Msg("S", "-"), Msg("N", "-"), Msg("K", "-"), Msg("Z", "-")}
<1>1. Burst \in Seq(M) /\ Len(Burst) = 5
  BY DEF Burst
<1>2. IsSeq(Burst)
  BY <1>1 DEF IsSeq
<1>3. \A k \in 1..5 : ~Asks(Burst[k]) /\ (Burst[k].type = "Z" => k = 5)
  BY DEF Asks, Burst, Msg
<1> QED
  BY <1>1, <1>2, <1>3 DEF Answer, ZLast, AsksAlone

LEMMA RoleIsAnswer ==
    ASSUME NEW row, row.type = "D"
    PROVE  /\ Answer(<<Msg("T", "-"), row, Msg("C", "-"), Msg("Z", "-")>>)
           /\ Answer(<<Msg("E", "57014"), Msg("Z", "-")>>)
           /\ Answer(<<Msg("T", "-"), Msg("E", "57014"), Msg("Z", "-")>>)
<1> DEFINE M == {Msg("T", "-"), row, Msg("C", "-"), Msg("Z", "-"), Msg("E", "57014")}
           rows == <<Msg("T", "-"), row, Msg("C", "-"), Msg("Z", "-")>>
           fails == <<Msg("E", "57014"), Msg("Z", "-")>>
           breaksOff == <<Msg("T", "-"), Msg("E", "57014"), Msg("Z", "-")>>
<1>1. /\ rows \in Seq(M) /\ Len(rows) = 4
      /\ fails \in Seq(M) /\ Len(fails) = 2
      /\ breaksOff \in Seq(M) /\ Len(breaksOff) = 3
  OBVIOUS
<1>2. \A m \in M : ~Asks(m)
  BY DEF Asks, Msg
<1>3. \A k \in 1..4 : rows[k] \in M /\ (rows[k].type = "Z" => k = 4)
  BY DEF Msg
<1>4. \A k \in 1..2 : fails[k] \in M /\ (fails[k].type = "Z" => k = 2)
  BY DEF Msg
<1>5. \A k \in 1..3 : breaksOff[k] \in M /\ (breaksOff[k].type = "Z" => k = 3)
  BY DEF Msg
<1>6. IsSeq(rows) /\ IsSeq(fails) /\ IsSeq(breaksOff)
  BY <1>1 DEF IsSeq
<1> HIDE DEF M, rows, fails, breaksOff
<1>7. Answer(rows)
  BY <1>1, <1>2, <1>3, <1>6 DEF Answer, ZLast, AsksAlone
<1>8. Answer(fails)
  BY <1>1, <1>2, <1>4, <1>6 DEF Answer, ZLast, AsksAlone
<1>9. Answer(breaksOff)
  BY <1>1, <1>2, <1>5, <1>6 DEF Answer, ZLast, AsksAlone
<1> QED
  BY <1>7, <1>8, <1>9 DEF rows, fails, breaksOff

LEMMA RestIsAnswer ==
    ASSUME NEW s, Answer(s), s # <<>>
    PROVE  /\ Answer(Tail(s))
           /\ Head(s).type = "Z" \/ Asks(Head(s)) \/ Len(s) <= 1 => Tail(s) = <<>>
<1>1. PICK M : s \in Seq(M)
  BY DEF Answer, IsSeq
<1>2. /\ Tail(s) \in Seq(M) /\ Len(Tail(s)) = Len(s) - 1 /\ Len(s) \in Nat \ {0}
      /\ \A k \in 1..Len(Tail(s)) : Tail(s)[k] = s[k + 1]
      /\ Head(s) = s[1]
  BY <1>1, HeadTailProperties, EmptySeq, LenProperties
<1>3. ZLast(Tail(s))
  <2> SUFFICES ASSUME NEW k \in 1..Len(Tail(s)), Tail(s)[k].type = "Z"
               PROVE  k = Len(Tail(s))
    BY DEF ZLast
  <2>1. k + 1 \in 1..Len(s) /\ s[k + 1].type = "Z"
    BY <1>2
  <2>2. k + 1 = Len(s)
    BY <2>1 DEF Answer, ZLast
  <2>3. k \in Int /\ Len(s) \in Int /\ Len(Tail(s)) = Len(s) - 1
    BY <1>2
  <2> QED
    BY <2>2, <2>3
<1>4. AsksAlone(Tail(s))
  <2> SUFFICES ASSUME NEW k \in 1..Len(Tail(s)), Asks(Tail(s)[k])
               PROVE  FALSE
    BY DEF AsksAlone
  <2>1. k + 1 \in 1..Len(s) /\ Asks(s[k + 1])
    BY <1>2
  <2> QED
    BY <1>2, <2>1 DEF Answer, AsksAlone
<1>5. Head(s).type = "Z" \/ Asks(Head(s)) \/ Len(s) <= 1 => Len(s) = 1
  <2>1. 1 \in 1..Len(s)
    BY <1>2
  <2>2. s[1].type = "Z" => 1 = Len(s)
    BY <2>1 DEF Answer, ZLast
  <2>3. Asks(s[1]) => Len(s) = 1
    BY <2>1 DEF Answer, AsksAlone
  <2> QED
    BY <1>2, <2>2, <2>3
<1>6. Len(s) = 1 => Tail(s) = <<>>
  <2>1. Tail(s) # <<>> => Len(Tail(s)) # 0
    BY <1>2, EmptySeq
  <2> QED
    BY <1>2, <2>1
<1> QED
  BY <1>2, <1>3, <1>4, <1>5, <1>6 DEF Answer, IsSeq

LEMMA PrefixIsAnswer ==
    ASSUME NEW s, Answer(s), NEW n \in 0..Len(s)
    PROVE  /\ Answer(SubSeq(s, 1, n)) /\ Len(SubSeq(s, 1, n)) = n
           /\ s = <<>> => SubSeq(s, 1, n) = <<>>
<1>1. PICK M : s \in Seq(M)
  BY DEF Answer, IsSeq
<1>2. Len(s) \in Nat /\ \A k \in 1..n : s[k] \in M
  BY <1>1, LenProperties, ElementOfSeq
<1> DEFINE t == SubSeq(s, 1, n)
<1>3. t \in Seq(M) /\ Len(t) = n /\ \A k \in 1..n : t[k] = s[k]
  BY <1>2, SubSeqProperties
<1> HIDE DEF t
<1>4. ZLast(t)
  BY <1>2, <1>3 DEF Answer, ZLast
<1>5. AsksAlone(t)
  <2> SUFFICES ASSUME NEW k \in 1..Len(t), Asks(t[k])
               PROVE  Len(t) = 1
    BY DEF AsksAlone
  <2>1. k \in 1..Len(s) /\ Asks(s[k])
    BY <1>2, <1>3
  <2> QED
    BY <1>2, <1>3, <2>1 DEF Answer, AsksAlone
<1>6. s = <<>> => t = <<>>
  BY <1>1, <1>3, EmptySeq
<1> QED
  BY <1>3, <1>4, <1>5, <1>6 DEF Answer, IsSeq, t

\* The ways an attempt ends leave nothing on the wire.
LEMMA EndClears ==
    ASSUME NEW e, Fails(e) \/ RuntimeError
    PROVE  StepInv'
<1>1. toServer' = <<>> /\ toClient' = <<>> /\ pc' \in {"dial", "failed"}
  BY DEF Fails, RuntimeError, Closed
<1> QED
  BY <1>1, NothingIsAnswer DEF StepInv

\* Reading a message, where there is one: then nothing is under way to the server.
LEMMA ReadsStep ==
    ASSUME StepInv, Arrived, Reads,
           pc' \in {"startup", "noRows", "row", "drain"}
    PROVE  StepInv'
<1>1. toServer = <<>> /\ toServer' = <<>>
  BY DEF StepInv, Arrived, Reads
<1>2. Answer(toClient')
  BY RestIsAnswer DEF StepInv, Arrived, Reads
<1> QED
  BY <1>1, <1>2 DEF StepInv

\* Sending a message, in answer to the last one or to none.
LEMMA SendsStep ==
    ASSUME StepInv, NEW m, Sends(m),
           pc' \in {"startup", "authAnswer", "query"},
           Arrived => Head(toClient).type = "Z" \/ Asks(Head(toClient))
    PROVE  StepInv'
<1>1. toClient' = <<>>
  BY RestIsAnswer DEF StepInv, Arrived, Sends
<1> QED
  BY <1>1, NothingIsAnswer DEF StepInv

LEMMA SaysStep ==
    ASSUME StepInv, NEW msgs, Answer(msgs), Says(msgs), toServer # <<>>,
           pc = "sslAnswer" => Len(msgs) <= 1
    PROVE  StepInv'
<1>1. toClient = <<>> /\ toServer' = <<>> /\ UNCHANGED pc
  BY DEF StepInv, Says, searchVars
<1>2. toClient' = msgs
  <2>1. PICK M : msgs \in Seq(M)
    BY DEF Answer, IsSeq
  <2> QED
    BY <1>1, <2>1 DEF Says
<1> QED
  BY <1>1, <1>2 DEF StepInv

LEMMA ServerStep ==
    ASSUME StepInv, ServerActs
    PROVE  StepInv'
<1>0. toServer # <<>>
  BY DEF ServerActs
<1>a. pc = "sslAnswer" => Head(toServer).type = "SSLRequest"
  BY <1>0 DEF StepInv
<1>1. CASE ServerAnswersSSL
  <2> DEFINE msgs == <<Msg(IF Server.tls THEN "S" ELSE "N", "-")>>
  <2>1. Says(msgs) /\ Len(msgs) <= 1 /\ Answer(msgs)
    BY <1>1, OneIsAnswer DEF ServerAnswersSSL
  <2> QED
    BY <1>0, <2>1, SaysStep
<1>2. CASE ServerStartsUp
  BY <1>0, <1>a, <1>2, SaysStep, OneIsAnswer, BurstIsAnswer DEF ServerStartsUp
<1>3. CASE ServerAuthenticates
  BY <1>0, <1>a, <1>3, SaysStep, OneIsAnswer, BurstIsAnswer DEF ServerAuthenticates
<1>4. CASE ServerShowsRole
  <2> DEFINE row == Msg("D", [recovery |-> Server.recovery, readOnly |-> Server.readOnly])
  <2>1. row.type = "D"
    BY DEF Msg
  <2>2. \/ Says(<<Msg("T", "-"), row, Msg("C", "-"), Msg("Z", "-")>>)
        \/ Says(<<Msg("E", "57014"), Msg("Z", "-")>>)
        \/ Says(<<Msg("T", "-"), Msg("E", "57014"), Msg("Z", "-")>>)
    BY <1>4 DEF ServerShowsRole
  <2> QED
    BY <1>0, <1>a, <1>4, <2>1, <2>2, SaysStep, RoleIsAnswer DEF ServerShowsRole
<1> QED
  BY <1>1, <1>2, <1>3, <1>4 DEF ServerActs

LEMMA StepStep ==
    ASSUME StepInv, [Next]_vars
    PROVE  StepInv'
<1>1. CASE Lookup
  BY <1>1 DEF Lookup, StepInv
<1>2. CASE DialFails
  BY <1>2, EndClears DEF DialFails
<1>3. CASE Dial
  BY <1>3 DEF Dial, StepInv, Msg
<1>4. CASE StartTLS
  <2>1. toServer' = <<>> /\ toClient' = <<>>
    BY <1>4, RestIsAnswer DEF StartTLS, Reads, Arrived, StepInv
  <2> QED
    BY <1>4, <2>1, NothingIsAnswer DEF StartTLS, StepInv
<1>5. CASE StartTLSFails
  BY <1>5, EndClears DEF StartTLSFails, TLSFails
<1>6. CASE Hello
  <2>1. PICK m : Sends(m)
    BY <1>6 DEF Hello
  <2> QED
    BY <1>6, <2>1, SendsStep DEF Hello, StepInv, Arrived
<1>7. CASE HelloFails
  BY <1>7, EndClears DEF HelloFails, Panics
<1>8. CASE StartupSkips
  BY <1>8, ReadsStep DEF StartupSkips
<1>9. CASE AuthAnswers
  <2>1. PICK m : Sends(m)
    BY <1>9 DEF AuthAnswers
  <2>2. Asks(Head(toClient))
    BY <1>9 DEF AuthAnswers, Answered, Asks
  <2> QED
    BY <1>9, <2>1, <2>2, SendsStep DEF AuthAnswers
<1>10. CASE AuthGss
  <2>1. Asks(Head(toClient)) /\ pc' = "startup" /\ Arrived
    BY <1>10 DEF AuthGss, Asks, Msg
  <2>2. CASE Reads
    BY <2>1, <2>2, ReadsStep
  <2>3. CASE \E m : Sends(m)
    BY <2>1, <2>3, SendsStep
  <2> QED
    BY <1>10, <2>2, <2>3 DEF AuthGss
<1>11. CASE AuthRefuses
  BY <1>11, EndClears DEF AuthRefuses, Panics
<1>12. CASE AuthAccepted
  BY <1>12, ReadsStep DEF AuthAccepted
<1>13. CASE StartupFails
  BY <1>13, EndClears DEF StartupFails, Panics
<1>14. CASE Ready
  <2>1. CASE Validates
    <3>1. PICK m : Sends(m)
      BY <1>14, <2>1 DEF Ready
    <3> QED
      BY <1>14, <2>1, <3>1, SendsStep DEF Ready
  <2>2. CASE ~Validates
    <3>1. toServer' = <<>> /\ toClient' = <<>>
      BY <1>14, <2>2, RestIsAnswer DEF Ready, Reads, Arrived, StepInv
    <3> QED
      BY <1>14, <2>2, <3>1, NothingIsAnswer DEF Ready, StepInv
  <2> QED
    BY <2>1, <2>2
<1>15. CASE Query
  BY <1>15, ReadsStep DEF Query
<1>16. CASE NilRows
  BY <1>16, EndClears DEF NilRows
<1>17. CASE Row
  BY <1>17, ReadsStep DEF Row, Drains
<1>18. CASE RowFails
  BY <1>18, EndClears DEF RowFails, Panics
<1>19. CASE RowsClose
  <2>1. CASE Head(toClient).type # "Z"
    BY <1>19, <2>1, ReadsStep DEF RowsClose
  <2>2. CASE Head(toClient).type = "Z" /\ suits
    <3>1. toServer' = <<>> /\ toClient' = <<>>
      BY <1>19, <2>2, RestIsAnswer DEF RowsClose, Reads, Arrived, StepInv
    <3> QED
      BY <1>19, <2>2, <3>1, NothingIsAnswer DEF RowsClose, StepInv
  <2>3. CASE Head(toClient).type = "Z" /\ ~suits
    BY <1>19, <2>3, EndClears DEF RowsClose, Panics
  <2> QED
    BY <2>1, <2>2, <2>3
<1>20. CASE RowsCloseFails
  <2>1. CASE suits
    BY <1>20, <2>1 DEF RowsCloseFails, Broken, StepInv
  <2>2. CASE ~suits
    BY <1>20, <2>2, EndClears DEF RowsCloseFails, Panics
  <2> QED
    BY <2>1, <2>2
<1>21. CASE ServerActs
  BY <1>21, ServerStep
<1>22. CASE ServerGivesUp
  BY <1>22, OneIsAnswer DEF ServerGivesUp, StepInv
<1>23. CASE ConnBreaks
  <2>1. PICK n \in 0..Len(toClient) : toClient' = SubSeq(toClient, 1, n)
    BY <1>23 DEF ConnBreaks
  <2>2. Answer(toClient') /\ Len(toClient') = n /\ (toClient = <<>> => toClient' = <<>>)
    BY <2>1, PrefixIsAnswer DEF StepInv
  <2>3. UNCHANGED <<pc, toServer>> /\ Len(toClient) \in Nat
    BY <1>23, LenProperties DEF ConnBreaks, StepInv, Answer, IsSeq
  <2> QED
    BY <2>1, <2>2, <2>3 DEF StepInv
<1>24. CASE UNCHANGED vars
  BY <1>24 DEF vars, StepInv
<1> QED
  BY <1>1, <1>2, <1>3, <1>4, <1>5, <1>6, <1>7, <1>8, <1>9, <1>10, <1>11, <1>12, <1>13,
     <1>14, <1>15, <1>16, <1>17, <1>18, <1>19, <1>20, <1>21, <1>22, <1>23, <1>24
     DEF Next, Continues, ServerSteps

\* The connection that Connect returns has nothing left to read, whatever the servers
\* said before, and with whatever validation.
THEOREM InStepWhenReturned == Spec => []ReturnedInStep
<1>1. Init => StepInv
  BY NothingIsAnswer DEF Init, StepInv
<1>2. StepInv /\ [Next]_vars => StepInv'
  BY StepStep
<1>3. StepInv => ReturnedInStep
  BY DEF StepInv, ReturnedInStep
<1> QED
  BY <1>1, <1>2, <1>3, PTL DEF Spec
--------------------------------------------------------------------------------
(* Induction.  The library's induction theorems take an operator; that a set *)
(* of naturals has a least element does not, and is as good.                 *)

\* Every set of naturals has a least element: what an induction needs here.
LEMMA LeastNatural ==
    ASSUME NEW T \in SUBSET Nat, T # {}
    PROVE  \E m \in T : \A k \in T : m <= k
<1> DEFINE R == OpToRel(<, Nat)
<1>1. IsWellFoundedOn(R, Nat)
  BY NatLessThanWellFounded
<1>2. \A a, b \in Nat : a < b => <<a, b>> \in R
  BY DEF OpToRel
<1> HIDE DEF R
<1>3. PICK m \in T : \A k \in T : ~(<<k, m>> \in R)
  BY <1>1, WFMin
<1>4. ASSUME NEW k \in T PROVE m <= k
  <2>1. m \in Nat /\ k \in Nat
    OBVIOUS
  <2>2. ~(k < m)
    BY <1>2, <1>3, <2>1
  <2> QED
    BY <2>1, <2>2
<1> QED
  BY <1>4

\* f concatenates ever more of the sequences.
Joins(f, seqs, k) == f = [n \in 1..k |-> IF n = 1 THEN seqs[n] ELSE f[n - 1] \o seqs[n]]
CanJoin(seqs, k) == \E f : Joins(f, seqs, k)

LEMMA JoinOneMore ==
    ASSUME NEW seqs, NEW k \in Nat, k # 0, CanJoin(seqs, k - 1)
    PROVE  CanJoin(seqs, k)
<1>1. PICK f : Joins(f, seqs, k - 1)
  BY DEF CanJoin
<1> DEFINE last == IF k = 1 THEN seqs[k] ELSE f[k - 1] \o seqs[k]
           g == [n \in 1..k |-> IF n = k THEN last ELSE f[n]]
<1>2. ASSUME NEW n \in 1..k
      PROVE  g[n] = IF n = 1 THEN seqs[n] ELSE g[n - 1] \o seqs[n]
  <2>1. CASE n = k
    BY <2>1
  <2>2. CASE n # k
    <3>1. n \in 1..(k - 1) /\ (n # 1 => n - 1 \in 1..(k - 1) /\ n - 1 \in 1..k /\ n - 1 # k)
      BY <2>2
    <3>2. f[n] = IF n = 1 THEN seqs[n] ELSE f[n - 1] \o seqs[n]
      BY <1>1, <3>1 DEF Joins
    <3>3. g[n] = f[n] /\ (n # 1 => g[n - 1] = f[n - 1])
      BY <2>2, <3>1
    <3> QED
      BY <3>2, <3>3
  <2> QED
    BY <2>1, <2>2
<1>3. g = [n \in 1..k |-> g[n]]
  OBVIOUS
<1> HIDE DEF g
<1>4. Joins(g, seqs, k)
  BY <1>2, <1>3 DEF Joins
<1> QED
  BY <1>4 DEF CanJoin

LEMMA AllCanJoin ==
    ASSUME NEW seqs, NEW k \in Nat
    PROVE  CanJoin(seqs, k)
<1> DEFINE T == {l \in Nat : ~CanJoin(seqs, l)}
<1>1. SUFFICES ASSUME T # {} PROVE FALSE
  OBVIOUS
<1>2. PICK m \in T : \A l \in T : m <= l
  BY <1>1, LeastNatural
<1>3. m # 0
  <2> DEFINE f == [n \in 1..0 |-> IF n = 1 THEN seqs[n] ELSE <<>>]
  <2>1. 1..0 = {}
    OBVIOUS
  <2>2. Joins(f, seqs, 0)
    BY <2>1 DEF Joins
  <2>3. CanJoin(seqs, 0)
    BY <2>2 DEF CanJoin
  <2> QED
    BY <2>3
<1>4. m - 1 \in Nat /\ m \in Nat /\ ~(m <= m - 1)
  BY <1>3
<1>5. CanJoin(seqs, m - 1)
  BY <1>2, <1>4
<1>6. CanJoin(seqs, m)
  BY <1>3, <1>4, <1>5, JoinOneMore
<1> QED
  BY <1>6

\* What FlattenSeq returns consists of the elements of the sequences it is given.
LEMMA FlattenType ==
    ASSUME NEW M, NEW seqs \in Seq(Seq(M))
    PROVE  FlattenSeq(seqs) \in Seq(M)
<1> DEFINE n == Len(seqs)
<1>0. n \in Nat /\ \A k \in 1..n : seqs[k] \in Seq(M)
  OBVIOUS
<1>1. CASE n = 0
  <2>1. FlattenSeq(seqs) = seqs /\ seqs = <<>>
    BY <1>1, EmptySeq DEF FlattenSeq
  <2> QED
    BY <2>1
<1>2. CASE n # 0
  <2> DEFINE F == CHOOSE f : f = [k \in 1..n |-> IF k = 1 THEN seqs[k] ELSE f[k - 1] \o seqs[k]]
  <2>1. FlattenSeq(seqs) = F[n]
    BY <1>2 DEF FlattenSeq
  <2>2. \E f : f = [k \in 1..n |-> IF k = 1 THEN seqs[k] ELSE f[k - 1] \o seqs[k]]
    BY <1>0, AllCanJoin DEF CanJoin, Joins
  <2>3. F = [k \in 1..n |-> IF k = 1 THEN seqs[k] ELSE F[k - 1] \o seqs[k]]
    BY <2>2
  <2> HIDE DEF F
  <2> DEFINE T == {k \in 1..n : F[k] \notin Seq(M)}
  <2>4. T \in SUBSET Nat
    OBVIOUS
  <2>5. ASSUME T # {} PROVE FALSE
    <3>1. PICK k \in T : \A l \in T : k <= l
      BY <2>4, <2>5, LeastNatural
    <3>2. k \in 1..n /\ F[k] \notin Seq(M) /\ seqs[k] \in Seq(M)
      BY <1>0
    <3>3. F[k] = IF k = 1 THEN seqs[k] ELSE F[k - 1] \o seqs[k]
      BY <2>3, <3>2
    <3>4. k # 1
      BY <3>2, <3>3
    <3>5. k - 1 \in 1..n /\ ~(k <= k - 1)
      BY <1>0, <3>2, <3>4
    <3>6. F[k - 1] \in Seq(M)
      BY <3>1, <3>5
    <3> QED
      BY <3>2, <3>3, <3>4, <3>6, ConcatProperties
  <2>6. n \in 1..n
    BY <1>0, <1>2
  <2> QED
    BY <2>1, <2>5, <2>6
<1> QED
  BY <1>1, <1>2

--------------------------------------------------------------------------------
(* The targets *)

TLSWays == {"no", "any", "ca", "full"}

\* What sslmode has to say of a way to use TLS, or not to.
WayAllowed(s, t) ==
    /\ t \in TLSWays
    /\ t = "no" => s.sslmode \in {"", "disable", "allow", "prefer"}
    /\ t = "any" => /\ s.sslmode \notin {"verify-ca", "verify-full"}
                    /\ ~(s.sslmode = "require" /\ s.rootcert)

AllowedWays(s) == {t \in TLSWays : WayAllowed(s, t)}

AllowedFor(s, h, t) ==
    /\ h \in Range(s.hosts)
    /\ IF h \in UnixHosts THEN t = "no" ELSE WayAllowed(s, t)

Fallbacks(s) == {fb \in [host : Range(s.hosts), tls : TLSWays] : AllowedFor(s, fb.host, fb.tls)}
Targets(s) ==
    {t \in [host : Range(s.hosts), addr : Addresses, tls : TLSWays] : AllowedFor(s, t.host, t.tls)}

LEMMA ConfigsAllowed ==
    ASSUME NEW s, SettingsType(s)
    PROVE  TLSConfigs(s) \in Seq(AllowedWays(s))
<1>1. s.sslmode \in SslModes /\ s.rootcert \in BOOLEAN
  BY DEF SettingsType
<1>2. CASE s.sslmode = "disable"
  <2>1. "no" \in AllowedWays(s)
    BY <1>2 DEF TLSWays, WayAllowed, AllowedWays
  <2> QED
    BY <1>2, <2>1 DEF TLSConfigs
<1>3. CASE s.sslmode = "allow"
  <2>1. "no" \in AllowedWays(s) /\ "any" \in AllowedWays(s)
    BY <1>3 DEF TLSWays, WayAllowed, AllowedWays
  <2> QED
    BY <1>3, <2>1 DEF TLSConfigs
<1>4. CASE s.sslmode \in {"", "prefer"}
  <2>1. "no" \in AllowedWays(s) /\ "any" \in AllowedWays(s)
    BY <1>4 DEF TLSWays, WayAllowed, AllowedWays
  <2>2. TLSConfigs(s) = <<"any", "no">>
    BY <1>4 DEF TLSConfigs
  <2> QED
    BY <2>1, <2>2
<1>5. CASE s.sslmode = "require"
  <2>1. "ca" \in AllowedWays(s) /\ (~s.rootcert => "any" \in AllowedWays(s))
    BY <1>5 DEF TLSWays, WayAllowed, AllowedWays
  <2>2. TLSConfigs(s) = IF s.rootcert THEN <<"ca">> ELSE <<"any">>
    BY <1>5 DEF TLSConfigs
  <2> QED
    BY <2>1, <2>2
<1>6. CASE s.sslmode = "verify-ca"
  <2>1. "ca" \in AllowedWays(s)
    BY <1>6 DEF TLSWays, WayAllowed, AllowedWays
  <2>2. TLSConfigs(s) = <<"ca">>
    BY <1>6 DEF TLSConfigs
  <2> QED
    BY <2>1, <2>2
<1>7. CASE s.sslmode = "verify-full"
  <2>1. "full" \in AllowedWays(s)
    BY <1>7 DEF TLSWays, WayAllowed, AllowedWays
  <2>2. TLSConfigs(s) = <<"full">>
    BY <1>7 DEF TLSConfigs
  <2> QED
    BY <2>1, <2>2
<1> QED
  BY <1>1, <1>2, <1>3, <1>4, <1>5, <1>6, <1>7 DEF SslModes

LEMMA FallbacksAllowed ==
    ASSUME NEW s, SettingsType(s)
    PROVE  FallbackConfigs(s) \in Seq(Fallbacks(s))
<1> DEFINE ways(h) == IF h \in UnixHosts THEN <<"no">> ELSE TLSConfigs(s)
           of(n) == [k \in DOMAIN ways(s.hosts[n]) |-> [host |-> s.hosts[n], tls |-> ways(s.hosts[n])[k]]]
<1>1. s.hosts \in Seq(Range(s.hosts))
  BY DEF SettingsType
<1>2. ASSUME NEW n \in DOMAIN s.hosts
      PROVE  of(n) \in Seq(Fallbacks(s))
  <2> DEFINE h == s.hosts[n]
  <2>1. h \in Range(s.hosts)
    BY DEF Range
  <2>2. \A k \in DOMAIN ways(h) : ways(h)[k] \in TLSWays /\ AllowedFor(s, h, ways(h)[k])
    <3>1. CASE h \in UnixHosts
      BY <2>1, <3>1 DEF AllowedFor, TLSWays
    <3>2. CASE h \notin UnixHosts
      <4>1. \A k \in DOMAIN TLSConfigs(s) : TLSConfigs(s)[k] \in AllowedWays(s)
        BY ConfigsAllowed
      <4> QED
        BY <2>1, <3>2, <4>1 DEF AllowedFor, AllowedWays
    <3> QED
      BY <3>1, <3>2
  <2>3. PICK l \in Nat : DOMAIN ways(h) = 1..l
    <3>1. CASE h \in UnixHosts
      BY <3>1, SMTT(30)
    <3>2. CASE h \notin UnixHosts
      <4>1. DOMAIN TLSConfigs(s) = 1..Len(TLSConfigs(s)) /\ Len(TLSConfigs(s)) \in Nat
        BY ConfigsAllowed
      <4> QED
        BY <3>2, <4>1
    <3> QED
      BY <3>1, <3>2
  <2> HIDE DEF ways
  <2>4. \A k \in 1..l : [host |-> h, tls |-> ways(h)[k]] \in Fallbacks(s)
    BY <2>1, <2>2, <2>3 DEF Fallbacks
  <2> QED
    BY <2>3, <2>4
<1>3. DOMAIN s.hosts = 1..Len(s.hosts) /\ Len(s.hosts) \in Nat
  BY <1>1
<1> HIDE DEF of
<1>4. [n \in DOMAIN s.hosts |-> of(n)] \in Seq(Seq(Fallbacks(s)))
  BY <1>2, <1>3
<1>5. FallbackConfigs(s) = FlattenSeq([n \in DOMAIN s.hosts |-> of(n)])
  BY DEF FallbackConfigs, of
<1> QED
  BY <1>4, <1>5, FlattenType

LEMMA TargetsAllowed ==
    ASSUME NEW s \in Settings, NEW d \in DNS, Resolves(d, s)
    PROVE  ExpandWithIPs(d, FallbackConfigs(s)) \in Seq(Targets(s))
<1> DEFINE fbs == FallbackConfigs(s)
           of(n) == [k \in DOMAIN d[fbs[n].host] |->
                        [host |-> fbs[n].host, addr |-> d[fbs[n].host][k], tls |-> fbs[n].tls]]
<1>1. SettingsType(s)
  BY SettingsAssumption
<1>2. fbs \in Seq(Fallbacks(s))
  BY <1>1, FallbacksAllowed
<1> HIDE DEF fbs
<1>3. DOMAIN fbs = 1..Len(fbs) /\ Len(fbs) \in Nat
  BY <1>2
<1>4. ASSUME NEW n \in DOMAIN fbs
      PROVE  of(n) \in Seq(Targets(s))
  <2> DEFINE fb == fbs[n]
             ips == d[fb.host]
  <2>1. fb \in Fallbacks(s)
    BY <1>2
  <2> HIDE DEF fb
  <2>2. fb.host \in Range(s.hosts) /\ fb.tls \in TLSWays /\ AllowedFor(s, fb.host, fb.tls)
    BY <2>1 DEF Fallbacks
  <2>3. fb.host \in DOMAIN d
    BY <2>2 DEF Resolves, Range
  <2>4. ips \in Seq(Addresses)
    BY <2>3, DNSAssumption
  <2> HIDE DEF ips
  <2>5. DOMAIN ips = 1..Len(ips) /\ Len(ips) \in Nat /\ \A k \in 1..Len(ips) : ips[k] \in Addresses
    BY <2>4
  <2>6. \A k \in 1..Len(ips) : [host |-> fb.host, addr |-> ips[k], tls |-> fb.tls] \in Targets(s)
    BY <2>2, <2>5 DEF Targets
  <2>7. [k \in DOMAIN ips |-> [host |-> fb.host, addr |-> ips[k], tls |-> fb.tls]] \in Seq(Targets(s))
    BY <2>5, <2>6
  <2> QED
    BY <2>7 DEF ips, fb
<1> HIDE DEF of
<1>5. [n \in DOMAIN fbs |-> of(n)] \in Seq(Seq(Targets(s)))
  BY <1>3, <1>4
<1>6. ExpandWithIPs(d, fbs) = FlattenSeq([n \in DOMAIN fbs |-> of(n)])
  BY DEF ExpandWithIPs, of
<1> QED
  BY <1>5, <1>6, FlattenType DEF fbs

--------------------------------------------------------------------------------
(* Types, and who is asked *)

\* Past the handshake: the secrets go out.
Past == pc \notin {"lookup", "dial", "failed", "sslAnswer", "hello"}

Places == {"lookup", "dial", "sslAnswer", "hello", "startup", "authAnswer", "query",
           "noRows", "row", "drain", "connected", "failed"}

SearchInv ==
    /\ pc \in Places
    /\ settings \in Settings /\ dns \in DNS /\ world \in [Addresses -> Servers]
    /\ targets \in Seq(Targets(settings))
    /\ i \in Nat /\ (pc \notin {"lookup", "failed"} => i \in 1..Len(targets))
    /\ pc = "lookup" => targets = <<>>
    /\ losses \in Nat /\ tokens \in Nat

\* The connection is a TLS connection if the target says so, and then with the peer
\* that it asks for.
GuardInv ==
    /\ pc \in {"lookup", "dial", "failed", "sslAnswer"} => ~tls
    /\ pc = "sslAnswer" => targets[i].tls # "no" /\ \A k \in DOMAIN toServer : ~Secret(toServer[k])
    /\ pc = "hello" \/ Past => (tls <=> targets[i].tls # "no")
    /\ Past /\ tls => PeerOk(targets[i].tls, Server)


\* What a step leaves alone.
SearchGoes ==
    /\ UNCHANGED choiceVars
    /\ \/ Lookup
       \/ pc \notin {"lookup", "failed"} /\ \E e : Fails(e)
       \/ /\ UNCHANGED <<targets, i>>
          /\ pc \notin {"lookup", "failed"} /\ pc' \in Places \ {"lookup"}
       \/ UNCHANGED <<targets, i, pc>>

LEMMA SaysKeeps ==
    ASSUME NEW msgs, Says(msgs)
    PROVE  UNCHANGED <<settings, dns, world, targets, i, pc, tls, gss, suits, link, losses>>
BY DEF Says

LEMMA ServerKeeps ==
    ASSUME ServerActs
    PROVE  UNCHANGED <<settings, dns, world, targets, i, pc, tls, gss, suits, link, losses>>
<1>1. CASE ServerAnswersSSL
  BY <1>1, SaysKeeps DEF ServerAnswersSSL
<1>2. CASE ServerStartsUp
  BY <1>2, SaysKeeps DEF ServerStartsUp
<1>3. CASE ServerAuthenticates
  BY <1>3, SaysKeeps DEF ServerAuthenticates
<1>4. CASE ServerShowsRole
  BY <1>4, SaysKeeps DEF ServerShowsRole
<1> QED
  BY <1>1, <1>2, <1>3, <1>4 DEF ServerActs

LEMMA SearchMoves ==
    ASSUME [Next]_vars
    PROVE  SearchGoes
<1>1. CASE Lookup
  BY <1>1 DEF Places, Lookup, SearchGoes
<1>2. CASE DialFails
  BY <1>2 DEF Places, DialFails, Fails, Closed, SearchGoes
<1>3. CASE Dial
  BY <1>3 DEF Places, Dial, SearchGoes
<1>4. CASE StartTLS
  BY <1>4 DEF Places, StartTLS, SearchGoes
<1>5. CASE StartTLSFails
  <2>1. PICK e : Fails(e)
    BY <1>5 DEF Places, StartTLSFails, TLSFails
  <2> QED
    BY <1>5, <2>1 DEF Places, StartTLSFails, Fails, Closed, SearchGoes
<1>6. CASE Hello
  BY <1>6 DEF Places, Hello, SearchGoes
<1>7. CASE HelloFails
  BY <1>7 DEF Places, HelloFails, Panics, Fails, Closed, SearchGoes
<1>8. CASE StartupSkips
  BY <1>8 DEF Places, StartupSkips, SearchGoes
<1>9. CASE AuthAnswers
  BY <1>9 DEF Places, AuthAnswers, SearchGoes
<1>10. CASE AuthGss
  BY <1>10 DEF Places, AuthGss, SearchGoes
<1>11. CASE AuthRefuses
  BY <1>11 DEF Places, AuthRefuses, Panics, Fails, Closed, SearchGoes
<1>12. CASE AuthAccepted
  BY <1>12 DEF Places, AuthAccepted, SearchGoes
<1>13. CASE StartupFails
  <2>1. PICK e : Fails(e)
    BY <1>13 DEF Places, StartupFails, Panics
  <2>2. pc \notin {"lookup", "failed"}
    BY <1>13 DEF Places, StartupFails
  <2> QED
    BY <2>1, <2>2 DEF Places, Fails, Closed, SearchGoes
<1>14. CASE Ready
  BY <1>14 DEF Places, Ready, SearchGoes
<1>15. CASE Query
  BY <1>15 DEF Places, Query, SearchGoes
<1>16. CASE NilRows
  BY <1>16 DEF Places, NilRows, RuntimeError, Closed, SearchGoes
<1>17. CASE Row
  BY <1>17 DEF Places, Row, Drains, SearchGoes
<1>18. CASE RowFails
  BY <1>18 DEF Places, RowFails, Panics, Fails, Closed, SearchGoes
<1>19. CASE RowsClose
  BY <1>19 DEF Places, RowsClose, Panics, Fails, Closed, SearchGoes
<1>20. CASE RowsCloseFails
  BY <1>20 DEF Places, RowsCloseFails, Panics, Fails, Closed, SearchGoes
<1>21. CASE ServerActs
  BY <1>21, ServerKeeps DEF Places, SearchGoes
<1>22. CASE ServerGivesUp
  BY <1>22 DEF Places, ServerGivesUp, SearchGoes
<1>23. CASE ConnBreaks
  BY <1>23 DEF Places, ConnBreaks, SearchGoes
<1>24. CASE UNCHANGED vars
  BY <1>24 DEF Places, vars, SearchGoes
<1> QED
  BY <1>1, <1>2, <1>3, <1>4, <1>5, <1>6, <1>7, <1>8, <1>9, <1>10, <1>11, <1>12, <1>13,
     <1>14, <1>15, <1>16, <1>17, <1>18, <1>19, <1>20, <1>21, <1>22, <1>23, <1>24
     DEF Next, Continues, ServerSteps

\* The bounds count up.
LEMMA CountersStep ==
    ASSUME losses \in Nat, tokens \in Nat, [Next]_vars
    PROVE  /\ losses' \in Nat /\ tokens' \in Nat
           /\ losses' = 0 /\ tokens' = 0 => losses = 0 /\ tokens = 0
           /\ UNCHANGED losses \/ ConnBreaks
<1>1. CASE ServerActs
  <2>1. UNCHANGED losses
    BY <1>1, ServerKeeps
  <2>2. UNCHANGED tokens \/ tokens' = tokens + 1
    BY <1>1 DEF ServerActs, ServerAnswersSSL, ServerStartsUp, ServerAuthenticates, ServerShowsRole
  <2> QED
    BY <2>1, <2>2
<1>2. CASE ConnBreaks
  BY <1>2 DEF ConnBreaks
<1>3. CASE UNCHANGED <<losses, tokens>>
  BY <1>3
<1>4. CASE Continues
  <2> USE DEF Reads, Sends, Panics, TLSFails, Fails, RuntimeError, Closed
  <2>1. CASE Lookup \/ DialFails \/ Dial \/ StartTLS \/ StartTLSFails \/ Hello \/ HelloFails
    BY <2>1, <1>3 DEF Lookup, DialFails, Dial, StartTLS, StartTLSFails, Hello, HelloFails
  <2>2. CASE StartupSkips \/ AuthAnswers \/ AuthGss \/ AuthRefuses \/ AuthAccepted
    BY <2>2, <1>3 DEF StartupSkips, AuthAnswers, AuthGss, AuthRefuses, AuthAccepted
  <2>3. CASE StartupFails \/ Ready \/ Query \/ NilRows
    BY <2>3, <1>3 DEF StartupFails, Ready, Query, NilRows
  <2>4. CASE Row \/ RowFails \/ RowsClose \/ RowsCloseFails
    BY <2>4, <1>3 DEF Row, RowFails, RowsClose, RowsCloseFails
  <2> QED
    BY <1>4, <2>1, <2>2, <2>3, <2>4 DEF Continues
<1> QED
  BY <1>1, <1>2, <1>3, <1>4 DEF Next, ServerSteps, ServerGivesUp, vars

LEMMA SearchInit == Init => SearchInv
<1>1. <<>> \in Seq(Targets(settings))
  OBVIOUS
<1> QED
  BY <1>1 DEF Init, SearchInv, Places

LEMMA SearchStep ==
    ASSUME SearchInv, [Next]_vars
    PROVE  SearchInv'
<1>1. SearchGoes /\ losses' \in Nat /\ tokens' \in Nat
  BY SearchMoves, CountersStep DEF SearchInv
<1>2. (settings \in Settings /\ dns \in DNS /\ world \in [Addresses -> Servers])'
  BY <1>1 DEF SearchInv, SearchGoes
<1>3. CASE Lookup
  <2> DEFINE ts == IF Resolves(dns, settings)
                   THEN ExpandWithIPs(dns, FallbackConfigs(settings)) ELSE <<>>
  <2>1. CASE ts = <<>>
    BY <1>1, <1>2, <1>3, <2>1 DEF Lookup, SearchInv, Places, SearchGoes
  <2>2. CASE ts # <<>>
    <3>1. ts \in Seq(Targets(settings))
      BY <2>2, TargetsAllowed DEF SearchInv
    <3>2. pc' = "dial" /\ targets' = ts /\ i' = 1 /\ UNCHANGED settings
      BY <1>3, <2>2 DEF Lookup
    <3> HIDE DEF ts
    <3>3. Len(ts) \in Nat /\ Len(ts) # 0
      BY <2>2, <3>1, EmptySeq
    <3>4. i' \in 1..Len(targets')
      BY <3>2, <3>3
    <3> QED
      BY <1>1, <1>2, <3>1, <3>2, <3>4 DEF SearchInv, Places
  <2> QED
    BY <2>1, <2>2
<1>4. CASE pc \notin {"lookup", "failed"} /\ \E e : Fails(e)
  <2>1. /\ UNCHANGED <<targets, settings>>
        /\ \/ pc' = "failed" /\ UNCHANGED i
           \/ pc' = "dial" /\ i' = i + 1 /\ i # Len(targets)
    BY <1>4 DEF Fails, Closed, AtLast, NextTarget
  <2>2. Len(targets) \in Nat /\ i \in 1..Len(targets)
    BY <1>4, LenProperties DEF SearchInv
  <2>3. pc' = "dial" => i' \in 1..Len(targets)
    BY <2>1, <2>2
  <2>4. targets' \in Seq(Targets(settings')) /\ i' \in Nat
    BY <2>1, <2>2 DEF SearchInv
  <2> QED
    BY <1>1, <1>2, <2>1, <2>3, <2>4 DEF SearchInv, Places
<1>5. CASE UNCHANGED <<targets, i>> /\ pc \notin {"lookup", "failed"} /\ pc' \in Places \ {"lookup"}
  BY <1>1, <1>2, <1>5 DEF SearchInv, SearchGoes
<1>6. CASE UNCHANGED <<targets, i, pc>>
  BY <1>1, <1>2, <1>6 DEF SearchInv, SearchGoes
<1> QED
  BY <1>1, <1>3, <1>4, <1>5, <1>6 DEF SearchGoes

\* An attempt that ends has no TLS connection any more.
LEMMA EndUnguards == ASSUME NEW e, Fails(e) \/ RuntimeError PROVE GuardInv'
<1>1. tls' = FALSE /\ pc' \in {"dial", "failed"}
  BY DEF Fails, RuntimeError, Closed
<1> QED
  BY <1>1 DEF GuardInv, Past

\* Past the handshake the connection stays what it is.
LEMMA GuardStays ==
    ASSUME GuardInv, Past, Past', UNCHANGED <<settings, world, targets, i, tls>>
    PROVE  GuardInv'
<1>1. PeerOk(targets[i].tls, Server)' <=> PeerOk(targets[i].tls, Server)
  BY DEF PeerOk, Server
<1> QED
  BY <1>1 DEF GuardInv, Past

LEMMA GuardStep ==
    ASSUME GuardInv, [Next]_vars
    PROVE  GuardInv'
<1>1. CASE Lookup
  BY <1>1 DEF Lookup, GuardInv, Past
<1>2. CASE DialFails
  BY <1>2, EndUnguards DEF DialFails
<1>3. CASE Dial
  <2>1. /\ UNCHANGED <<targets, i, tls>> /\ pc = "dial"
        /\ IF targets[i].tls = "no"
           THEN pc' = "hello"
           ELSE pc' = "sslAnswer" /\ toServer' = <<Msg("SSLRequest", "-")>>
    BY <1>3 DEF Dial
  <2>2. pc' = "sslAnswer" => \A k \in DOMAIN toServer' : toServer'[k] = Msg("SSLRequest", "-")
    BY <2>1
  <2>3. ~Secret(Msg("SSLRequest", "-"))
    BY DEF Secret, Msg
  <2>4. pc' = "sslAnswer" => (\A k \in DOMAIN toServer : ~Secret(toServer[k]))'
    BY <2>2, <2>3 DEF Secret
  <2> QED
    BY <2>1, <2>4 DEF GuardInv, Past
<1>4. CASE StartTLS
  <2>1. tls' = TRUE /\ pc' = "hello" /\ UNCHANGED <<targets, i>> /\ pc = "sslAnswer"
    BY <1>4 DEF StartTLS, IsS
  <2> QED
    BY <2>1 DEF GuardInv, Past
<1>5. CASE StartTLSFails
  BY <1>5, EndUnguards DEF StartTLSFails, TLSFails
<1>6. CASE Hello
  <2>1. /\ pc = "hello" /\ pc' = "startup" /\ UNCHANGED <<settings, world, targets, i, tls>>
        /\ tls => PeerOk(targets[i].tls, Server)
    BY <1>6 DEF Hello
  <2>2. PeerOk(targets[i].tls, Server)' <=> PeerOk(targets[i].tls, Server)
    BY <2>1 DEF PeerOk, Server
  <2> QED
    BY <2>1, <2>2 DEF GuardInv, Past
<1>7. CASE HelloFails
  BY <1>7, EndUnguards DEF HelloFails, Panics
<1>8. CASE StartupSkips
  BY <1>8, GuardStays DEF StartupSkips, Past
<1>9. CASE AuthAnswers
  BY <1>9, GuardStays DEF AuthAnswers, Past
<1>10. CASE AuthGss
  BY <1>10, GuardStays DEF AuthGss, Past
<1>11. CASE AuthRefuses
  BY <1>11, EndUnguards DEF AuthRefuses, Panics
<1>12. CASE AuthAccepted
  BY <1>12, GuardStays DEF AuthAccepted, Past
<1>13. CASE StartupFails
  BY <1>13, EndUnguards DEF StartupFails, Panics
<1>14. CASE Ready
  BY <1>14, GuardStays DEF Ready, Past
<1>15. CASE Query
  BY <1>15, GuardStays DEF Query, Past
<1>16. CASE NilRows
  BY <1>16, EndUnguards DEF NilRows
<1>17. CASE Row
  BY <1>17, GuardStays DEF Row, Drains, Past
<1>18. CASE RowFails
  BY <1>18, EndUnguards DEF RowFails, Panics
<1>19. CASE RowsClose
  <2>1. CASE Panics("role")
    BY <2>1, EndUnguards DEF Panics
  <2>2. CASE ~Panics("role")
    BY <1>19, <2>2, GuardStays DEF RowsClose, Past
  <2> QED
    BY <2>1, <2>2
<1>20. CASE RowsCloseFails
  <2>1. CASE Panics("role")
    BY <2>1, EndUnguards DEF Panics
  <2>2. CASE ~Panics("role")
    BY <1>20, <2>2, GuardStays DEF RowsCloseFails, Past
  <2> QED
    BY <2>1, <2>2
<1>21. CASE /\ UNCHANGED <<settings, world, targets, i, pc, tls>>
            /\ UNCHANGED toServer \/ toServer' = <<>>
  <2>1. toServer' = <<>> => (\A k \in DOMAIN toServer : ~Secret(toServer[k]))'
    OBVIOUS
  <2>2. UNCHANGED toServer => ((\A k \in DOMAIN toServer : ~Secret(toServer[k]))' <=>
                                 \A k \in DOMAIN toServer : ~Secret(toServer[k]))
    BY DEF Secret
  <2>3. PeerOk(targets[i].tls, Server)' <=> PeerOk(targets[i].tls, Server)
    BY <1>21 DEF PeerOk, Server
  <2> QED
    BY <1>21, <2>1, <2>2, <2>3 DEF GuardInv, Past
<1>22. CASE ServerActs
  <2>1. toServer' = <<>>
    BY <1>22 DEF ServerActs, ServerAnswersSSL, ServerStartsUp, ServerAuthenticates,
                 ServerShowsRole, Says
  <2> QED
    BY <1>22, <1>21, <2>1, ServerKeeps
<1>23. CASE ServerGivesUp \/ ConnBreaks \/ UNCHANGED vars
  BY <1>23, <1>21 DEF ServerGivesUp, ConnBreaks, vars
<1> QED
  BY <1>1, <1>2, <1>3, <1>4, <1>5, <1>6, <1>7, <1>8, <1>9, <1>10, <1>11, <1>12, <1>13,
     <1>14, <1>15, <1>16, <1>17, <1>18, <1>19, <1>20, <1>22, <1>23
     DEF Next, Continues, ServerSteps

LEMMA SecretsSafe == SearchInv /\ StepInv /\ GuardInv => SecretsGuarded
<1> SUFFICES ASSUME SearchInv, StepInv, GuardInv,
                    NEW k \in DOMAIN toServer, Secret(toServer[k]),
                    targets[i].host \notin UnixHosts
             PROVE  (~tls => MayBeClear) /\ (MustVerify => Server.trusted)
  BY DEF SecretsGuarded
<1>1. pc \notin {"lookup", "dial", "hello", "row", "drain", "noRows", "connected", "failed"}
  BY DEF StepInv
<1>2. Past
  BY <1>1 DEF GuardInv, Past
<1>3. targets[i] \in Targets(settings) /\ SettingsType(settings)
  BY <1>1, SettingsAssumption DEF SearchInv
<1>4. WayAllowed(settings, targets[i].tls)
  BY <1>3 DEF Targets, AllowedFor
<1>5. ~tls => MayBeClear
  BY <1>2, <1>4 DEF GuardInv, WayAllowed, MayBeClear
<1>6. MustVerify => targets[i].tls \in {"ca", "full"}
  BY <1>3, <1>4 DEF WayAllowed, MustVerify, TLSWays
<1>7. targets[i].tls \in {"ca", "full"} => Server.trusted
  BY <1>2 DEF GuardInv, PeerOk
<1> QED
  BY <1>5, <1>6, <1>7

\* The startup packet and the password are never sent in the clear, or to a peer that
\* was not verified, where sslmode forbids it: whatever the connection string, the
\* addresses of its hosts, and the servers there.
THEOREM SecretsAreGuarded == Spec => []SecretsGuarded
<1>1. Init => SearchInv /\ StepInv /\ GuardInv
  BY SearchInit, NothingIsAnswer DEF Init, StepInv, GuardInv, Past
<1>2. SearchInv /\ StepInv /\ GuardInv /\ [Next]_vars => (SearchInv /\ StepInv /\ GuardInv)'
  BY SearchStep, StepStep, GuardStep
<1> QED
  BY <1>1, <1>2, SecretsSafe, PTL DEF Spec

--------------------------------------------------------------------------------
(* The search is honest: what the servers say in an attempt tells what they *)
(* are like, as long as no link breaks.                                     *)

Quiet == losses = 0 /\ tokens = 0
Admits == Server.refuses = "no" /\ (tls \/ Server.clear)
LetsIn == Admits /\ LogsIn(Server)

\* A refusal tells that the target does not accept, and a final one that nobody will.
Refusal(e) == ~Accepts(targets[i]) /\ (EndsSearch(e) => IsFinal(targets[i]))

\* The end of the burst that the session begins with.
Greets(s) ==
    /\ s # <<>> /\ s[Len(s)].type = "Z"
    /\ \A k \in 1..Len(s) : s[k].type \in Skipped \cup {"Z"} \/ s[k] = Msg("R", "ok")

RoleRow == Msg("D", [recovery |-> Server.recovery, readOnly |-> Server.readOnly])

ServerErrors == {"53300", "28000", "28P01"}

InStartup ==
    \/ toServer = <<Msg("startup", "-")>> /\ toClient = <<>>
    \/ /\ toServer = <<Msg("token", "-")>> /\ toClient = <<>>
       /\ Admits /\ Server.auth = "gss" /\ settings.krb
    \/ /\ toServer = <<>>
       /\ \/ LetsIn /\ Greets(toClient)
          \/ Admits /\ Server.auth # "ok" /\ toClient = <<Msg("R", Server.auth)>>
          \/ \E e \in ServerErrors : Refusal(e) /\ toClient = <<Msg("E", e)>>

InAuthAnswer ==
    /\ Admits /\ Server.auth \in Answered
    /\ \/ /\ toServer = <<Msg("password", WellFormed(Server.auth) /\ settings.password)>>
          /\ toClient = <<>>
       \/ toServer = <<>> /\ LetsIn /\ Greets(toClient)
       \/ toServer = <<>> /\ ~LogsIn(Server) /\ toClient = <<Msg("E", "28P01")>>

InQuery ==
    /\ LetsIn /\ Validates
    /\ \/ toServer = <<Msg("query", "-")>> /\ toClient = <<>>
       \/ /\ toServer = <<>>
          /\ \/ /\ Server.queries = "ok"
                /\ toClient = <<Msg("T", "-"), RoleRow, Msg("C", "-"), Msg("Z", "-")>>
             \/ /\ Server.queries = "fails"
                /\ toClient = <<Msg("E", "57014"), Msg("Z", "-")>>
             \/ /\ Server.queries = "breaksOff"
                /\ toClient = <<Msg("T", "-"), Msg("E", "57014"), Msg("Z", "-")>>

InRow ==
    /\ LetsIn /\ Validates
    /\ \/ Server.queries = "ok" /\ toClient = <<RoleRow, Msg("C", "-"), Msg("Z", "-")>>
       \/ Server.queries = "breaksOff" /\ toClient = <<Msg("E", "57014"), Msg("Z", "-")>>

InNoRows == LetsIn /\ Validates /\ Server.queries # "ok"

InDrain == LetsIn /\ Validates /\ (suits <=> Server.queries = "ok" /\ Suits(Server))

AttemptInv ==
    /\ pc \notin {"lookup", "dial", "failed", "connected"} => link = "up" /\ Server.listens
    /\ pc = "sslAnswer" /\ Arrived => Head(toClient).type = IF Server.tls THEN "S" ELSE "N"
    /\ (pc = "hello" \/ Past) /\ tls => Server.tls
    /\ pc = "startup" => InStartup
    /\ pc = "authAnswer" => InAuthAnswer
    /\ pc = "query" => InQuery
    /\ pc = "noRows" => InNoRows
    /\ pc = "row" => InRow
    /\ pc = "drain" => InDrain

\* The targets that have been left behind.
OutcomeInv ==
    /\ pc \notin {"lookup", "failed"} => \A j \in 1..(i - 1) : ~Accepts(targets[j])
    /\ pc = "connected" => Accepts(targets[i])
    /\ pc = "failed" =>
           \A k \in 1..Len(targets) :
               Accepts(targets[k]) => \E j \in 1..(k - 1) : IsFinal(targets[j])

HonestInv == Quiet => AttemptInv /\ OutcomeInv

\* Who accepts does not change while the search stays where it is.
LEMMA SameServers ==
    ASSUME UNCHANGED <<settings, world, targets>>
    PROVE  /\ \A t : Accepts(t)' <=> Accepts(t)
           /\ \A t : IsFinal(t)' <=> IsFinal(t)
BY DEF Accepts, IsFinal, PeerOk, LogsIn, Validates, Suits

\* While it tries the same target, neither does what the target is like.
LEMMA SameServer ==
    ASSUME UNCHANGED <<settings, world, targets, i>>
    PROVE  /\ Server' = Server
           /\ (LogsIn(Server))' <=> LogsIn(Server)
           /\ Validates' <=> Validates
           /\ Answered' = Answered
           /\ RoleRow' = RoleRow
           /\ \A e : Refusal(e)' <=> Refusal(e)
<1>1. Server' = Server
  BY DEF Server
<1>2. (LogsIn(Server))' <=> LogsIn(Server)
  BY <1>1 DEF LogsIn
<1>3. RoleRow' = RoleRow
  BY <1>1 DEF RoleRow
<1>4. \A e : Refusal(e)' <=> Refusal(e)
  BY SameServers DEF Refusal
<1> QED
  BY <1>1, <1>2, <1>3, <1>4 DEF Validates, Answered

LEMMA SameOutcome ==
    ASSUME OutcomeInv, UNCHANGED <<settings, world, targets, i>>,
           pc \notin {"lookup", "failed", "connected"}, pc' \notin {"lookup", "failed", "connected"}
    PROVE  OutcomeInv'
<1>1. \A t : Accepts(t)' <=> Accepts(t)
  BY SameServers
<1>2. (\A j \in 1..(i - 1) : ~Accepts(targets[j]))'
  BY <1>1 DEF OutcomeInv
<1> QED
  BY <1>2 DEF OutcomeInv

\* What was refused is left behind rightly, and so is the search when it ends here.
LEMMA LeftBehind ==
    ASSUME SearchInv, OutcomeInv, pc \notin {"lookup", "failed"}, NEW e, Refusal(e), Fails(e)
    PROVE  AttemptInv' /\ OutcomeInv'
<1>1. pc' \in {"dial", "failed"} /\ UNCHANGED <<settings, world, targets>>
  BY DEF Fails, Closed
<1>2. /\ \A t : Accepts(t)' <=> Accepts(t)
      /\ \A t : IsFinal(t)' <=> IsFinal(t)
  BY <1>1, SameServers
<1>3. AttemptInv'
  BY <1>1 DEF AttemptInv, Past
<1>4. i \in 1..Len(targets) /\ Len(targets) \in Nat
  BY LenProperties DEF SearchInv
<1>5. \A j \in 1..i : ~Accepts(targets[j])
  BY <1>4 DEF OutcomeInv, Refusal
<1>6. CASE pc' = "dial"
  <2>1. i' = i + 1
    BY <1>6 DEF Fails, NextTarget
  <2>2. (\A j \in 1..(i - 1) : ~Accepts(targets[j]))'
    <3>1. i' - 1 = i
      BY <1>4, <2>1
    <3> QED
      BY <1>1, <1>2, <1>5, <3>1
  <2> QED
    BY <1>3, <1>6, <2>2 DEF OutcomeInv
<1>7. CASE pc' = "failed"
  <2>1. ASSUME NEW k \in 1..Len(targets), Accepts(targets[k])
        PROVE  \E j \in 1..(k - 1) : IsFinal(targets[j])
    <3>1. ~(k \in 1..i)
      BY <1>5, <2>1
    <3>2. k > i /\ i \in 1..(k - 1)
      BY <1>4, <3>1
    <3>3. ~AtLast
      BY <1>4, <3>2 DEF AtLast
    <3>4. EndsSearch(e)
      BY <1>7, <3>3 DEF Fails
    <3> QED
      BY <3>2, <3>4 DEF Refusal
  <2>2. (\A k \in 1..Len(targets) :
            Accepts(targets[k]) => \E j \in 1..(k - 1) : IsFinal(targets[j]))'
    BY <1>1, <1>2, <2>1
  <2> QED
    BY <1>3, <1>7, <2>2 DEF OutcomeInv
<1> QED
  BY <1>1, <1>6, <1>7

LEMMA RestGreets ==
    ASSUME NEW s, Answer(s), Greets(s)
    PROVE  /\ Head(s).type \in Skipped \cup {"Z"} \/ Head(s) = Msg("R", "ok")
           /\ Head(s).type # "Z" => Greets(Tail(s))
<1>1. PICK M : s \in Seq(M)
  BY DEF Answer, IsSeq
<1> DEFINE t == Tail(s)
           n == Len(t)
<1>2. t \in Seq(M) /\ Len(t) = Len(s) - 1 /\ Len(s) \in Nat \ {0} /\ Head(s) = s[1]
  BY <1>1, HeadTailProperties, EmptySeq, LenProperties DEF Greets
<1>3. \A k \in 1..n : t[k] = s[k + 1]
  BY <1>1, HeadTailProperties DEF Greets
<1>4. n + 1 = Len(s) /\ n \in Nat /\ 1 \in 1..Len(s)
  BY <1>2
<1>5. t = <<>> => n = 0
  BY <1>2, SMTT(30)
<1> HIDE DEF t, n
<1>6. ASSUME Head(s).type # "Z"
      PROVE  Greets(t)
  <2>1. Len(s) # 1
    BY <1>2, <1>6 DEF Greets
  <2>2. n \in 1..n
    BY <1>4, <2>1
  <2>3. t # <<>> /\ t[n].type = "Z"
    BY <1>3, <1>4, <1>5, <2>2 DEF Greets
  <2>4. ASSUME NEW k \in 1..n
        PROVE  t[k] = s[k + 1] /\ k + 1 \in 1..Len(s)
    BY <1>3, <1>4
  <2> QED
    BY <2>3, <2>4 DEF Greets, n
<1> QED
  BY <1>2, <1>4, <1>6 DEF Greets, t

LEMMA BurstGreets == Greets(Burst)
<1>1. Burst # <<>> /\ Len(Burst) = 5 /\ Burst[5] = Msg("Z", "-")
  BY DEF Burst
<1>2. \A k \in 1..5 : Burst[k].type \in Skipped \cup {"Z"} \/ Burst[k] = Msg("R", "ok")
  BY DEF Burst, Msg, Skipped
<1>3. Msg("Z", "-").type = "Z"
  BY DEF Msg
<1> QED
  BY <1>1, <1>2, <1>3 DEF Greets


\* An attempt that goes on: what its steps leave alone.
GoesOnTrying ==
    /\ UNCHANGED <<settings, world, targets, i>>
    /\ pc \notin {"lookup", "failed", "connected"} /\ pc' \notin {"lookup", "failed", "connected"}

HonestHere == SearchInv /\ StepInv /\ GuardInv /\ AttemptInv /\ OutcomeInv

LEMMA TypedServer ==
    ASSUME SearchInv, pc \notin {"lookup", "failed"}
    PROVE  ServerType(Server)
<1>1. targets[i] \in Targets(settings)
  BY DEF SearchInv
<1>2. targets[i].addr \in Addresses
  BY <1>1 DEF Targets
<1> QED
  BY <1>2, ServersAssumption DEF SearchInv, Server

\* Past the handshake the target has been reached in the way it asks for: what else
\* makes a refusal final is said by the server.
LEMMA FinalHere ==
    ASSUME HonestHere, Past, pc # "connected",
           \/ Server.refuses = "28000"
           \/ /\ Server.refuses = "no"
              /\ \/ ~tls /\ ~Server.clear
                 \/ Server.auth # "ok" /\ ~LogsIn(Server)
                 \/ Validates /\ Server.queries # "ok"
    PROVE  IsFinal(targets[i])
<1>1. Server.listens /\ (tls => Server.tls)
  BY DEF HonestHere, AttemptInv, Past
<1>2. (tls <=> targets[i].tls # "no") /\ (tls => PeerOk(targets[i].tls, Server))
  BY DEF HonestHere, GuardInv
<1> QED
  BY <1>1, <1>2 DEF IsFinal, Server

LEMMA OneMessage ==
    ASSUME NEW m
    PROVE  Head(<<m>>) = m /\ Tail(<<m>>) = <<>> /\ <<m>> # <<>>
OBVIOUS

LEMMA MsgFields == ASSUME NEW t, NEW v PROVE Msg(t, v).type = t /\ Msg(t, v).val = v
BY DEF Msg

LEMMA MsgEqual ==
    ASSUME NEW t, NEW v, NEW u, NEW w, Msg(t, v) = Msg(u, w)
    PROVE  t = u /\ v = w
<1>1. Msg(t, v).type = Msg(u, w).type /\ Msg(t, v).val = Msg(u, w).val
  OBVIOUS
<1> QED
  BY <1>1, MsgFields

\* What the server says of the authentication, when the client is about to read it.
LEMMA StartupHead ==
    ASSUME HonestHere, pc = "startup", Arrived
    PROVE  /\ toServer = <<>> /\ link = "up" /\ Server.listens
           /\ \/ LetsIn /\ Greets(toClient)
              \/ Admits /\ Server.auth # "ok" /\ toClient = <<Msg("R", Server.auth)>>
              \/ \E e \in ServerErrors : Refusal(e) /\ toClient = <<Msg("E", e)>>
BY DEF HonestHere, AttemptInv, InStartup, Arrived

LEMMA HonestDial ==
    ASSUME HonestHere, Dial
    PROVE  AttemptInv' /\ OutcomeInv'
<1>1. /\ UNCHANGED <<settings, world, targets, i, tls, toClient>>
      /\ pc = "dial" /\ pc' \in {"hello", "sslAnswer"}
      /\ link' = "up" /\ Server.listens /\ ~tls
  BY DEF Dial, HonestHere, GuardInv
<1>2. Server' = Server
  BY <1>1, SameServer
<1>3. OutcomeInv'
  BY <1>1, SameOutcome DEF HonestHere
<1>4. ~Arrived'
  BY <1>1 DEF HonestHere, StepInv, Arrived
<1> QED
  BY <1>1, <1>2, <1>3, <1>4 DEF AttemptInv, Past

LEMMA HonestStartTLS ==
    ASSUME HonestHere, StartTLS
    PROVE  AttemptInv' /\ OutcomeInv'
<1>1. /\ UNCHANGED <<settings, world, targets, i, link>>
      /\ pc = "sslAnswer" /\ pc' = "hello" /\ Arrived /\ Head(toClient).type = "S"
  BY DEF StartTLS, Reads, IsS
<1>2. Server' = Server
  BY <1>1, SameServer
<1>3. OutcomeInv'
  BY <1>1, SameOutcome DEF HonestHere
<1>4. Server.tls /\ Server.listens /\ link = "up"
  BY <1>1 DEF HonestHere, AttemptInv
<1> QED
  BY <1>1, <1>2, <1>3, <1>4 DEF AttemptInv, Past

LEMMA HonestTLSFails ==
    ASSUME HonestHere, StartTLSFails
    PROVE  AttemptInv' /\ OutcomeInv'
<1>1. pc = "sslAnswer" /\ Fails("tls") /\ link = "up"
  BY DEF StartTLSFails, TLSFails, HonestHere, AttemptInv
<1>2. Arrived /\ Head(toClient).type # "S"
  BY <1>1 DEF StartTLSFails, Broken, IsS
<1>3. ~Server.tls /\ targets[i].tls # "no"
  BY <1>1, <1>2 DEF HonestHere, AttemptInv, GuardInv
<1>4. Refusal("tls")
  BY <1>3 DEF Refusal, Accepts, EndsSearch, Server
<1> QED
  BY <1>1, <1>4, LeftBehind DEF HonestHere

LEMMA HonestHello ==
    ASSUME HonestHere, Hello
    PROVE  AttemptInv' /\ OutcomeInv'
<1>1. /\ UNCHANGED <<settings, world, targets, i, tls, link>>
      /\ pc = "hello" /\ pc' = "startup"
      /\ toServer' = <<Msg("startup", "-")>> /\ toClient' = <<>>
  BY DEF Hello, Sends, HonestHere, StepInv, Arrived
<1>2. Server' = Server
  BY <1>1, SameServer
<1>3. OutcomeInv'
  BY <1>1, SameOutcome DEF HonestHere
<1>4. link = "up" /\ Server.listens /\ (tls => Server.tls)
  BY <1>1 DEF HonestHere, AttemptInv
<1>5. InStartup'
  BY <1>1 DEF InStartup
<1> QED
  BY <1>1, <1>2, <1>3, <1>4, <1>5 DEF AttemptInv, Past

LEMMA HonestHelloFails ==
    ASSUME HonestHere, HelloFails
    PROVE  AttemptInv' /\ OutcomeInv'
<1>1. pc = "hello" /\ Fails("io") /\ link = "up"
  BY DEF HelloFails, Panics, HonestHere, AttemptInv
<1>2. tls /\ ~PeerOk(targets[i].tls, Server)
  BY <1>1 DEF HelloFails, SendFails
<1>3. targets[i].tls # "no"
  BY <1>1, <1>2 DEF HonestHere, GuardInv
<1>4. Refusal("io")
  BY <1>2, <1>3 DEF Refusal, Accepts, EndsSearch, Server
<1> QED
  BY <1>1, <1>4, LeftBehind DEF HonestHere

\* Past the handshake, a step keeps the peer.
LEMMA PeerStays ==
    ASSUME HonestHere, GoesOnTrying, Past, UNCHANGED <<tls, link>>
    PROVE  /\ OutcomeInv'
           /\ Server' = Server /\ link' = "up" /\ Server'.listens /\ (tls' => Server'.tls)
           /\ Admits' <=> Admits
           /\ LetsIn' <=> LetsIn
<1>1. UNCHANGED <<settings, world, targets, i, tls, link>> /\ pc \notin {"lookup", "dial", "failed", "connected"}
  BY DEF GoesOnTrying, Past
<1>2. Server' = Server /\ ((LogsIn(Server))' <=> LogsIn(Server))
  BY <1>1, SameServer
<1>3. OutcomeInv'
  BY SameOutcome DEF GoesOnTrying, HonestHere
<1>4. link = "up" /\ Server.listens /\ (tls => Server.tls)
  BY <1>1 DEF HonestHere, AttemptInv
<1>5. Admits' <=> Admits
  BY <1>1, <1>2 DEF Admits
<1> QED
  BY <1>1, <1>2, <1>3, <1>4, <1>5 DEF LetsIn

LEMMA HonestSkips ==
    ASSUME HonestHere, StartupSkips
    PROVE  AttemptInv' /\ OutcomeInv'
<1>1. /\ GoesOnTrying /\ Past /\ UNCHANGED <<tls, link, toServer>> /\ pc = "startup" /\ pc' = "startup"
      /\ Arrived /\ toClient' = Tail(toClient)
      /\ Head(toClient).type \in Skipped \/ Head(toClient) = Msg("R", "ok")
  BY DEF StartupSkips, Reads, GoesOnTrying, Past
<1>2. LetsIn /\ Greets(toClient) /\ toServer = <<>>
  <2>1. CASE Admits /\ Server.auth # "ok" /\ toClient = <<Msg("R", Server.auth)>>
    BY <1>1, <2>1, OneMessage, MsgFields, MsgEqual DEF Skipped
  <2>2. CASE \E e \in ServerErrors : Refusal(e) /\ toClient = <<Msg("E", e)>>
    BY <1>1, <2>2, OneMessage, MsgFields DEF Skipped
  <2> QED
    BY <1>1, <2>1, <2>2, StartupHead
<1>3. Head(toClient).type # "Z"
  BY <1>1, MsgFields DEF Skipped
<1>4. Greets(toClient')
  BY <1>1, <1>2, <1>3, RestGreets DEF HonestHere, StepInv
<1>5. /\ OutcomeInv' /\ link' = "up" /\ Server'.listens /\ (tls' => Server'.tls)
      /\ LetsIn' <=> LetsIn
  BY <1>1, PeerStays
<1>6. InStartup'
  BY <1>1, <1>2, <1>4, <1>5 DEF InStartup, Greets
<1> QED
  BY <1>1, <1>5, <1>6 DEF AttemptInv

LEMMA HonestAnswers ==
    ASSUME HonestHere, AuthAnswers
    PROVE  AttemptInv' /\ OutcomeInv'
<1>1. /\ GoesOnTrying /\ Past /\ UNCHANGED <<tls, link>> /\ pc = "startup" /\ pc' = "authAnswer"
      /\ Arrived /\ toClient' = Tail(toClient)
      /\ Head(toClient).type = "R" /\ Head(toClient).val \in Answered
      /\ toServer' = <<Msg("password", WellFormed(Head(toClient).val) /\ settings.password)>>
      /\ UNCHANGED settings
  BY DEF AuthAnswers, Sends, GoesOnTrying, Past
<1>2. Admits /\ toClient = <<Msg("R", Server.auth)>>
  <2>1. CASE LetsIn /\ Greets(toClient)
    <3>1. Head(toClient).type \in Skipped \cup {"Z"} \/ Head(toClient) = Msg("R", "ok")
      BY <2>1, RestGreets DEF HonestHere, StepInv
    <3> QED
      BY <1>1, <3>1, MsgFields DEF Skipped, Answered
  <2>2. CASE \E e \in ServerErrors : Refusal(e) /\ toClient = <<Msg("E", e)>>
    BY <1>1, <2>2, OneMessage, MsgFields
  <2> QED
    BY <1>1, <2>1, <2>2, StartupHead
<1>3. Head(toClient).val = Server.auth /\ Tail(toClient) = <<>>
  BY <1>2, OneMessage, MsgFields
<1>4. /\ OutcomeInv' /\ Server' = Server /\ link' = "up" /\ Server'.listens /\ (tls' => Server'.tls)
      /\ Admits' <=> Admits
  BY <1>1, PeerStays
<1>5. Answered' = Answered
  BY <1>1 DEF Answered
<1>6. InAuthAnswer'
  BY <1>1, <1>2, <1>3, <1>4, <1>5 DEF InAuthAnswer, WellFormed
<1> QED
  BY <1>1, <1>4, <1>6 DEF AttemptInv


LEMMA HonestGss ==
    ASSUME HonestHere, AuthGss, Quiet
    PROVE  AttemptInv' /\ OutcomeInv'
<1>1. /\ GoesOnTrying /\ Past /\ UNCHANGED tls /\ pc = "startup" /\ pc' = "startup" /\ Arrived
      /\ Head(toClient).type = "R" /\ Head(toClient).val \in {"gss", "gssContinue"}
      /\ UNCHANGED link
  BY MsgFields DEF AuthGss, Sends, Reads, GoesOnTrying, Past
<1>2. Admits /\ toClient = <<Msg("R", Server.auth)>>
  <2>1. CASE LetsIn /\ Greets(toClient)
    <3>1. Head(toClient).type \in Skipped \cup {"Z"} \/ Head(toClient) = Msg("R", "ok")
      BY <2>1, RestGreets DEF HonestHere, StepInv
    <3> QED
      BY <1>1, <3>1, MsgFields DEF Skipped
  <2>2. CASE \E e \in ServerErrors : Refusal(e) /\ toClient = <<Msg("E", e)>>
    BY <1>1, <2>2, OneMessage, MsgFields
  <2> QED
    BY <1>1, <2>1, <2>2, StartupHead
<1>3. Head(toClient) = Msg("R", Server.auth) /\ Tail(toClient) = <<>>
  BY <1>2, OneMessage
<1>4. Server.auth = "gss"
  <2>1. Server.auth \in AuthCodes
    BY <1>1, TypedServer DEF HonestHere, ServerType
  <2> QED
    BY <1>1, <1>3, <2>1, MsgFields DEF AuthCodes
<1>5. settings.krb /\ toServer' = <<Msg("token", "-")>> /\ toClient' = <<>>
  <2>1. Head(toClient) # Msg("R", "gssContinue")
    BY <1>3, <1>4, MsgEqual
  <2> QED
    BY <1>1, <1>3, <2>1 DEF AuthGss, Sends
<1>6. /\ OutcomeInv' /\ Server' = Server /\ link' = "up" /\ Server'.listens /\ (tls' => Server'.tls)
      /\ Admits' <=> Admits
  BY <1>1, PeerStays
<1>7. InStartup'
  BY <1>1, <1>2, <1>4, <1>5, <1>6 DEF InStartup, GoesOnTrying
<1> QED
  BY <1>1, <1>6, <1>7 DEF AttemptInv

LEMMA HonestRefuses ==
    ASSUME HonestHere, AuthRefuses, Quiet
    PROVE  AttemptInv' /\ OutcomeInv'
<1>1. pc = "startup" /\ Arrived /\ Head(toClient).type = "R" /\ Fails("auth")
  BY DEF AuthRefuses, Panics
<1>2. ~SendFails
  BY <1>1, StartupHead DEF SendFails
<1>3. toClient = <<Msg("R", Server.auth)>> /\ Server.auth # "ok"
  <2>1. CASE LetsIn /\ Greets(toClient)
    <3>1. Head(toClient) = Msg("R", "ok")
      BY <1>1, <2>1, RestGreets DEF HonestHere, StepInv, Skipped
    <3> QED
      BY <1>2, <3>1, MsgFields DEF AuthRefuses, Answered
  <2>2. CASE \E e \in ServerErrors : Refusal(e) /\ toClient = <<Msg("E", e)>>
    BY <1>1, <2>2, OneMessage, MsgFields
  <2> QED
    BY <1>1, <2>1, <2>2, StartupHead
<1>4. Head(toClient).val = Server.auth
  BY <1>3, OneMessage, MsgFields
<1>5. \/ Server.auth \notin Answered \cup {"ok", "gss", "gssContinue"}
      \/ Server.auth = "gss" /\ ~settings.krb
  BY <1>2, <1>4 DEF AuthRefuses
<1>6. ~LogsIn(Server)
  BY <1>5 DEF LogsIn, Answered
<1>7. Refusal("auth")
  BY <1>6 DEF Refusal, Accepts, EndsSearch, Server
<1> QED
  BY <1>1, <1>7, LeftBehind DEF HonestHere

LEMMA HonestAccepted ==
    ASSUME HonestHere, AuthAccepted
    PROVE  AttemptInv' /\ OutcomeInv'
<1>1. /\ GoesOnTrying /\ Past /\ UNCHANGED <<tls, link, toServer>>
      /\ pc = "authAnswer" /\ pc' = "startup"
      /\ Arrived /\ toClient' = Tail(toClient) /\ Head(toClient) = Msg("R", "ok")
  BY DEF AuthAccepted, Reads, GoesOnTrying, Past
<1>2. LetsIn /\ Greets(toClient) /\ toServer = <<>>
  <2>1. toClient # <<Msg("E", "28P01")>>
    BY <1>1, OneMessage, MsgEqual
  <2> QED
    BY <1>1, <2>1 DEF HonestHere, AttemptInv, InAuthAnswer, Arrived
<1>3. Head(toClient).type # "Z"
  BY <1>1, MsgFields
<1>4. Greets(toClient')
  BY <1>1, <1>2, <1>3, RestGreets DEF HonestHere, StepInv
<1>5. /\ OutcomeInv' /\ link' = "up" /\ Server'.listens /\ (tls' => Server'.tls)
      /\ LetsIn' <=> LetsIn
  BY <1>1, PeerStays
<1>6. InStartup'
  BY <1>1, <1>2, <1>4, <1>5 DEF InStartup, Greets
<1> QED
  BY <1>1, <1>5, <1>6 DEF AttemptInv

LEMMA HonestStartupFails ==
    ASSUME HonestHere, StartupFails
    PROVE  AttemptInv' /\ OutcomeInv'
<1>1. pc \in {"startup", "authAnswer"} /\ link = "up"
  BY DEF StartupFails, HonestHere, AttemptInv
<1>2. Arrived /\ Head(toClient).type = "E" /\ Fails(Head(toClient).val)
  BY <1>1 DEF StartupFails, Broken, Panics
<1>3. ~Greets(toClient)
  <2> SUFFICES ASSUME Greets(toClient) PROVE FALSE
    OBVIOUS
  <2>1. Head(toClient).type \in Skipped \cup {"Z"} \/ Head(toClient) = Msg("R", "ok")
    BY RestGreets DEF HonestHere, StepInv
  <2> QED
    BY <1>2, <2>1, MsgFields DEF Skipped
<1>4. Refusal(Head(toClient).val)
  <2>1. CASE pc = "startup"
    <3>1. toClient # <<Msg("R", Server.auth)>>
      BY <1>2, OneMessage, MsgFields
    <3>2. PICK e \in ServerErrors : Refusal(e) /\ toClient = <<Msg("E", e)>>
      BY <1>2, <1>3, <2>1, <3>1, StartupHead
    <3>3. Head(toClient).val = e
      BY <3>2, OneMessage, MsgFields
    <3> QED
      BY <3>2, <3>3
  <2>2. CASE pc = "authAnswer"
    <3>1. ~LogsIn(Server) /\ toClient = <<Msg("E", "28P01")>> /\ Server.auth \in Answered
      BY <1>2, <1>3, <2>2 DEF HonestHere, AttemptInv, InAuthAnswer, Arrived
    <3>2. Head(toClient).val = "28P01"
      BY <3>1, OneMessage, MsgFields
    <3>3. Server.auth # "ok" /\ Server.refuses = "no"
      BY <2>2, <3>1 DEF Answered, HonestHere, AttemptInv, InAuthAnswer, Admits
    <3>4. IsFinal(targets[i])
      BY <2>2, <3>1, <3>3, FinalHere DEF Past
    <3> QED
      BY <3>1, <3>2, <3>4 DEF Refusal, Accepts, Server
  <2> QED
    BY <1>1, <2>1, <2>2
<1>5. pc \notin {"lookup", "failed"}
  BY <1>1
<1> QED
  BY <1>2, <1>4, <1>5, LeftBehind DEF HonestHere


\* A session, and the role that is asked for: the target accepts.
LEMMA AcceptedHere ==
    ASSUME HonestHere, Past, LetsIn, pc # "connected",
           Validates => Server.queries = "ok" /\ Suits(Server)
    PROVE  Accepts(targets[i])
<1>1. Server.listens /\ (tls => Server.tls)
  BY DEF HonestHere, AttemptInv, Past
<1>2. (tls <=> targets[i].tls # "no") /\ (tls => PeerOk(targets[i].tls, Server))
  BY DEF HonestHere, GuardInv
<1> QED
  BY <1>1, <1>2 DEF Accepts, LetsIn, Admits, Server

\* Connect returns: the connection is to the first target that accepts.
LEMMA Returned ==
    ASSUME HonestHere, Past, pc # "connected", Accepts(targets[i]), pc' = "connected",
           UNCHANGED <<settings, world, targets, i, tls>>
    PROVE  AttemptInv' /\ OutcomeInv'
<1>1. \A t : Accepts(t)' <=> Accepts(t)
  BY SameServers
<1>2. (Accepts(targets[i]))' /\ (\A j \in 1..(i - 1) : ~Accepts(targets[j]))'
  BY <1>1 DEF HonestHere, OutcomeInv, Past
<1>3. tls' => Server'.tls
  BY SameServer DEF HonestHere, AttemptInv
<1> QED
  BY <1>2, <1>3 DEF OutcomeInv, AttemptInv

LEMMA HonestReady ==
    ASSUME HonestHere, Ready
    PROVE  AttemptInv' /\ OutcomeInv'
<1>1. pc = "startup" /\ Past /\ Arrived /\ Head(toClient).type = "Z"
      /\ UNCHANGED <<settings, world, targets, i, tls>>
  BY DEF Ready, Past
<1>2. LetsIn
  <2>1. CASE Admits /\ Server.auth # "ok" /\ toClient = <<Msg("R", Server.auth)>>
    BY <1>1, <2>1, OneMessage, MsgFields
  <2>2. CASE \E e \in ServerErrors : Refusal(e) /\ toClient = <<Msg("E", e)>>
    BY <1>1, <2>2, OneMessage, MsgFields
  <2> QED
    BY <1>1, <2>1, <2>2, StartupHead
<1>3. CASE Validates
  <2>1. pc' = "query" /\ toServer' = <<Msg("query", "-")>> /\ UNCHANGED link /\ GoesOnTrying
    BY <1>1, <1>3 DEF Ready, Sends, GoesOnTrying
  <2>2. toClient' = <<>>
    BY <1>1, <1>3, RestIsAnswer DEF Ready, Sends, HonestHere, StepInv, Arrived
  <2>3. /\ OutcomeInv' /\ link' = "up" /\ Server'.listens /\ (tls' => Server'.tls)
        /\ LetsIn' <=> LetsIn
    BY <1>1, <2>1, PeerStays
  <2>4. Validates'
    BY <1>1, <1>3, SameServer
  <2>5. InQuery'
    BY <1>2, <2>1, <2>2, <2>3, <2>4 DEF InQuery
  <2> QED
    BY <2>1, <2>3, <2>5 DEF AttemptInv
<1>4. CASE ~Validates
  <2>1. pc' = "connected"
    BY <1>4 DEF Ready
  <2>2. Accepts(targets[i])
    BY <1>1, <1>2, <1>4, AcceptedHere
  <2> QED
    BY <1>1, <2>1, <2>2, Returned
<1> QED
  BY <1>3, <1>4

LEMMA SomeMessages ==
    ASSUME NEW a, NEW b, NEW c, NEW d
    PROVE  /\ Head(<<a, b>>) = a
           /\ Head(<<a, b, c>>) = a /\ Tail(<<a, b, c>>) = <<b, c>>
           /\ Head(<<a, b, c, d>>) = a /\ Tail(<<a, b, c, d>>) = <<b, c, d>>
OBVIOUS

\* An error after the header.
LEMMA HonestRowError ==
    ASSUME HonestHere, Query, pc = "row"
    PROVE  AttemptInv' /\ OutcomeInv'
<1>1. /\ GoesOnTrying /\ Past /\ UNCHANGED <<settings, world, targets, i, tls, link>>
      /\ pc' = "noRows" /\ Head(toClient).type = "E"
  BY DEF Query, Reads, GoesOnTrying, Past
<1>2. /\ OutcomeInv' /\ Server' = Server /\ link' = "up" /\ Server'.listens
      /\ (tls' => Server'.tls)
      /\ LetsIn' <=> LetsIn
  BY <1>1, PeerStays
<1>3. Validates' <=> Validates
  BY <1>1, SameServer
<1>4. LetsIn /\ Validates /\ InRow
  BY DEF HonestHere, AttemptInv, InRow
<1>5. toClient # <<RoleRow, Msg("C", "-"), Msg("Z", "-")>>
  BY <1>1, SomeMessages, MsgFields DEF RoleRow
<1>6. InNoRows'
  BY <1>2, <1>3, <1>4, <1>5 DEF InRow, InNoRows
<1> QED
  BY <1>1, <1>2, <1>6 DEF AttemptInv

LEMMA HonestQuery ==
    ASSUME HonestHere, Query, pc = "query"
    PROVE  AttemptInv' /\ OutcomeInv'
<1>1. /\ GoesOnTrying /\ Past /\ UNCHANGED <<settings, world, targets, i, tls, link, toServer>>
      /\ pc = "query" /\ Arrived /\ toClient' = Tail(toClient)
  BY DEF Query, Reads, GoesOnTrying, Past
<1>2. /\ OutcomeInv' /\ Server' = Server /\ link' = "up" /\ Server'.listens
      /\ (tls' => Server'.tls)
      /\ LetsIn' <=> LetsIn
  BY <1>1, PeerStays
<1>3. RoleRow' = RoleRow /\ (Validates' <=> Validates)
  BY <1>1, SameServer
<1>4. LetsIn /\ Validates /\ InQuery
  BY <1>1 DEF HonestHere, AttemptInv, InQuery
<1>5. CASE toClient = <<Msg("T", "-"), RoleRow, Msg("C", "-"), Msg("Z", "-")>>
  <2>1. Head(toClient).type = "T" /\ toClient' = <<RoleRow, Msg("C", "-"), Msg("Z", "-")>>
    BY <1>1, <1>5, SomeMessages, MsgFields
  <2>2. Server.queries = "ok"
    <3>1. Head(toClient) # Msg("E", "57014")
      BY <2>1, MsgFields
    <3>2. toClient # <<Msg("E", "57014"), Msg("Z", "-")>>
      BY <3>1, SomeMessages
    <3>3. toClient # <<Msg("T", "-"), Msg("E", "57014"), Msg("Z", "-")>>
      BY <1>5
    <3> QED
      BY <1>1, <1>4, <3>2, <3>3 DEF InQuery, Arrived
  <2>3. pc' = "row"
    BY <2>1 DEF Query
  <2>4. InRow'
    BY <1>2, <1>3, <1>4, <2>1, <2>2 DEF InRow
  <2> QED
    BY <1>2, <2>3, <2>4 DEF AttemptInv
<1>6. CASE Server.queries = "fails" /\ toClient = <<Msg("E", "57014"), Msg("Z", "-")>>
  <2>1. Head(toClient).type = "E"
    BY <1>6, SomeMessages, MsgFields
  <2>2. pc' = "noRows"
    BY <2>1 DEF Query
  <2> QED
    BY <1>2, <1>3, <1>4, <1>6, <2>2 DEF AttemptInv, InNoRows
<1>7. CASE /\ Server.queries = "breaksOff"
           /\ toClient = <<Msg("T", "-"), Msg("E", "57014"), Msg("Z", "-")>>
  <2>1. Head(toClient).type = "T" /\ toClient' = <<Msg("E", "57014"), Msg("Z", "-")>>
    BY <1>1, <1>7, SomeMessages, MsgFields
  <2>2. pc' = "row"
    BY <2>1 DEF Query
  <2>3. InRow'
    BY <1>2, <1>3, <1>4, <1>7, <2>1 DEF InRow
  <2> QED
    BY <1>2, <2>2, <2>3 DEF AttemptInv
<1> QED
  BY <1>1, <1>4, <1>5, <1>6, <1>7 DEF InQuery, Arrived

LEMMA HonestNilRows ==
    ASSUME HonestHere, NilRows
    PROVE  AttemptInv' /\ OutcomeInv'
<1>1. pc = "noRows"
  BY DEF NilRows, HonestHere, AttemptInv, SendFails, Broken
<1>2. Validates /\ Server.queries # "ok" /\ Server.refuses = "no"
  BY <1>1 DEF HonestHere, AttemptInv, InNoRows, LetsIn, Admits
<1>3. ~Accepts(targets[i]) /\ IsFinal(targets[i])
  BY <1>1, <1>2, FinalHere DEF Accepts, Server, Past
<1>4. pc' = "failed" /\ UNCHANGED <<settings, world, targets, i>>
  BY DEF NilRows, RuntimeError, Closed
<1>5. /\ \A t : Accepts(t)' <=> Accepts(t)
      /\ \A t : IsFinal(t)' <=> IsFinal(t)
  BY <1>4, SameServers
<1>6. i \in 1..Len(targets) /\ Len(targets) \in Nat
  BY <1>1, LenProperties DEF HonestHere, SearchInv
<1>7. ASSUME NEW k \in 1..Len(targets), Accepts(targets[k])
      PROVE  \E j \in 1..(k - 1) : IsFinal(targets[j])
  <2>1. k \notin 1..(i - 1) /\ k # i
    BY <1>1, <1>3, <1>7 DEF HonestHere, OutcomeInv
  <2>2. i \in 1..(k - 1)
    BY <1>6, <2>1
  <2> QED
    BY <1>3, <2>2
<1>8. (\A k \in 1..Len(targets) :
          Accepts(targets[k]) => \E j \in 1..(k - 1) : IsFinal(targets[j]))'
  BY <1>4, <1>5, <1>7
<1> QED
  BY <1>4, <1>8 DEF OutcomeInv, AttemptInv, Past

LEMMA HonestRow ==
    ASSUME HonestHere, Row
    PROVE  AttemptInv' /\ OutcomeInv'
<1>1. /\ GoesOnTrying /\ Past /\ UNCHANGED <<settings, world, targets, i, tls, link>>
      /\ pc = "row" /\ pc' = "drain"
  BY DEF Row, Drains, Reads, GoesOnTrying, Past
<1>2. /\ OutcomeInv' /\ Server' = Server /\ link' = "up" /\ Server'.listens
      /\ (tls' => Server'.tls)
      /\ LetsIn' <=> LetsIn
  BY <1>1, PeerStays
<1>3. Validates' <=> Validates
  BY <1>1, SameServer
<1>4. LetsIn /\ Validates /\ InRow
  BY <1>1 DEF HonestHere, AttemptInv, InRow
<1>5. suits' <=> Server.queries = "ok" /\ Suits(Server)
  <2>1. CASE Server.queries = "ok" /\ toClient = <<RoleRow, Msg("C", "-"), Msg("Z", "-")>>
    <3>1. Head(toClient) = RoleRow
      BY <2>1, SomeMessages
    <3>2. /\ Head(toClient).type = "D"
          /\ Head(toClient).val = [recovery |-> Server.recovery, readOnly |-> Server.readOnly]
      BY <3>1, MsgFields DEF RoleRow
    <3>3. suits' = Suits(Head(toClient).val)
      BY DEF Row
    <3>6. /\ Head(toClient).val.recovery = Server.recovery
          /\ Head(toClient).val.readOnly = Server.readOnly
      BY <3>2
    <3>7. settings.tsa \in {"read-write", "read-only", "primary", "standby"}
      BY <1>4, SettingsAssumption DEF Validates, SessionAttrs, SettingsType, HonestHere, SearchInv
    <3>4. Suits(Head(toClient).val) <=> Suits(Server)
      BY <3>6, <3>7 DEF Suits
    <3> QED
      BY <2>1, <3>3, <3>4
  <2>2. CASE Server.queries = "breaksOff" /\ toClient = <<Msg("E", "57014"), Msg("Z", "-")>>
    <3>1. Head(toClient).type = "E"
      BY <2>2, SomeMessages, MsgFields
    <3> QED
      BY <3>1 DEF Row
  <2> QED
    BY <1>4, <2>1, <2>2 DEF InRow
<1>6. (Suits(Server))' <=> Suits(Server)
  BY <1>1, <1>2 DEF Suits
<1>7. InDrain'
  BY <1>2, <1>3, <1>4, <1>5, <1>6 DEF InDrain
<1> QED
  BY <1>1, <1>2, <1>7 DEF AttemptInv

LEMMA HonestRowsClose ==
    ASSUME HonestHere, RowsClose
    PROVE  AttemptInv' /\ OutcomeInv'
<1>1. pc = "drain" /\ Past /\ InDrain
  BY DEF RowsClose, HonestHere, AttemptInv, Past
<1>2. CASE Head(toClient).type # "Z"
  <2>1. /\ GoesOnTrying /\ UNCHANGED <<settings, world, targets, i, pc, tls, suits, link>>
    BY <1>1, <1>2 DEF RowsClose, Reads, GoesOnTrying
  <2>2. /\ OutcomeInv' /\ Server' = Server /\ link' = "up" /\ Server'.listens
        /\ (tls' => Server'.tls)
        /\ LetsIn' <=> LetsIn
    BY <1>1, <2>1, PeerStays
  <2>3. (Validates' <=> Validates) /\ ((Suits(Server))' <=> Suits(Server))
    BY <2>1, <2>2 DEF Validates, Suits
  <2>4. InDrain'
    BY <1>1, <2>1, <2>2, <2>3 DEF InDrain
  <2> QED
    BY <1>1, <2>1, <2>2, <2>4 DEF AttemptInv
<1>3. CASE Head(toClient).type = "Z" /\ suits
  <2>1. Accepts(targets[i])
    BY <1>1, <1>3, AcceptedHere DEF InDrain
  <2>2. pc' = "connected" /\ UNCHANGED <<settings, world, targets, i, tls>>
    BY <1>3 DEF RowsClose
  <2> QED
    BY <1>1, <2>1, <2>2, Returned
<1>4. CASE Head(toClient).type = "Z" /\ ~suits
  <2>1. Fails("role")
    BY <1>4 DEF RowsClose, Panics
  <2>2. ~Accepts(targets[i])
    BY <1>1, <1>4 DEF InDrain, Accepts, Server
  <2>3. Refusal("role")
    BY <2>2 DEF Refusal, EndsSearch
  <2> QED
    BY <1>1, <2>1, <2>3, LeftBehind DEF HonestHere
<1> QED
  BY <1>2, <1>3, <1>4


\* What the server sends is all there is to read.
LEMMA SaysWhat ==
    ASSUME NEW msgs, Answer(msgs), Says(msgs), toClient = <<>>
    PROVE  toClient' = msgs /\ toServer' = <<>>
<1>1. PICK M : msgs \in Seq(M)
  BY DEF Answer, IsSeq
<1> QED
  BY <1>1 DEF Says

\* The server only acts where the client waits for it.
LEMMA ServerActsWhere ==
    ASSUME HonestHere, ServerActs
    PROVE  /\ UNCHANGED <<settings, dns, world, targets, i, pc, tls, gss, suits, link, losses>>
           /\ toClient = <<>> /\ pc \in {"sslAnswer", "startup", "authAnswer", "query"}
           /\ link = "up" /\ Server.listens
           /\ pc = "sslAnswer" => Head(toServer).type = "SSLRequest"
           /\ pc = "startup" => \/ toServer = <<Msg("startup", "-")>>
                                \/ /\ toServer = <<Msg("token", "-")>>
                                   /\ Admits /\ Server.auth = "gss" /\ settings.krb
           /\ pc = "authAnswer" =>
                  toServer = <<Msg("password", WellFormed(Server.auth) /\ settings.password)>>
           /\ pc = "query" => toServer = <<Msg("query", "-")>>
<1>1. toServer # <<>>
  BY DEF ServerActs
<1>2. pc \in {"sslAnswer", "startup", "authAnswer", "query"} /\ toClient = <<>>
  BY <1>1 DEF HonestHere, StepInv, SearchInv, Places
<1>3. pc = "sslAnswer" => Head(toServer).type = "SSLRequest"
  BY <1>1 DEF HonestHere, StepInv
<1>4. pc = "startup" => \/ toServer = <<Msg("startup", "-")>>
                        \/ /\ toServer = <<Msg("token", "-")>>
                           /\ Admits /\ Server.auth = "gss" /\ settings.krb
  BY <1>1 DEF HonestHere, AttemptInv, InStartup
<1>5. /\ pc = "authAnswer" =>
             toServer = <<Msg("password", WellFormed(Server.auth) /\ settings.password)>>
      /\ pc = "query" => toServer = <<Msg("query", "-")>>
  BY <1>1 DEF HonestHere, AttemptInv, InAuthAnswer, InQuery
<1>6. link = "up" /\ Server.listens
  BY <1>2 DEF HonestHere, AttemptInv
<1> QED
  BY <1>2, <1>3, <1>4, <1>5, <1>6, ServerKeeps

LEMMA HonestSSL ==
    ASSUME HonestHere, ServerActs, ServerAnswersSSL
    PROVE  AttemptInv' /\ OutcomeInv'
<1>1. pc = "sslAnswer"
  <2>1. Head(toServer).type = "SSLRequest"
    BY DEF ServerAnswersSSL
  <2> QED
    BY <2>1, ServerActsWhere, OneMessage, MsgFields
<1>2. /\ UNCHANGED <<settings, world, targets, i, pc, tls, link>>
      /\ toClient = <<>> /\ link = "up" /\ Server.listens
  BY ServerActsWhere
<1> DEFINE msgs == <<Msg(IF Server.tls THEN "S" ELSE "N", "-")>>
<1>3. Says(msgs) /\ Answer(msgs)
  BY OneIsAnswer DEF ServerAnswersSSL
<1>4. toClient' = msgs
  BY <1>2, <1>3, SaysWhat
<1>5. Head(toClient').type = IF Server.tls THEN "S" ELSE "N"
  BY <1>4, OneMessage, MsgFields
<1>6. OutcomeInv'
  BY <1>1, <1>2, SameOutcome DEF HonestHere
<1>7. Server' = Server
  BY <1>2, SameServer
<1> QED
  BY <1>1, <1>2, <1>5, <1>6, <1>7 DEF AttemptInv, Past

\* What the server says past the handshake, where it leads.
LEMMA HonestSays ==
    ASSUME HonestHere, ServerActs, Past,
           pc = "startup" => InStartup', pc = "authAnswer" => InAuthAnswer',
           pc = "query" => InQuery'
    PROVE  AttemptInv' /\ OutcomeInv'
<1>1. /\ UNCHANGED <<settings, world, targets, i, pc, tls, link>>
      /\ pc \in {"startup", "authAnswer", "query"}
  BY ServerActsWhere DEF Past
<1>2. GoesOnTrying
  BY <1>1 DEF GoesOnTrying
<1>3. OutcomeInv' /\ link' = "up" /\ Server'.listens /\ (tls' => Server'.tls)
  BY <1>1, <1>2, PeerStays
<1> QED
  BY <1>1, <1>3 DEF AttemptInv

LEMMA ServerSame ==
    ASSUME HonestHere, ServerActs, Past
    PROVE  /\ Server' = Server /\ (Admits' <=> Admits) /\ (LetsIn' <=> LetsIn)
           /\ ((LogsIn(Server))' <=> LogsIn(Server))
           /\ Answered' = Answered /\ RoleRow' = RoleRow /\ (Validates' <=> Validates)
           /\ \A e : Refusal(e)' <=> Refusal(e)
<1>1. /\ UNCHANGED <<settings, world, targets, i, pc, tls, link>>
      /\ pc \in {"startup", "authAnswer", "query"}
  BY ServerActsWhere DEF Past
<1>2. GoesOnTrying
  BY <1>1 DEF GoesOnTrying
<1> QED
  BY <1>1, <1>2, PeerStays, SameServer

LEMMA HonestStartsUp ==
    ASSUME HonestHere, ServerActs, ServerStartsUp
    PROVE  AttemptInv' /\ OutcomeInv'
<1>1. pc = "startup" /\ Past
  <2>1. Head(toServer).type = "startup"
    BY DEF ServerStartsUp
  <2> QED
    BY <2>1, ServerActsWhere, OneMessage, MsgFields DEF Past
<1>2. toClient = <<>> /\ Server.listens
  BY ServerActsWhere
<1>3. (tls <=> targets[i].tls # "no")
  BY <1>1 DEF HonestHere, GuardInv
<1>4. CASE Server.refuses # "no"
  <2>1. Says(<<Msg("E", Server.refuses)>>)
    BY <1>4 DEF ServerStartsUp
  <2>2. toServer' = <<>> /\ toClient' = <<Msg("E", Server.refuses)>>
    BY <1>2, <2>1, SaysWhat, OneIsAnswer
  <2>3. Server.refuses \in {"53300", "28000"}
    BY <1>1, <1>4, TypedServer DEF HonestHere, ServerType
  <2>4. Refusal(Server.refuses)
    BY <1>1, <1>4, <2>3, FinalHere DEF Refusal, Accepts, EndsSearch, Server
  <2>5. \E e \in ServerErrors : Refusal(e)' /\ toClient' = <<Msg("E", e)>>
    BY <1>1, <2>2, <2>3, <2>4, ServerSame DEF ServerErrors
  <2>6. InStartup'
    BY <2>2, <2>5 DEF InStartup
  <2> QED
    BY <1>1, <2>6, HonestSays
<1>5. CASE Server.refuses = "no" /\ ~tls /\ ~Server.clear
  <2>1. Says(<<Msg("E", "28000")>>)
    BY <1>5 DEF ServerStartsUp
  <2>2. toServer' = <<>> /\ toClient' = <<Msg("E", "28000")>>
    BY <1>2, <2>1, SaysWhat, OneIsAnswer
  <2>3. Refusal("28000")
    BY <1>1, <1>3, <1>5, FinalHere DEF Refusal, Accepts, Server
  <2>4. \E e \in ServerErrors : Refusal(e)' /\ toClient' = <<Msg("E", e)>>
    BY <1>1, <2>2, <2>3, ServerSame DEF ServerErrors
  <2>5. InStartup'
    BY <2>2, <2>4 DEF InStartup
  <2> QED
    BY <1>1, <2>5, HonestSays
<1>6. CASE Admits /\ Server.auth = "ok"
  <2>1. Says(Burst)
    BY <1>6 DEF ServerStartsUp, Admits
  <2>2. toServer' = <<>> /\ toClient' = Burst
    BY <1>2, <2>1, SaysWhat, BurstIsAnswer
  <2>3. LetsIn
    BY <1>6 DEF LetsIn, LogsIn
  <2>4. InStartup'
    BY <1>1, <2>2, <2>3, ServerSame, BurstGreets DEF InStartup
  <2> QED
    BY <1>1, <2>4, HonestSays
<1>7. CASE Admits /\ Server.auth # "ok"
  <2>1. Says(<<Msg("R", Server.auth)>>)
    BY <1>7 DEF ServerStartsUp, Admits
  <2>2. toServer' = <<>> /\ toClient' = <<Msg("R", Server.auth)>>
    BY <1>2, <2>1, SaysWhat, OneIsAnswer
  <2>3. InStartup'
    BY <1>1, <1>7, <2>2, ServerSame DEF InStartup
  <2> QED
    BY <1>1, <2>3, HonestSays
<1> QED
  BY <1>4, <1>5, <1>6, <1>7 DEF Admits

LEMMA HonestAuthenticates ==
    ASSUME HonestHere, ServerActs, ServerAuthenticates, Quiet'
    PROVE  AttemptInv' /\ OutcomeInv'
<1>1. toClient = <<>> /\ Server.listens
  BY ServerActsWhere
<1>2. CASE Head(toServer).type = "password"
  <2>1. pc = "authAnswer" /\ Past
    BY <1>2, ServerActsWhere, OneMessage, MsgFields DEF Past
  <2>2. Head(toServer).val <=> WellFormed(Server.auth) /\ settings.password
    <3>1. Head(toServer) = Msg("password", WellFormed(Server.auth) /\ settings.password)
      BY <2>1, ServerActsWhere, OneMessage
    <3>2. Head(toServer).val = (WellFormed(Server.auth) /\ settings.password)
      BY <3>1 DEF Msg
    <3> QED
      BY <3>2
  <2>3. Admits /\ Server.auth \in Answered
    BY <2>1 DEF HonestHere, AttemptInv, InAuthAnswer
  <2>4. Head(toServer).val /\ Server.knows <=> LogsIn(Server)
    <3>1. Server.auth # "ok" /\ Server.auth # "gss"
      BY <2>3 DEF Answered
    <3> QED
      BY <2>2, <3>1 DEF LogsIn, WellFormed
  <2>5. CASE LogsIn(Server)
    <3>1. Says(Burst)
      BY <1>2, <2>4, <2>5 DEF ServerAuthenticates
    <3>2. toServer' = <<>> /\ toClient' = Burst
      BY <1>1, <3>1, SaysWhat, BurstIsAnswer
    <3>3. InAuthAnswer'
      BY <2>1, <2>3, <2>5, <3>2, ServerSame, BurstGreets DEF InAuthAnswer, LetsIn
    <3> QED
      BY <2>1, <3>3, HonestSays
  <2>6. CASE ~LogsIn(Server)
    <3>1. Says(<<Msg("E", "28P01")>>)
      BY <1>2, <2>4, <2>6 DEF ServerAuthenticates
    <3>2. toServer' = <<>> /\ toClient' = <<Msg("E", "28P01")>>
      BY <1>1, <3>1, SaysWhat, OneIsAnswer
    <3>3. InAuthAnswer'
      BY <2>1, <2>3, <2>6, <3>2, ServerSame DEF InAuthAnswer
    <3> QED
      BY <2>1, <3>3, HonestSays
  <2> QED
    BY <2>5, <2>6
<1>3. CASE Head(toServer).type = "token"
  <2>1. pc = "startup" /\ Past /\ Admits /\ Server.auth = "gss" /\ settings.krb
    BY <1>3, ServerActsWhere, OneMessage, MsgFields DEF Past
  <2>2. IF Server.knows THEN Says(Burst) ELSE Says(<<Msg("E", "28000")>>)
    <3>1. tokens' = 0
      BY DEF Quiet
    <3>2. ~(tokens' = tokens + 1)
      BY <3>1 DEF HonestHere, SearchInv
    <3> QED
      BY <1>3, <3>2 DEF ServerAuthenticates
  <2>3. LogsIn(Server) <=> Server.knows
    BY <2>1 DEF LogsIn
  <2>4. CASE Server.knows
    <3>1. toServer' = <<>> /\ toClient' = Burst
      BY <1>1, <2>2, <2>4, SaysWhat, BurstIsAnswer
    <3>2. InStartup'
      BY <2>1, <2>3, <2>4, <3>1, ServerSame, BurstGreets DEF InStartup, LetsIn
    <3> QED
      BY <2>1, <3>2, HonestSays
  <2>5. CASE ~Server.knows
    <3>1. toServer' = <<>> /\ toClient' = <<Msg("E", "28000")>>
      BY <1>1, <2>2, <2>5, SaysWhat, OneIsAnswer
    <3>2. Refusal("28000")
      <4>1. ~LogsIn(Server) /\ Server.auth # "ok" /\ Server.refuses = "no"
        BY <2>1, <2>3, <2>5 DEF Admits
      <4> QED
        BY <2>1, <4>1, FinalHere DEF Refusal, Accepts, Server
    <3>3. \E e \in ServerErrors : Refusal(e)' /\ toClient' = <<Msg("E", e)>>
      BY <2>1, <3>1, <3>2, ServerSame DEF ServerErrors
    <3>4. InStartup'
      BY <3>1, <3>3 DEF InStartup
    <3> QED
      BY <2>1, <3>4, HonestSays
  <2> QED
    BY <2>4, <2>5
<1> QED
  BY <1>2, <1>3 DEF ServerAuthenticates

LEMMA HonestShowsRole ==
    ASSUME HonestHere, ServerActs, ServerShowsRole
    PROVE  AttemptInv' /\ OutcomeInv'
<1>1. pc = "query" /\ Past
  <2>1. Head(toServer).type = "query"
    BY DEF ServerShowsRole
  <2> QED
    BY <2>1, ServerActsWhere, OneMessage, MsgFields DEF Past
<1>2. toClient = <<>> /\ LetsIn /\ Validates
  BY <1>1, ServerActsWhere DEF HonestHere, AttemptInv, InQuery
<1>3. Server' = Server /\ LetsIn' /\ Validates' /\ RoleRow' = RoleRow
  BY <1>1, <1>2, ServerSame
<1>4. RoleRow.type = "D"
  BY MsgFields DEF RoleRow
<1>5. CASE Server.queries = "ok"
  <2>1. Says(<<Msg("T", "-"), RoleRow, Msg("C", "-"), Msg("Z", "-")>>)
    BY <1>5 DEF ServerShowsRole, RoleRow
  <2>2. /\ toServer' = <<>>
        /\ toClient' = <<Msg("T", "-"), RoleRow, Msg("C", "-"), Msg("Z", "-")>>
    BY <1>2, <1>4, <2>1, SaysWhat, RoleIsAnswer
  <2>3. InQuery'
    BY <1>3, <1>5, <2>2 DEF InQuery
  <2> QED
    BY <1>1, <2>3, HonestSays
<1>6. CASE Server.queries = "fails"
  <2>1. Says(<<Msg("E", "57014"), Msg("Z", "-")>>)
    BY <1>6 DEF ServerShowsRole
  <2>2. toServer' = <<>> /\ toClient' = <<Msg("E", "57014"), Msg("Z", "-")>>
    BY <1>2, <1>4, <2>1, SaysWhat, RoleIsAnswer
  <2>3. InQuery'
    BY <1>3, <1>6, <2>2 DEF InQuery
  <2> QED
    BY <1>1, <2>3, HonestSays
<1>7. CASE Server.queries = "breaksOff"
  <2>1. Says(<<Msg("T", "-"), Msg("E", "57014"), Msg("Z", "-")>>)
    BY <1>7 DEF ServerShowsRole
  <2>2. toServer' = <<>> /\ toClient' = <<Msg("T", "-"), Msg("E", "57014"), Msg("Z", "-")>>
    BY <1>2, <1>4, <2>1, SaysWhat, RoleIsAnswer
  <2>3. InQuery'
    BY <1>3, <1>7, <2>2 DEF InQuery
  <2> QED
    BY <1>1, <2>3, HonestSays
<1>8. Server.queries \in {"ok", "fails", "breaksOff"}
  BY <1>1, TypedServer DEF HonestHere, ServerType
<1> QED
  BY <1>5, <1>6, <1>7, <1>8

LEMMA HonestStep ==
    ASSUME SearchInv, StepInv, GuardInv, HonestInv, [Next]_vars
    PROVE  HonestInv'
<1> SUFFICES ASSUME Quiet' PROVE AttemptInv' /\ OutcomeInv'
  BY DEF HonestInv
<1>0. Quiet /\ HonestHere
  BY CountersStep DEF Quiet, HonestHere, HonestInv, SearchInv
<1>1. CASE Lookup
  <2>1. pc' \in {"dial", "failed"} /\ (pc' = "dial" => i' = 1) /\ (pc' = "failed" => targets' = <<>>)
    BY <1>1 DEF Lookup, SearchInv
  <2>2. /\ pc' = "dial" => (\A j \in 1..(i - 1) : ~Accepts(targets[j]))'
        /\ pc' = "failed" => (\A k \in 1..Len(targets) :
               Accepts(targets[k]) => \E j \in 1..(k - 1) : IsFinal(targets[j]))'
    BY <2>1
  <2> QED
    BY <2>1, <2>2 DEF AttemptInv, OutcomeInv, Past
<1>2. CASE DialFails
  <2>1. Refusal("dial")
    BY <1>2 DEF DialFails, Refusal, Accepts, EndsSearch, Server
  <2> QED
    BY <1>0, <1>2, <2>1, LeftBehind DEF DialFails, HonestHere
<1>3. CASE Dial
  BY <1>0, <1>3, HonestDial
<1>4. CASE StartTLS
  BY <1>0, <1>4, HonestStartTLS
<1>5. CASE StartTLSFails
  BY <1>0, <1>5, HonestTLSFails
<1>6. CASE Hello
  BY <1>0, <1>6, HonestHello
<1>7. CASE HelloFails
  BY <1>0, <1>7, HonestHelloFails
<1>8. CASE StartupSkips
  BY <1>0, <1>8, HonestSkips
<1>9. CASE AuthAnswers
  BY <1>0, <1>9, HonestAnswers
<1>10. CASE AuthGss
  BY <1>0, <1>10, HonestGss
<1>11. CASE AuthRefuses
  BY <1>0, <1>11, HonestRefuses
<1>12. CASE AuthAccepted
  BY <1>0, <1>12, HonestAccepted
<1>13. CASE StartupFails
  BY <1>0, <1>13, HonestStartupFails
<1>14. CASE Ready
  BY <1>0, <1>14, HonestReady
<1>15. CASE Query
  BY <1>0, <1>15, HonestQuery, HonestRowError DEF Query
<1>16. CASE NilRows
  BY <1>0, <1>16, HonestNilRows
<1>17. CASE Row
  BY <1>0, <1>17, HonestRow
<1>18. CASE RowFails \/ RowsCloseFails
  BY <1>0, <1>18 DEF RowFails, RowsCloseFails, Broken, HonestHere, AttemptInv
<1>19. CASE RowsClose
  BY <1>0, <1>19, HonestRowsClose
<1>20. CASE ServerActs
  BY <1>0, <1>20, HonestSSL, HonestStartsUp, HonestAuthenticates, HonestShowsRole DEF ServerActs
<1>21. CASE ServerGivesUp
  BY <1>0, <1>21 DEF ServerGivesUp, HonestHere, AttemptInv, InStartup, Greets
<1>22. CASE ConnBreaks
  BY <1>22 DEF ConnBreaks, Quiet, SearchInv
<1>23. CASE UNCHANGED vars
  <2>1. UNCHANGED <<settings, world, targets, i, pc, tls, suits, link, toServer, toClient>>
    BY <1>23 DEF vars
  <2>2. /\ \A t : Accepts(t)' <=> Accepts(t)
        /\ \A t : IsFinal(t)' <=> IsFinal(t)
    BY <2>1, SameServers
  <2>3. OutcomeInv'
    BY <1>0, <2>1, <2>2 DEF HonestHere, OutcomeInv
  <2>4. /\ Server' = Server /\ ((LogsIn(Server))' <=> LogsIn(Server))
        /\ (Validates' <=> Validates) /\ Answered' = Answered /\ RoleRow' = RoleRow
        /\ \A e : Refusal(e)' <=> Refusal(e)
    BY <2>1, SameServer
  <2>5. (Admits' <=> Admits) /\ (LetsIn' <=> LetsIn) /\ ((Suits(Server))' <=> Suits(Server))
    BY <2>1, <2>4 DEF Admits, LetsIn, Suits
  <2>6. InStartup' <=> InStartup
    BY <2>1, <2>4, <2>5 DEF InStartup, Greets
  <2>7. (InAuthAnswer' <=> InAuthAnswer) /\ (InQuery' <=> InQuery)
    BY <2>1, <2>4, <2>5 DEF InAuthAnswer, InQuery, Greets, WellFormed
  <2>8. (InRow' <=> InRow) /\ (InNoRows' <=> InNoRows) /\ (InDrain' <=> InDrain)
    BY <2>1, <2>4, <2>5 DEF InRow, InNoRows, InDrain
  <2> QED
    BY <1>0, <2>1, <2>3, <2>4, <2>6, <2>7, <2>8 DEF HonestHere, AttemptInv, Past, Arrived
<1> QED
  BY <1>1, <1>2, <1>3, <1>4, <1>5, <1>6, <1>7, <1>8, <1>9, <1>10, <1>11, <1>12, <1>13,
     <1>14, <1>15, <1>16, <1>17, <1>18, <1>19, <1>20, <1>21, <1>22, <1>23
     DEF Next, Continues, ServerSteps

\* As long as no link breaks, the search ends at the first target that accepts, or, when
\* it ends without a connection, no target accepts that comes before a final refusal:
\* for every list of hosts, with any addresses, and all the servers there can be.
THEOREM FirstAcceptableIsFound == Spec => []FirstAcceptable
<1>1. Init => SearchInv /\ StepInv /\ GuardInv /\ HonestInv
  BY SearchInit, NothingIsAnswer DEF Init, StepInv, GuardInv, HonestInv, AttemptInv, OutcomeInv, Past
<1>2. /\ SearchInv /\ StepInv /\ GuardInv /\ HonestInv /\ [Next]_vars
      => (SearchInv /\ StepInv /\ GuardInv /\ HonestInv)'
  BY SearchStep, StepStep, GuardStep, HonestStep
<1>3. SearchInv /\ HonestInv => FirstAcceptable
  <2> SUFFICES ASSUME SearchInv, Finished, targets # <<>>, losses = 0, tokens = 0, OutcomeInv
               PROVE  IF pc = "connected"
                      THEN Accepts(targets[i]) /\ \A j \in 1..(i - 1) : ~Accepts(targets[j])
                      ELSE \A k \in DOMAIN targets :
                               Accepts(targets[k]) => \E j \in 1..(k - 1) : IsFinal(targets[j])
    BY DEF FirstAcceptable, HonestInv, Quiet
  <2>1. DOMAIN targets = 1..Len(targets)
    BY DEF SearchInv
  <2> QED
    BY <2>1 DEF OutcomeInv, Finished
<1> QED
  BY <1>1, <1>2, <1>3, PTL DEF Spec

================================================================================
