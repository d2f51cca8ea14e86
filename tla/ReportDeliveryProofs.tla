------------------------ MODULE ReportDeliveryProofs ------------------------
(***************************************************************************)
(* Proofs about ReportDelivery, for any number of requests, recipients,    *)
(* reports and faults.                                                     *)
(***************************************************************************)
EXTENDS ReportDelivery, SequenceTheorems, TLAPS

(* The row a request is working for is a row of the table. *)
LEMMA KeyType ==
  ASSUME TypeOK, NEW q \in Request, pc[q] \notin {"idle", "select"}
  PROVE  KeyOf(q) \in Key /\ RowOf(q) \in LogId
<1>1. next[q] \in 1 .. Len(list[q])
  BY DEF TypeOK
<1>2. list[q][next[q]] \in Contact
  BY <1>1, ElementOfSeq DEF TypeOK
<1>3. report[q] \in Report /\ claim[q] \in Attempt
  BY DEF TypeOK
<1> QED
  BY <1>2, <1>3 DEF KeyOf, RowOf, Key, LogId

LEMMA TypeInit == Init => TypeOK
<1> SUFFICES ASSUME Init PROVE TypeOK
  OBVIOUS
<1>1. 1 \in Attempt /\ 0 \in 0 .. MaxFaults
  BY ConstantsAssumption DEF Attempt
<1>2. <<>> \in Seq(Contact)
  OBVIOUS
<1> QED
  BY <1>1, <1>2 DEF Init, TypeOK

(* A request that leaves keeps every local variable in its type. *)
LEMMA LeaveType ==
  ASSUME TypeOK, NEW q \in Request,
         NEW o \in {"aborted", "delivered", "partial", "failed", "nothing_to_send"},
         Leave(q, o), UNCHANGED <<status, aged, smtp, expired>>,
         faults' \in 0 .. MaxFaults
  PROVE  TypeOK'
<1>1. 1 \in Attempt
  BY ConstantsAssumption DEF Attempt
<1>2. <<>> \in Seq(Contact)
  OBVIOUS
<1>3. \A p \in Request : pc'[p] \notin {"idle", "select"} => next'[p] <= Len(list'[p])
  BY DEF Leave, TypeOK
<1> QED
  BY <1>1, <1>2, <1>3 DEF Leave, TypeOK

(* So does one that goes on to its next recipient. *)
LEMMA NextRecipientType ==
  ASSUME TypeOK, NEW q \in Request, NEW result \in {"sent", "failed", "skipped"},
         NextRecipient(q, result),
         status' \in [LogId -> {"absent", "PENDING", "SENT", "FAILED"}],
         UNCHANGED <<aged, smtp, expired, report, list, stale, claim, answer, faults>>
  PROVE  TypeOK'
<1>1. \A p \in Request : pc'[p] \notin {"idle", "select"} => next'[p] <= Len(list'[p])
  BY DEF NextRecipient, TypeOK
<1>2. results' \in [Request -> SUBSET {"sent", "failed", "skipped"}]
  BY DEF NextRecipient, TypeOK
<1> QED
  BY <1>1, <1>2 DEF NextRecipient, TypeOK

LEMMA ChargeType ==
  ASSUME TypeOK, NEW f, Charge(f)
  PROVE  faults' \in 0 .. MaxFaults
  BY ConstantsAssumption DEF TypeOK, Charge

LEMMA TypeStep == TypeOK /\ [Next]_vars => TypeOK'
<1> SUFFICES ASSUME TypeOK, [Next]_vars PROVE TypeOK'
  OBVIOUS
<1>1. ASSUME NEW q \in Request, NEW r \in Report, Start(q, r)
      PROVE  TypeOK'
  <2>1. PICK rs \in RecipientLists : list' = [list EXCEPT ![q] = rs]
    BY <1>1 DEF Start
  <2>2. rs \in Seq(Contact)
    BY ConstantsAssumption
  <2>3. \A p \in Request : pc'[p] \notin {"idle", "select"} => next'[p] <= Len(list'[p])
    BY <1>1, <2>1 DEF Start, TypeOK
  <2> QED
    BY <1>1, <2>1, <2>2, <2>3 DEF Start, TypeOK
<1>2. ASSUME NEW q \in Request, Decline(q)
      PROVE  TypeOK'
  BY <1>2 DEF Decline, TypeOK
<1>3. ASSUME NEW q \in Request, SelectStale(q)
      PROVE  TypeOK'
  BY <1>3 DEF SelectStale, TypeOK
<1>4. ASSUME NEW q \in Request, ExpireStale(q)
      PROVE  TypeOK'
  BY <1>4 DEF ExpireStale, TypeOK
<1>5. ASSUME NEW q \in Request, InsertClaim(q)
      PROVE  TypeOK'
  <2>1. KeyOf(q) \in Key
    BY <1>5, KeyType DEF InsertClaim
  <2>2. PICK n \in Attempt :
          /\ status' = [status EXCEPT ![<<KeyOf(q), n>>] = "PENDING"]
          /\ claim'  = [claim EXCEPT ![q] = n]
    BY <1>5 DEF InsertClaim
  <2>3. <<KeyOf(q), n>> \in LogId
    BY <2>1 DEF LogId
  <2>4. status' \in [LogId -> {"absent", "PENDING", "SENT", "FAILED"}]
    BY <2>2, <2>3 DEF TypeOK
  <2>5. claim' \in [Request -> Attempt]
    BY <2>2 DEF TypeOK
  <2> QED
    BY <1>5, <2>4, <2>5 DEF InsertClaim, TypeOK
<1>6. ASSUME NEW q \in Request, SkipClaimed(q)
      PROVE  TypeOK'
  BY <1>6, NextRecipientType DEF SkipClaimed, TypeOK
<1>7. ASSUME NEW q \in Request, Send(q)
      PROVE  TypeOK'
  <2>1. faults' \in 0 .. MaxFaults
    BY <1>7, ChargeType DEF Send, TypeOK
  <2> QED
    BY <1>7, <2>1 DEF Send, TypeOK
<1>8. ASSUME NEW q \in Request, MarkSent(q)
      PROVE  TypeOK'
  <2>1. status' \in [LogId -> {"absent", "PENDING", "SENT", "FAILED"}]
    BY <1>8 DEF MarkSent, TypeOK
  <2> QED
    BY <1>8, <2>1, NextRecipientType DEF MarkSent
<1>9. ASSUME NEW q \in Request, MarkFailed(q)
      PROVE  TypeOK'
  <2>1. status' \in [LogId -> {"absent", "PENDING", "SENT", "FAILED"}]
    BY <1>9 DEF MarkFailed, TypeOK
  <2> QED
    BY <1>9, <2>1, NextRecipientType DEF MarkFailed
<1>10. ASSUME NEW q \in Request, MarkConflict(q)
       PROVE  TypeOK'
  <2>1. faults' \in 0 .. MaxFaults
    BY <1>10 DEF MarkConflict, TypeOK
  <2> QED
    BY <1>10, <2>1, LeaveType DEF MarkConflict
<1>11. ASSUME NEW q \in Request, Answer(q)
       PROVE  TypeOK'
  <2>1. faults' \in 0 .. MaxFaults
    BY <1>11 DEF Answer, TypeOK
  <2>2. Outcome(results[q]) \in {"aborted", "delivered", "partial", "failed",
                                 "nothing_to_send"}
    BY DEF Outcome
  <2> QED
    BY <1>11, <2>1, <2>2, LeaveType DEF Answer
<1>12. ASSUME NEW q \in Request, Crash(q)
       PROVE  TypeOK'
  BY <1>12, LeaveType, ChargeType DEF Crash
<1>13. ASSUME NEW i \in LogId, Age(i)
       PROVE  TypeOK'
  <2>1. faults' \in 0 .. MaxFaults
    BY <1>13, ChargeType DEF Age, TypeOK
  <2> QED
    BY <1>13, <2>1 DEF Age, TypeOK, local
<1>14. CASE UNCHANGED vars
  BY <1>14 DEF vars, TypeOK
<1> QED
  BY <1>1, <1>2, <1>3, <1>4, <1>5, <1>6, <1>7, <1>8, <1>9, <1>10, <1>11, <1>12,
     <1>13, <1>14 DEF Next, Step

(* Every reachable state is well typed: the request never looks past its   *)
(* recipients, and only ever holds a row it can have inserted.             *)
THEOREM TypeCorrect == Spec => []TypeOK
<1> QED
  BY TypeInit, TypeStep, PTL DEF Spec

(***************************************************************************)
(* Safety.                                                                 *)
(***************************************************************************)

(* What a step of request q leaves alone of the other requests. *)
OthersKeep(q) ==
  \A p \in Request \ {q} :
    /\ pc'[p] = pc[p] /\ report'[p] = report[p] /\ list'[p] = list[p]
    /\ next'[p] = next[p] /\ claim'[p] = claim[p] /\ stale'[p] = stale[p]

LEMMA SameRow ==
  ASSUME NEW q \in Request, OthersKeep(q), NEW p \in Request \ {q}
  PROVE  RowOf(p)' = RowOf(p) /\ KeyOf(p)' = KeyOf(p) /\ pc'[p] = pc[p]
  BY DEF OthersKeep, RowOf, KeyOf

(* A request that has expired its stale claims keeps none. *)
LEMMA StaleRowsKept ==
  ASSUME TypeOK, Safe, NEW q \in Request, OthersKeep(q), stale'[q] = {},
         \A i \in LogId : status[i] # "absent" => status'[i] # "absent"
  PROVE  StaleRows'
<1> SUFFICES ASSUME NEW p \in Request, NEW i \in stale'[p]
             PROVE  pc'[p] = "expire" /\ i[1] = KeyOf(p)' /\ status'[i] # "absent"
  BY DEF StaleRows
<1>1. p # q /\ i \in stale[p]
  BY DEF OthersKeep
<1>2. i \in LogId /\ pc[p] = "expire" /\ i[1] = KeyOf(p) /\ status[i] # "absent"
  BY <1>1 DEF Safe, StaleRows, TypeOK
<1> QED
  BY <1>1, <1>2, SameRow

(* A step that leaves the table and the mail server alone, and ends with   *)
(* no row in the hands of q, keeps the invariant.                          *)
LEMMA Bystander ==
  ASSUME TypeOK, Safe, NEW q \in Request, OthersKeep(q),
         pc'[q] \notin {"send", "mark"},
         \A i \in stale'[q] :
           pc'[q] = "expire" /\ i[1] = KeyOf(q)' /\ status[i] # "absent",
         UNCHANGED <<status, aged, smtp, expired>>
  PROVE  Safe'
<1>1. RowsInHand'
  BY SameRow DEF Safe, RowsInHand
<1>2. OneHolder'
  BY SameRow DEF Safe, OneHolder
<1>3. StaleRows'
  BY SameRow DEF Safe, StaleRows, OthersKeep
<1>4. Untouched' /\ LiveUnique' /\ AcceptedIsLive' /\ SentMeansAccepted'
  BY DEF Safe, Untouched, LiveUnique, AcceptedIsLive, SentMeansAccepted, Live
<1> QED
  BY <1>1, <1>2, <1>3, <1>4 DEF Safe

LEMMA SafeInit == Init => Safe
  BY DEF Init, Safe, RowsInHand, OneHolder, Untouched, StaleRows, LiveUnique,
         AcceptedIsLive, SentMeansAccepted, Live, LogId

LEMMA SafeExpire ==
  ASSUME TypeOK, Safe, NEW q \in Request, ExpireStale(q)
  PROVE  Safe'
<1>1. OthersKeep(q) /\ pc'[q] = "insert"
  BY DEF ExpireStale, TypeOK, OthersKeep
<1>2. /\ \A i \in LogId : status'[i] = IF i \in stale[q] THEN "FAILED" ELSE status[i]
      /\ expired' = expired \cup stale[q] /\ smtp' = smtp /\ aged' = aged
  BY DEF ExpireStale
<1>3. \A i \in LogId : status[i] # "absent" <=> status'[i] # "absent"
  BY <1>2, StaleRowsKept DEF Safe, StaleRows
<1>4. RowsInHand'
  <2> SUFFICES ASSUME NEW p \in Request, pc'[p] \in {"send", "mark"}
               PROVE  /\ status'[RowOf(p)'] # "absent"
                      /\ RowOf(p)' \notin expired' => status'[RowOf(p)'] = "PENDING"
                      /\ pc'[p] = "send" <=> smtp'[RowOf(p)'] = "none"
    BY DEF RowsInHand
  <2>1. p # q
    BY <1>1
  <2>2. RowOf(p)' = RowOf(p) /\ pc'[p] = pc[p]
    BY <1>1, <2>1, SameRow
  <2>3. RowOf(p) \in LogId
    BY <2>2, KeyType
  <2> QED
    BY <1>2, <1>3, <2>2, <2>3 DEF Safe, RowsInHand
<1>5. OneHolder'
  BY <1>1, SameRow DEF Safe, OneHolder
<1>6. Untouched'
  BY <1>2, <1>3 DEF Safe, Untouched, StaleRows
<1>7. StaleRows'
  BY <1>1, <1>3, StaleRowsKept DEF ExpireStale, TypeOK
<1>8. LiveUnique'
  <2>1. \A k \in Key, m \in Attempt : Live(<<k, m>>)' => Live(<<k, m>>)
    BY <1>2 DEF Live, LogId
  <2> QED
    BY <2>1 DEF Safe, LiveUnique
<1>9. AcceptedIsLive'
  BY <1>2 DEF Safe, AcceptedIsLive, Live
<1>10. SentMeansAccepted'
  BY <1>2 DEF Safe, SentMeansAccepted
<1> QED
  BY <1>4, <1>5, <1>6, <1>7, <1>8, <1>9, <1>10 DEF Safe

LEMMA SafeInsert ==
  ASSUME TypeOK, Safe, NEW q \in Request, InsertClaim(q)
  PROVE  Safe'
<1>1. PICK n \in Attempt :
        /\ status[<<KeyOf(q), n>>] = "absent"
        /\ status' = [status EXCEPT ![<<KeyOf(q), n>>] = "PENDING"]
        /\ claim'  = [claim EXCEPT ![q] = n]
  BY DEF InsertClaim
<1> DEFINE row == <<KeyOf(q), n>>
<1>2. KeyOf(q) \in Key /\ row \in LogId
  BY KeyType DEF InsertClaim, LogId
<1>3. OthersKeep(q) /\ RowOf(q)' = row /\ pc'[q] = "send"
  BY <1>1 DEF InsertClaim, TypeOK, OthersKeep, RowOf, KeyOf
<1>4. /\ \A i \in LogId : status'[i] = IF i = row THEN "PENDING" ELSE status[i]
      /\ expired' = expired /\ smtp' = smtp /\ aged' = aged
  BY <1>1, <1>2 DEF InsertClaim, TypeOK
<1>5. smtp[row] = "none" /\ row \notin expired
  BY <1>1, <1>2 DEF Safe, Untouched
<1>6. \A p \in Request \ {q} : pc[p] \in {"send", "mark"} => RowOf(p) # row
  BY <1>1 DEF Safe, RowsInHand
<1>7. RowsInHand'
  <2> SUFFICES ASSUME NEW p \in Request, pc'[p] \in {"send", "mark"}
               PROVE  /\ status'[RowOf(p)'] # "absent"
                      /\ RowOf(p)' \notin expired' => status'[RowOf(p)'] = "PENDING"
                      /\ pc'[p] = "send" <=> smtp'[RowOf(p)'] = "none"
    BY DEF RowsInHand
  <2>1. CASE p = q
    BY <1>2, <1>3, <1>4, <1>5, <2>1
  <2>2. CASE p # q
    <3>1. RowOf(p)' = RowOf(p) /\ pc'[p] = pc[p]
      BY <1>3, <2>2, SameRow
    <3>2. RowOf(p) \in LogId
      BY <3>1, KeyType
    <3> QED
      BY <1>4, <1>6, <2>2, <3>1, <3>2 DEF Safe, RowsInHand
  <2> QED
    BY <2>1, <2>2
<1>8. OneHolder'
  BY <1>3, <1>6, SameRow DEF Safe, OneHolder
<1>9. Untouched'
  BY <1>4, <1>5 DEF Safe, Untouched
<1>10. StaleRows'
  BY <1>3, <1>4, StaleRowsKept DEF Safe, StaleRows, InsertClaim
<1>11. LiveUnique'
  <2> SUFFICES ASSUME NEW k \in Key, NEW m1 \in Attempt, NEW m2 \in Attempt,
                      Live(<<k, m1>>)', Live(<<k, m2>>)'
               PROVE  m1 = m2
    BY DEF LiveUnique
  <2>1. <<k, m1>> \in LogId /\ <<k, m2>> \in LogId
    BY DEF LogId
  <2>2. CASE k = KeyOf(q)
    <3>1. \A m \in Attempt : ~ Live(<<KeyOf(q), m>>)
      BY DEF InsertClaim
    <3> QED
      BY <1>4, <2>1, <2>2, <3>1 DEF Live
  <2>3. CASE k # KeyOf(q)
    BY <1>4, <2>1, <2>3 DEF Safe, LiveUnique, Live
  <2> QED
    BY <2>2, <2>3
<1>12. AcceptedIsLive'
  BY <1>4 DEF Safe, AcceptedIsLive, Live
<1>13. SentMeansAccepted'
  BY <1>4 DEF Safe, SentMeansAccepted
<1> QED
  BY <1>7, <1>8, <1>9, <1>10, <1>11, <1>12, <1>13 DEF Safe

LEMMA SafeSend ==
  ASSUME TypeOK, Safe, NEW q \in Request, Send(q)
  PROVE  Safe'
<1>1. RowOf(q) \in LogId
  BY KeyType DEF Send
<1>2. PICK answered \in {"accepted", "refused", "unanswered"} :
        smtp' = [smtp EXCEPT ![RowOf(q)] = answered]
  BY DEF Send
<1>3. OthersKeep(q) /\ RowOf(q)' = RowOf(q) /\ pc'[q] = "mark"
  BY DEF Send, TypeOK, OthersKeep, RowOf, KeyOf
<1>4. /\ \A i \in LogId : smtp'[i] = IF i = RowOf(q) THEN answered ELSE smtp[i]
      /\ UNCHANGED <<status, aged, expired, stale>>
  BY <1>1, <1>2 DEF Send, TypeOK
<1>5. /\ status[RowOf(q)] # "absent"
      /\ RowOf(q) \notin expired => status[RowOf(q)] = "PENDING"
      /\ smtp[RowOf(q)] = "none"
  BY DEF Safe, RowsInHand, Send
<1>6. RowsInHand'
  <2> SUFFICES ASSUME NEW p \in Request, pc'[p] \in {"send", "mark"}
               PROVE  /\ status'[RowOf(p)'] # "absent"
                      /\ RowOf(p)' \notin expired' => status'[RowOf(p)'] = "PENDING"
                      /\ pc'[p] = "send" <=> smtp'[RowOf(p)'] = "none"
    BY DEF RowsInHand
  <2>1. CASE p = q
    BY <1>1, <1>3, <1>4, <1>5, <2>1
  <2>2. CASE p # q
    <3>1. RowOf(p)' = RowOf(p) /\ pc'[p] = pc[p]
      BY <1>3, <2>2, SameRow
    <3>2. RowOf(p) \in LogId /\ RowOf(p) # RowOf(q)
      BY <2>2, <3>1, KeyType DEF Safe, OneHolder, Send
    <3> QED
      BY <1>4, <2>2, <3>1, <3>2 DEF Safe, RowsInHand
  <2> QED
    BY <2>1, <2>2
<1>7. OneHolder'
  <2> SUFFICES ASSUME NEW p1 \in Request, NEW p2 \in Request, p1 # p2,
                      pc'[p1] \in {"send", "mark"}, pc'[p2] \in {"send", "mark"}
               PROVE  RowOf(p1)' # RowOf(p2)'
    BY DEF OneHolder
  <2>1. \A p \in Request : RowOf(p)' = RowOf(p) /\ (p # q => pc'[p] = pc[p])
    BY <1>3, SameRow
  <2> QED
    BY <2>1 DEF Safe, OneHolder, Send
<1>8. Untouched'
  BY <1>4, <1>5 DEF Safe, Untouched
<1>9. StaleRows' /\ LiveUnique'
  <2>1. stale'[q] = {}
    BY <1>4 DEF Safe, StaleRows, Send
  <2> QED
    BY <1>3, <1>4, <2>1, StaleRowsKept DEF Safe, LiveUnique, Live
<1>10. AcceptedIsLive'
  BY <1>4, <1>5 DEF Safe, AcceptedIsLive, Live
<1>11. SentMeansAccepted'
  <2> SUFFICES ASSUME NEW i \in LogId, status'[i] = "SENT"
               PROVE  smtp'[i] = "accepted"
    BY DEF SentMeansAccepted
  <2> QED
    BY <1>4, <1>5 DEF Safe, SentMeansAccepted
<1> QED
  BY <1>6, <1>7, <1>8, <1>9, <1>10, <1>11 DEF Safe

(* What the two forms of mark() have in common. *)
LEMMA SafeMark ==
  ASSUME TypeOK, Safe, NEW q \in Request, pc[q] = "mark",
         NEW new \in {"SENT", "FAILED"},
         new = "SENT"   => smtp[RowOf(q)] = "accepted" /\ ~ Conflict(q),
         new = "FAILED" => smtp[RowOf(q)] # "accepted",
         status' = [status EXCEPT ![RowOf(q)] = new],
         OthersKeep(q), pc'[q] = "select",
         UNCHANGED <<aged, smtp, expired, stale>>
  PROVE  Safe'
<1>1. RowOf(q) \in LogId /\ KeyOf(q) \in Key /\ claim[q] \in Attempt
  BY KeyType DEF TypeOK
<1>2. \A i \in LogId : status'[i] = IF i = RowOf(q) THEN new ELSE status[i]
  BY <1>1 DEF TypeOK
<1>3. smtp[RowOf(q)] # "none" /\ status[RowOf(q)] # "absent"
  BY DEF Safe, RowsInHand
<1>4. RowsInHand'
  <2> SUFFICES ASSUME NEW p \in Request, pc'[p] \in {"send", "mark"}
               PROVE  /\ status'[RowOf(p)'] # "absent"
                      /\ RowOf(p)' \notin expired' => status'[RowOf(p)'] = "PENDING"
                      /\ pc'[p] = "send" <=> smtp'[RowOf(p)'] = "none"
    BY DEF RowsInHand
  <2>1. p # q
    OBVIOUS
  <2>2. RowOf(p)' = RowOf(p) /\ pc'[p] = pc[p]
    BY <2>1, SameRow
  <2>3. RowOf(p) \in LogId /\ RowOf(p) # RowOf(q)
    BY <2>1, <2>2, KeyType DEF Safe, OneHolder
  <2> QED
    BY <1>2, <2>2, <2>3 DEF Safe, RowsInHand
<1>5. OneHolder'
  BY SameRow DEF Safe, OneHolder
<1>6. Untouched'
  BY <1>2 DEF Safe, Untouched
<1>7. StaleRows'
  BY <1>2, StaleRowsKept DEF Safe, StaleRows
<1>8. LiveUnique'
  <2> SUFFICES ASSUME NEW k \in Key, NEW m1 \in Attempt, NEW m2 \in Attempt,
                      Live(<<k, m1>>)', Live(<<k, m2>>)'
               PROVE  m1 = m2
    BY DEF LiveUnique
  <2>1. <<k, m1>> \in LogId /\ <<k, m2>> \in LogId
    BY DEF LogId
  <2>2. CASE new = "FAILED"
    BY <1>2, <2>1, <2>2 DEF Safe, LiveUnique, Live
  <2>3. CASE new = "SENT" /\ k # KeyOf(q)
    BY <1>2, <2>1, <2>3 DEF Safe, LiveUnique, Live, RowOf
  <2>4. CASE new = "SENT" /\ k = KeyOf(q)
    BY <1>1, <1>2, <2>1, <2>4 DEF Conflict, Live, RowOf
  <2> QED
    BY <2>2, <2>3, <2>4
<1>9. AcceptedIsLive'
  BY <1>2 DEF Safe, AcceptedIsLive, Live
<1>10. SentMeansAccepted'
  BY <1>2 DEF Safe, SentMeansAccepted
<1> QED
  BY <1>4, <1>5, <1>6, <1>7, <1>8, <1>9, <1>10 DEF Safe

LEMMA SafeAge ==
  ASSUME TypeOK, Safe, NEW i \in LogId, Age(i)
  PROVE  Safe'
<1>1. /\ UNCHANGED <<status, smtp, expired, local>>
      /\ aged' = aged \cup {i} /\ status[i] = "PENDING"
  BY DEF Age
<1>2. \A q \in Request : RowOf(q)' = RowOf(q)
  BY <1>1 DEF local, RowOf, KeyOf
<1>3. \A q \in Request : KeyOf(q)' = KeyOf(q)
  BY <1>1 DEF local, KeyOf
<1>4. RowsInHand' /\ OneHolder'
  BY <1>1, <1>2 DEF Safe, RowsInHand, OneHolder, local
<1>5. Untouched'
  BY <1>1 DEF Safe, Untouched
<1>6. StaleRows' /\ LiveUnique' /\ AcceptedIsLive' /\ SentMeansAccepted'
  BY <1>1, <1>3 DEF Safe, StaleRows, LiveUnique, AcceptedIsLive, SentMeansAccepted,
              Live, local
<1> QED
  BY <1>4, <1>5, <1>6 DEF Safe

LEMMA SafeStep == TypeOK /\ Safe /\ [Next]_vars => Safe'
<1> SUFFICES ASSUME TypeOK, Safe, [Next]_vars PROVE Safe'
  OBVIOUS
<1>1. ASSUME NEW q \in Request, NEW r \in Report, Start(q, r)
      PROVE  Safe'
  <2>1. OthersKeep(q) /\ pc'[q] = "select"
    BY <1>1 DEF Start, OthersKeep, TypeOK
  <2> QED
    BY <1>1, <2>1, Bystander DEF Start, Safe, StaleRows
<1>2. ASSUME NEW q \in Request, Decline(q)
      PROVE  Safe'
  BY <1>2, Bystander DEF Decline, OthersKeep, Safe, StaleRows
<1>3. ASSUME NEW q \in Request, SelectStale(q)
      PROVE  Safe'
  <2>1. /\ OthersKeep(q) /\ pc'[q] = "expire"
        /\ \A i \in stale'[q] : i[1] = KeyOf(q)' /\ status[i] # "absent"
    BY <1>3 DEF SelectStale, OthersKeep, TypeOK, KeyOf
  <2> QED
    BY <1>3, <2>1, Bystander DEF SelectStale
<1>4. ASSUME NEW q \in Request, ExpireStale(q)
      PROVE  Safe'
  BY <1>4, SafeExpire
<1>5. ASSUME NEW q \in Request, InsertClaim(q)
      PROVE  Safe'
  BY <1>5, SafeInsert
<1>6. ASSUME NEW q \in Request, SkipClaimed(q)
      PROVE  Safe'
  <2>1. OthersKeep(q) /\ pc'[q] = "select"
    BY <1>6 DEF SkipClaimed, NextRecipient, OthersKeep, TypeOK
  <2> QED
    BY <1>6, <2>1, Bystander DEF SkipClaimed, Safe, StaleRows
<1>7. ASSUME NEW q \in Request, Send(q)
      PROVE  Safe'
  BY <1>7, SafeSend
<1>8. ASSUME NEW q \in Request, MarkSent(q)
      PROVE  Safe'
  <2>1. OthersKeep(q) /\ pc'[q] = "select"
    BY <1>8 DEF MarkSent, NextRecipient, OthersKeep, TypeOK
  <2> QED
    BY <1>8, <2>1, SafeMark DEF MarkSent
<1>9. ASSUME NEW q \in Request, MarkFailed(q)
      PROVE  Safe'
  <2>1. OthersKeep(q) /\ pc'[q] = "select"
    BY <1>9 DEF MarkFailed, NextRecipient, OthersKeep, TypeOK
  <2> QED
    BY <1>9, <2>1, SafeMark DEF MarkFailed
<1>10. ASSUME NEW q \in Request, NEW o, Leave(q, o),
              UNCHANGED <<status, aged, smtp, expired>>
       PROVE  Safe'
  <2>1. OthersKeep(q) /\ pc'[q] = "idle" /\ stale'[q] = {}
    BY <1>10 DEF Leave, OthersKeep, TypeOK
  <2> QED
    BY <1>10, <2>1, Bystander
<1>11. ASSUME NEW q \in Request, MarkConflict(q) \/ Answer(q) \/ Crash(q)
       PROVE  Safe'
  BY <1>10, <1>11 DEF MarkConflict, Answer, Crash
<1>12. ASSUME NEW i \in LogId, Age(i)
       PROVE  Safe'
  BY <1>12, SafeAge
<1>13. CASE UNCHANGED vars
  <2>1. UNCHANGED <<status, aged, smtp, expired, local>>
    BY <1>13 DEF vars, local
  <2>2. \A q \in Request : RowOf(q)' = RowOf(q) /\ KeyOf(q)' = KeyOf(q)
    BY <2>1 DEF local, RowOf, KeyOf
  <2> QED
    BY <2>1, <2>2 DEF local, Safe, RowsInHand, OneHolder, Untouched, StaleRows,
       LiveUnique, AcceptedIsLive, SentMeansAccepted, Live
<1> QED
  BY <1>1, <1>2, <1>3, <1>4, <1>5, <1>6, <1>7, <1>8, <1>9, <1>11, <1>12, <1>13
  DEF Next, Step

THEOREM Safety == Spec => [](TypeOK /\ Safe)
<1>1. Init => TypeOK /\ Safe
  BY TypeInit, SafeInit
<1>2. TypeOK /\ Safe /\ [Next]_vars => TypeOK' /\ Safe'
  BY TypeStep, SafeStep
<1> QED
  BY <1>1, <1>2, PTL DEF Spec

(* A delivery is SENT only when the mail server accepted its message,      *)
(* however the claims, takeovers and marks of the requests interleave.     *)
THEOREM SentIsAccepted == Spec => []SentMeansAccepted
<1>1. Safe => SentMeansAccepted
  BY DEF Safe
<1> QED
  BY <1>1, Safety, PTL

(* A second accepted message for the same report and recipient needs a     *)
(* claim that was expired: the claim is live from before its send, and the *)
(* unique index lets no second one in until it is failed or expired.       *)
THEOREM RepeatsNeedAbandonment == Spec => []RepeatNeedsAbandonment
<1>1. Safe => RepeatNeedsAbandonment
  BY DEF Safe, RepeatNeedsAbandonment, AcceptedIsLive, LiveUnique, LogId
<1> QED
  BY <1>1, Safety, PTL

(* Of two requests sending to the same recipient one has lost its claim. *)
THEOREM SendersAreExclusive == Spec => []SendersExclusive
<1>1. ASSUME TypeOK, Safe PROVE SendersExclusive
  <2> SUFFICES ASSUME NEW p \in Request, NEW q \in Request, p # q,
                      pc[p] \in {"send", "mark"}, pc[q] \in {"send", "mark"},
                      KeyOf(p) = KeyOf(q),
                      RowOf(p) \notin expired, RowOf(q) \notin expired
               PROVE  FALSE
    BY DEF SendersExclusive
  <2>1. Live(RowOf(p)) /\ Live(RowOf(q))
    BY <1>1 DEF Safe, RowsInHand, Live
  <2>2. KeyOf(p) \in Key /\ claim[p] \in Attempt /\ claim[q] \in Attempt
    BY <1>1, KeyType DEF TypeOK
  <2>3. claim[p] = claim[q]
    BY <1>1, <2>1, <2>2 DEF Safe, LiveUnique, RowOf
  <2> QED
    BY <1>1, <2>3 DEF Safe, OneHolder, RowOf
<1> QED
  BY <1>1, Safety, PTL

(***************************************************************************)
(* When no send outlasts its claim.                                        *)
(***************************************************************************)

LEMMA AgedInit == Init => AgedIsAbandoned
  BY DEF Init, AgedIsAbandoned

(* A step that ages nothing, makes no aged row SENT, takes no row in hand. *)
LEMMA AgedBystander ==
  ASSUME TypeOK, AgedIsAbandoned, NEW q \in Request, OthersKeep(q), aged' = aged,
         \A i \in aged : status'[i] # "SENT",
         pc'[q] \notin {"send", "mark"},
         stale'[q] \subseteq aged, expired' \subseteq aged
  PROVE  AgedIsAbandoned'
<1>1. \A i \in aged : \A p \in Request : ~ Holds(p, i)'
  BY SameRow DEF AgedIsAbandoned, Holds
<1> QED
  BY <1>1 DEF AgedIsAbandoned, OthersKeep

LEMMA AgedStep ==
  ASSUME "slow_send" \notin Fault
  PROVE  TypeOK /\ Safe /\ AgedIsAbandoned /\ [Next]_vars => AgedIsAbandoned'
<1> SUFFICES ASSUME TypeOK, Safe, AgedIsAbandoned, [Next]_vars
             PROVE  AgedIsAbandoned'
  OBVIOUS
<1>1. ASSUME NEW q \in Request, NEW r \in Report, Start(q, r)
      PROVE  AgedIsAbandoned'
  <2>1. OthersKeep(q) /\ pc'[q] = "select"
    BY <1>1 DEF Start, OthersKeep, TypeOK
  <2> QED
    BY <1>1, <2>1, AgedBystander DEF Start, AgedIsAbandoned
<1>2. ASSUME NEW q \in Request, Decline(q)
      PROVE  AgedIsAbandoned'
  BY <1>2, AgedBystander DEF Decline, OthersKeep, AgedIsAbandoned
<1>3. ASSUME NEW q \in Request, SelectStale(q)
      PROVE  AgedIsAbandoned'
  <2>1. OthersKeep(q) /\ pc'[q] = "expire" /\ stale'[q] \subseteq aged
    BY <1>3 DEF SelectStale, OthersKeep, TypeOK
  <2> QED
    BY <1>3, <2>1, AgedBystander DEF SelectStale, AgedIsAbandoned
<1>4. ASSUME NEW q \in Request, ExpireStale(q)
      PROVE  AgedIsAbandoned'
  <2>1. OthersKeep(q) /\ pc'[q] = "insert" /\ stale'[q] = {}
    BY <1>4 DEF ExpireStale, OthersKeep, TypeOK
  <2>2. (\A i \in aged : status'[i] # "SENT") /\ expired' \subseteq aged
    BY <1>4 DEF ExpireStale, AgedIsAbandoned, TypeOK
  <2> QED
    BY <1>4, <2>1, <2>2, AgedBystander DEF ExpireStale
<1>5. ASSUME NEW q \in Request, InsertClaim(q)
      PROVE  AgedIsAbandoned'
  <2>1. PICK n \in Attempt :
          /\ status[<<KeyOf(q), n>>] = "absent"
          /\ status' = [status EXCEPT ![<<KeyOf(q), n>>] = "PENDING"]
          /\ claim'  = [claim EXCEPT ![q] = n]
    BY <1>5 DEF InsertClaim
  <2>2. OthersKeep(q) /\ RowOf(q)' = <<KeyOf(q), n>>
    BY <1>5, <2>1 DEF InsertClaim, TypeOK, OthersKeep, RowOf, KeyOf
  <2>3. KeyOf(q) \in Key
    BY <1>5, KeyType DEF InsertClaim
  <2>4. <<KeyOf(q), n>> \in LogId \ aged
    BY <2>1, <2>3 DEF Safe, Untouched, LogId
  <2>5. \A i \in aged : status'[i] # "SENT"
    BY <2>1, <2>4 DEF TypeOK, AgedIsAbandoned
  <2>6. \A i \in aged : \A p \in Request : ~ Holds(p, i)'
    BY <2>2, <2>4, SameRow DEF AgedIsAbandoned, Holds
  <2> QED
    BY <1>5, <2>5, <2>6 DEF InsertClaim, AgedIsAbandoned
<1>6. ASSUME NEW q \in Request, SkipClaimed(q)
      PROVE  AgedIsAbandoned'
  <2>1. OthersKeep(q) /\ pc'[q] = "select"
    BY <1>6 DEF SkipClaimed, NextRecipient, OthersKeep, TypeOK
  <2> QED
    BY <1>6, <2>1, AgedBystander DEF SkipClaimed, AgedIsAbandoned
<1>7. ASSUME NEW q \in Request, Send(q)
      PROVE  AgedIsAbandoned'
  <2>1. /\ UNCHANGED <<status, aged, stale, expired>>
        /\ \A p \in Request : RowOf(p)' = RowOf(p)
        /\ \A p \in Request : pc'[p] \in {"send", "mark"} => pc[p] \in {"send", "mark"}
    BY <1>7 DEF Send, TypeOK, RowOf, KeyOf
  <2> QED
    BY <2>1 DEF AgedIsAbandoned, Holds
<1>8. ASSUME NEW q \in Request, MarkSent(q) \/ MarkFailed(q)
      PROVE  AgedIsAbandoned'
  <2>1. OthersKeep(q) /\ pc'[q] = "select" /\ UNCHANGED <<aged, stale, expired>>
    BY <1>8 DEF MarkSent, MarkFailed, NextRecipient, OthersKeep, TypeOK
  <2>2. PICK new \in {"SENT", "FAILED"} : status' = [status EXCEPT ![RowOf(q)] = new]
    BY <1>8 DEF MarkSent, MarkFailed
  <2>3. RowOf(q) \notin aged
    BY <1>8 DEF MarkSent, MarkFailed, AgedIsAbandoned, Holds
  <2>4. \A i \in aged : status'[i] # "SENT"
    BY <2>2, <2>3 DEF AgedIsAbandoned, TypeOK
  <2> QED
    BY <2>1, <2>4, AgedBystander DEF AgedIsAbandoned
<1>9. ASSUME NEW q \in Request, MarkConflict(q) \/ Answer(q) \/ Crash(q)
      PROVE  AgedIsAbandoned'
  <2>1. /\ OthersKeep(q) /\ pc'[q] = "idle" /\ stale'[q] = {}
        /\ UNCHANGED <<status, aged, expired>>
    BY <1>9 DEF MarkConflict, Answer, Crash, Leave, OthersKeep, TypeOK
  <2> QED
    BY <2>1, AgedBystander DEF AgedIsAbandoned
<1>10. ASSUME NEW i \in LogId, Age(i)
       PROVE  AgedIsAbandoned'
  <2>1. \A q \in Request : ~ Holds(q, i)
    BY <1>10 DEF Age, Charge
  <2>2. \A q \in Request, j \in LogId : Holds(q, j)' <=> Holds(q, j)
    BY <1>10 DEF Age, local, Holds, RowOf, KeyOf
  <2>3. aged' = aged \cup {i} /\ aged' \subseteq LogId
        /\ UNCHANGED <<status, stale, expired>>
        /\ status[i] = "PENDING"
    BY <1>10 DEF Age, local, TypeOK
  <2> QED
    BY <2>1, <2>2, <2>3 DEF AgedIsAbandoned
<1>11. CASE UNCHANGED vars
  BY <1>11 DEF vars, AgedIsAbandoned, Holds, RowOf, KeyOf
<1> QED
  BY <1>1, <1>2, <1>3, <1>4, <1>5, <1>6, <1>7, <1>8, <1>9, <1>10, <1>11
  DEF Next, Step

THEOREM AgedClaimsAreAbandoned ==
  ASSUME "slow_send" \notin Fault
  PROVE  Spec => []AgedIsAbandoned
<1>1. TypeOK /\ Safe /\ AgedIsAbandoned /\ [Next]_vars => AgedIsAbandoned'
  BY AgedStep
<1> QED
  BY <1>1, AgedInit, Safety, PTL DEF Spec

(* A row that says SENT is in nobody's hands and no takeover has read it. *)
LEMMA SentStep ==
  ASSUME TypeOK, Safe, AgedIsAbandoned, [Next]_vars, NEW i \in LogId, status[i] = "SENT"
  PROVE  status'[i] = "SENT"
<1>1. ASSUME NEW q \in Request, ExpireStale(q) PROVE status'[i] = "SENT"
  BY <1>1 DEF ExpireStale, AgedIsAbandoned
<1>2. ASSUME NEW q \in Request, InsertClaim(q) PROVE status'[i] = "SENT"
  BY <1>2 DEF InsertClaim, TypeOK
<1>3. ASSUME NEW q \in Request, MarkSent(q) PROVE status'[i] = "SENT"
  BY <1>3 DEF MarkSent, TypeOK
<1>4. ASSUME NEW q \in Request, MarkFailed(q) PROVE status'[i] = "SENT"
  BY <1>4 DEF MarkFailed, TypeOK, Safe, SentMeansAccepted
<1> QED
  BY <1>1, <1>2, <1>3, <1>4
  DEF Next, Step, Start, Decline, SelectStale, SkipClaimed, Send, MarkConflict,
      Answer, Crash, Age, vars

(* Without a slow send, a delivery recorded SENT stays so: it is never     *)
(* overwritten by a takeover that had read it as PENDING, so no later      *)
(* trigger mails that recipient again.                                     *)
THEOREM SentStaysSent ==
  ASSUME "slow_send" \notin Fault
  PROVE  Spec => SentIsFinal
<1>1. TypeOK /\ Safe /\ AgedIsAbandoned /\ [Next]_vars
        => [\A i \in LogId : status[i] = "SENT" => status'[i] = "SENT"]_vars
  BY SentStep
<1> QED
  BY <1>1, Safety, AgedClaimsAreAbandoned, PTL DEF Spec, SentIsFinal

(* The recipients a request has gone through without a failure or a skip.  *)
Served ==
  \A q \in Request :
    pc[q] # "idle" /\ results[q] \cap {"failed", "skipped"} = {}
      => \A n \in 1 .. (next[q] - 1) :
           <<report[q], list[q][n]>> \in Key /\ Delivered(<<report[q], list[q][n]>>)

(* Delivered, of the statuses before or after a step. *)
SentIn(st, k) == \E n \in Attempt : st[<<k, n>>] = "SENT"

LEMMA DeliveredStays ==
  ASSUME TypeOK, Safe, AgedIsAbandoned, [Next]_vars, NEW k \in Key, Delivered(k)
  PROVE  SentIn(status', k)
<1>1. PICK n \in Attempt : status[<<k, n>>] = "SENT"
  BY DEF Delivered
<1>2. status'[<<k, n>>] = "SENT"
  BY <1>1, SentStep DEF LogId
<1> QED
  BY <1>2 DEF SentIn

(* The end of a turn of q adds the recipient it was working on. *)
LEMMA ServedNext ==
  ASSUME TypeOK, Safe, AgedIsAbandoned, Served, [Next]_vars,
         NEW q \in Request, pc[q] \notin {"idle", "select"},
         NEW result \in {"sent", "failed", "skipped"}, NextRecipient(q, result),
         UNCHANGED <<report, list>>,
         result = "sent" => SentIn(status', KeyOf(q)),
         results'[q] \cap {"failed", "skipped"} = {},
         NEW n \in 1 .. (next'[q] - 1)
  PROVE  <<report[q], list[q][n]>> \in Key /\ SentIn(status', <<report[q], list[q][n]>>)
<1>1. /\ next[q] \in Nat \ {0} /\ next'[q] = next[q] + 1
      /\ results'[q] = results[q] \cup {result}
  BY DEF NextRecipient, TypeOK
<1>2. results[q] \cap {"failed", "skipped"} = {} /\ result = "sent"
  BY <1>1
<1>3. CASE n \in 1 .. (next[q] - 1)
  <2>1. <<report[q], list[q][n]>> \in Key /\ Delivered(<<report[q], list[q][n]>>)
    BY <1>2, <1>3 DEF Served
  <2> QED
    BY <2>1, DeliveredStays
<1>4. CASE n = next[q]
  <2>1. KeyOf(q) = <<report[q], list[q][n]>> /\ KeyOf(q) \in Key
    BY <1>4, KeyType DEF KeyOf
  <2> QED
    BY <1>2, <2>1
<1> QED
  BY <1>1, <1>3, <1>4

LEMMA ServedStep ==
  ASSUME TypeOK, Safe, AgedIsAbandoned, Served, [Next]_vars
  PROVE  Served'
<1> SUFFICES ASSUME NEW p \in Request, pc'[p] # "idle",
                    results'[p] \cap {"failed", "skipped"} = {},
                    NEW n \in 1 .. (next'[p] - 1)
             PROVE  /\ <<report'[p], list'[p][n]>> \in Key
                    /\ SentIn(status', <<report'[p], list'[p][n]>>)
  BY DEF Served, SentIn, Delivered
<1> DEFINE Good == <<report'[p], list'[p][n]>> \in Key
                   /\ SentIn(status', <<report'[p], list'[p][n]>>)
<1>1. CASE /\ pc[p] # "idle" /\ results'[p] = results[p]
           /\ next'[p] = next[p] /\ report'[p] = report[p] /\ list'[p] = list[p]
  <2>1. <<report[p], list[p][n]>> \in Key /\ Delivered(<<report[p], list[p][n]>>)
    BY <1>1 DEF Served
  <2>2. SentIn(status', <<report[p], list[p][n]>>)
    BY <2>1, DeliveredStays
  <2> QED
    BY <1>1, <2>1, <2>2
<1>2. ASSUME NEW q \in Request, p = q, pc[q] \notin {"idle", "select"},
             NEW result \in {"sent", "failed", "skipped"}, NextRecipient(q, result),
             UNCHANGED <<report, list>>,
             result = "sent" => SentIn(status', KeyOf(q))
      PROVE  Good
  <2>1. <<report[p], list[p][n]>> \in Key /\ SentIn(status', <<report[p], list[p][n]>>)
    BY <1>2, ServedNext
  <2> QED
    BY <1>2, <2>1
<1>3. ASSUME NEW q \in Request, NEW r \in Report, Start(q, r) PROVE Good
  <2>1. p # q
    BY <1>3 DEF Start, TypeOK
  <2> QED
    BY <1>1, <1>3, <2>1 DEF Start, TypeOK
<1>4. ASSUME NEW q \in Request,
             \/ Decline(q) \/ SelectStale(q) \/ ExpireStale(q) \/ InsertClaim(q) \/ Send(q)
      PROVE  Good
  BY <1>1, <1>4 DEF Decline, SelectStale, ExpireStale, InsertClaim, Send, TypeOK
<1>5. ASSUME NEW q \in Request, SkipClaimed(q) PROVE Good
  <2>1. CASE p = q
    BY <1>2, <1>5, <2>1 DEF SkipClaimed
  <2>2. CASE p # q
    BY <1>1, <1>5, <2>2 DEF SkipClaimed, NextRecipient, TypeOK
  <2> QED
    BY <2>1, <2>2
<1>6. ASSUME NEW q \in Request, MarkSent(q) PROVE Good
  <2>1. CASE p = q
    <3>1. RowOf(q) \in LogId /\ claim[q] \in Attempt /\ RowOf(q) = <<KeyOf(q), claim[q]>>
      BY <1>6, KeyType DEF MarkSent, RowOf, TypeOK
    <3>2. status'[<<KeyOf(q), claim[q]>>] = "SENT"
      BY <1>6, <3>1 DEF MarkSent, TypeOK
    <3> QED
      BY <1>2, <1>6, <2>1, <3>1, <3>2 DEF MarkSent, SentIn
  <2>2. CASE p # q
    BY <1>1, <1>6, <2>2 DEF MarkSent, NextRecipient, TypeOK
  <2> QED
    BY <2>1, <2>2
<1>7. ASSUME NEW q \in Request, MarkFailed(q) PROVE Good
  <2>1. CASE p = q
    BY <1>2, <1>7, <2>1 DEF MarkFailed
  <2>2. CASE p # q
    BY <1>1, <1>7, <2>2 DEF MarkFailed, NextRecipient, TypeOK
  <2> QED
    BY <2>1, <2>2
<1>8. ASSUME NEW q \in Request, MarkConflict(q) \/ Answer(q) \/ Crash(q) PROVE Good
  <2>1. p # q
    BY <1>8 DEF MarkConflict, Answer, Crash, Leave, TypeOK
  <2> QED
    BY <1>1, <1>8, <2>1 DEF MarkConflict, Answer, Crash, Leave, TypeOK
<1>9. ASSUME NEW i \in LogId, Age(i) PROVE Good
  BY <1>1, <1>9 DEF Age, local
<1>10. CASE UNCHANGED vars
  BY <1>1, <1>10 DEF vars
<1> QED
  BY <1>3, <1>4, <1>5, <1>6, <1>7, <1>8, <1>9, <1>10 DEF Next, Step

(* Without a slow send a request answers "delivered" only when there is a  *)
(* SENT row for every recipient it has gone through: no other request      *)
(* takes one of them back while it goes on.                                *)
THEOREM DeliveredIsTrue ==
  ASSUME "slow_send" \notin Fault
  PROVE  Spec => []ReportedSent
<1>1. Init => Served
  BY DEF Init, Served
<1>2. TypeOK /\ Safe /\ AgedIsAbandoned /\ Served /\ [Next]_vars => Served'
  BY ServedStep
<1>3. Served => ReportedSent
  BY DEF Served, ReportedSent
<1> QED
  BY <1>1, <1>2, <1>3, Safety, AgedClaimsAreAbandoned, PTL DEF Spec

(***************************************************************************)
(* The ledger implements the abstract Delivery.                            *)
(***************************************************************************)

Claimed(k) == \E n \in Attempt : status[<<k, n>>] = "PENDING"

(* A step that changes the rows of one key only changes its abstract state. *)
LEMMA OneKey ==
  ASSUME TypeOK, NEW k \in Key,
         \A i \in LogId : i[1] # k => status'[i] = status[i] /\ smtp'[i] = smtp[i]
  PROVE  \A j \in Key \ {k} : KeyState(j)' = KeyState(j) /\ Mailed(j)' = Mailed(j)
<1> SUFFICES ASSUME NEW j \in Key \ {k}
             PROVE  KeyState(j)' = KeyState(j) /\ Mailed(j)' = Mailed(j)
  OBVIOUS
<1>1. \A n \in Attempt : status'[<<j, n>>] = status[<<j, n>>]
                         /\ smtp'[<<j, n>>] = smtp[<<j, n>>]
  BY DEF LogId
<1> QED
  BY <1>1 DEF KeyState, Delivered, Mailed

(* A step that leaves every status and every message alone is a stutter. *)
LEMMA Stutter ==
  ASSUME UNCHANGED <<status, smtp>>
  PROVE  UNCHANGED D!dvars
<1>1. \A k \in Key : KeyState(k)' = KeyState(k) /\ Mailed(k)' = Mailed(k)
  BY DEF KeyState, Delivered, Mailed
<1> QED
  BY <1>1 DEF D!dvars

LEMMA ImplementsInit == Init => D!DInit
<1> SUFFICES ASSUME Init PROVE D!DInit
  OBVIOUS
<1>1. \A k \in Key : KeyState(k) = "open" /\ Mailed(k) = FALSE
  BY DEF Init, KeyState, Delivered, Mailed, LogId
<1> QED
  BY <1>1 DEF D!DInit

LEMMA ImplementsStep ==
  TypeOK /\ Safe /\ AgedIsAbandoned /\ [Next]_vars => [D!DNext]_(D!dvars)
<1> SUFFICES ASSUME TypeOK, Safe, AgedIsAbandoned, [Next]_vars
             PROVE  D!DNext \/ UNCHANGED D!dvars
  OBVIOUS
<1> DEFINE states == [k \in Key |-> KeyState(k)]
           mails  == [k \in Key |-> Mailed(k)]
<1>1. ASSUME NEW q \in Request, InsertClaim(q)
      PROVE  D!DNext
  <2>1. KeyOf(q) \in Key
    BY <1>1, KeyType DEF InsertClaim
  <2>2. PICK n \in Attempt :
          /\ status[<<KeyOf(q), n>>] = "absent"
          /\ status' = [status EXCEPT ![<<KeyOf(q), n>>] = "PENDING"]
    BY <1>1 DEF InsertClaim
  <2>3. \A i \in LogId : status'[i] = IF i = <<KeyOf(q), n>> THEN "PENDING" ELSE status[i]
    BY <2>2 DEF TypeOK
  <2>4. \A m \in Attempt : ~ Live(<<KeyOf(q), m>>)
    BY <1>1 DEF InsertClaim
  <2>5. KeyState(KeyOf(q)) = "open"
    BY <2>1, <2>4 DEF KeyState, Delivered, Live
  <2>6. KeyState(KeyOf(q))' = "claimed"
    <3>1. \A m \in Attempt : status'[<<KeyOf(q), m>>] # "SENT"
      BY <2>1, <2>3, <2>4 DEF Live, LogId
    <3>2. status'[<<KeyOf(q), n>>] = "PENDING"
      BY <2>1, <2>3 DEF LogId
    <3>3. KeyOf(q)' = KeyOf(q)
      BY <1>1 DEF InsertClaim, KeyOf
    <3> QED
      BY <3>1, <3>2, <3>3 DEF KeyState, Delivered
  <2>7. smtp' = smtp /\ KeyOf(q)' = KeyOf(q)
    BY <1>1 DEF InsertClaim, KeyOf
  <2>8. \A j \in Key \ {KeyOf(q)} : KeyState(j)' = KeyState(j)
    BY <2>1, <2>3, <2>7, OneKey
  <2>9. \A j \in Key : Mailed(j)' = Mailed(j)
    BY <2>7 DEF Mailed
  <2>10. states' = [states EXCEPT ![KeyOf(q)] = "claimed"] /\ mails' = mails
    BY <2>1, <2>6, <2>7, <2>8, <2>9
  <2>11. D!Claim(KeyOf(q))
    BY <2>1, <2>5, <2>10 DEF D!Claim
  <2> QED
    BY <2>1, <2>11 DEF D!DNext
<1>2. ASSUME NEW q \in Request, Send(q)
      PROVE  D!DNext \/ UNCHANGED D!dvars
  <2>1. PICK k \in Key, n \in Attempt : k = KeyOf(q) /\ n = claim[q]
    BY <1>2, KeyType DEF Send, TypeOK
  <2>2. PICK answered \in {"accepted", "refused", "unanswered"} :
          smtp' = [smtp EXCEPT ![<<k, n>>] = answered]
    BY <1>2, <2>1 DEF Send, RowOf
  <2>3. \A i \in LogId : smtp'[i] = IF i = <<k, n>> THEN answered ELSE smtp[i]
    BY <2>2 DEF TypeOK
  <2>4. status' = status
    BY <1>2 DEF Send
  <2>5. \A j \in Key : KeyState(j)' = KeyState(j)
    BY <2>4 DEF KeyState, Delivered
  <2>6. \A j \in Key \ {k} : Mailed(j)' = Mailed(j)
    BY <2>3, <2>4, OneKey
  <2>7. CASE answered = "refused"
    <3>1. \A m \in Attempt : smtp'[<<k, m>>] \in {"accepted", "unanswered"}
                         <=> smtp[<<k, m>>] \in {"accepted", "unanswered"}
      <4>1. smtp[<<k, n>>] = "none"
        BY <1>2, <2>1 DEF Safe, RowsInHand, Send, RowOf
      <4> QED
        BY <2>3, <2>7, <4>1 DEF LogId
    <3>2. Mailed(k)' = Mailed(k)
      BY <3>1 DEF Mailed
    <3> QED
      BY <2>5, <2>6, <3>2 DEF D!dvars
  <2>8. CASE answered # "refused"
    <3>1. Mailed(k)' = TRUE
      BY <2>3, <2>8 DEF Mailed, LogId
    <3>2. status[<<k, n>>] = "PENDING"
      <4>1. <<k, n>> \notin aged
        BY <1>2, <2>1 DEF AgedIsAbandoned, Holds, Send, RowOf
      <4> QED
        BY <1>2, <2>1, <4>1 DEF AgedIsAbandoned, Safe, RowsInHand, Send, RowOf
    <3>3. KeyState(k) = "claimed"
      BY <3>2 DEF KeyState, Delivered, Safe, LiveUnique, Live
    <3>4. states' = states /\ mails' = [mails EXCEPT ![k] = TRUE]
      BY <2>5, <2>6, <3>1
    <3>5. D!Mail(k)
      BY <3>3, <3>4 DEF D!Mail
    <3> QED
      BY <3>5 DEF D!DNext
  <2> QED
    BY <2>7, <2>8
<1>3. ASSUME NEW q \in Request, MarkSent(q)
      PROVE  D!DNext
  <2>1. PICK k \in Key, n \in Attempt : k = KeyOf(q) /\ n = claim[q]
    BY <1>3, KeyType DEF MarkSent, TypeOK
  <2>2. \A i \in LogId : status'[i] = IF i = <<k, n>> THEN "SENT" ELSE status[i]
    BY <1>3, <2>1 DEF MarkSent, RowOf, TypeOK
  <2>3. smtp' = smtp /\ smtp[<<k, n>>] = "accepted"
    BY <1>3, <2>1 DEF MarkSent, RowOf
  <2>4. status[<<k, n>>] = "PENDING"
    BY <1>3, <2>1 DEF AgedIsAbandoned, Holds, Safe, RowsInHand, MarkSent, RowOf
  <2>5. KeyState(k) = "claimed"
    BY <2>4 DEF KeyState, Delivered, Safe, LiveUnique, Live
  <2>6. KeyState(k)' = "delivered"
    BY <2>2 DEF KeyState, Delivered, LogId
  <2>7. Mailed(k)
    BY <2>3 DEF Mailed
  <2>8. \A j \in Key \ {k} : KeyState(j)' = KeyState(j)
    BY <2>2, <2>3, OneKey
  <2>9. \A j \in Key : Mailed(j)' = Mailed(j)
    BY <2>3 DEF Mailed
  <2>10. states' = [states EXCEPT ![k] = "delivered"] /\ mails' = mails
    BY <2>6, <2>8, <2>9
  <2>11. D!Confirm(k)
    BY <2>5, <2>7, <2>10 DEF D!Confirm
  <2> QED
    BY <2>11 DEF D!DNext
<1>4. ASSUME NEW k \in Key, Claimed(k), ~ Claimed(k)', smtp' = smtp,
             \A i \in LogId : status'[i] # status[i] => i[1] = k /\ status'[i] = "FAILED"
      PROVE  D!DNext
  <2>1. KeyState(k) = "claimed"
    BY <1>4 DEF Claimed, KeyState, Delivered, Safe, LiveUnique, Live
  <2>2. \A m \in Attempt : <<k, m>> \in LogId
    BY DEF LogId
  <2>3. \A m \in Attempt : status'[<<k, m>>] # "SENT"
    BY <1>4, <2>1, <2>2 DEF KeyState, Delivered
  <2>4. KeyState(k)' = "open"
    BY <1>4, <2>3 DEF Claimed, KeyState, Delivered
  <2>5. \A j \in Key \ {k} : KeyState(j)' = KeyState(j)
    BY <1>4, OneKey
  <2>6. \A j \in Key : Mailed(j)' = Mailed(j)
    BY <1>4 DEF Mailed
  <2>7. states' = [states EXCEPT ![k] = "open"] /\ mails' = mails
    BY <2>4, <2>5, <2>6
  <2>8. D!Reopen(k)
    BY <2>1, <2>7 DEF D!Reopen
  <2> QED
    BY <2>8 DEF D!DNext
<1>5. ASSUME NEW q \in Request, MarkFailed(q)
      PROVE  D!DNext
  <2>1. PICK k \in Key, n \in Attempt : k = KeyOf(q) /\ n = claim[q]
    BY <1>5, KeyType DEF MarkFailed, TypeOK
  <2>2. \A i \in LogId : status'[i] = IF i = <<k, n>> THEN "FAILED" ELSE status[i]
    BY <1>5, <2>1 DEF MarkFailed, RowOf, TypeOK
  <2>3. smtp' = smtp
    BY <1>5 DEF MarkFailed
  <2>4. status[<<k, n>>] = "PENDING"
    BY <1>5, <2>1 DEF AgedIsAbandoned, Holds, Safe, RowsInHand, MarkFailed, RowOf
  <2>5. Claimed(k)
    BY <2>4 DEF Claimed
  <2>6. ~ Claimed(k)'
    BY <2>2, <2>4 DEF Claimed, Safe, LiveUnique, Live, LogId
  <2> QED
    BY <1>4, <2>2, <2>3, <2>5, <2>6 DEF LogId
<1>6. ASSUME NEW q \in Request, ExpireStale(q)
      PROVE  D!DNext \/ UNCHANGED D!dvars
  <2>1. PICK k \in Key : k = KeyOf(q)
    BY <1>6, KeyType DEF ExpireStale
  <2>2. smtp' = smtp
    BY <1>6 DEF ExpireStale
  <2>3. \A i \in LogId : status'[i] = IF i \in stale[q] THEN "FAILED" ELSE status[i]
    BY <1>6 DEF ExpireStale
  <2>4. \A i \in stale[q] : i[1] = k /\ status[i] \in {"PENDING", "FAILED"}
    <3> SUFFICES ASSUME NEW i \in stale[q]
                 PROVE  i[1] = k /\ status[i] \in {"PENDING", "FAILED"}
      OBVIOUS
    <3>1. i[1] = k /\ status[i] # "absent"
      BY <2>1 DEF Safe, StaleRows
    <3>2. i \in LogId /\ status[i] # "SENT"
      BY DEF AgedIsAbandoned, TypeOK
    <3>3. status[i] \in {"absent", "PENDING", "SENT", "FAILED"}
      BY <3>2 DEF TypeOK
    <3> QED
      BY <3>1, <3>2, <3>3
  <2>5. CASE \E i \in stale[q] : status[i] = "PENDING"
    <3>1. PICK n \in Attempt : <<k, n>> \in stale[q] /\ status[<<k, n>>] = "PENDING"
      <4>1. PICK i \in stale[q] : status[i] = "PENDING"
        BY <2>5
      <4>2. i \in Key \X Attempt /\ i[1] = k
        BY <2>4 DEF TypeOK, LogId
      <4>3. i[2] \in Attempt /\ i = <<k, i[2]>>
        BY <4>2
      <4> QED
        BY <4>1, <4>3
    <3>2. Claimed(k)
      BY <3>1 DEF Claimed
    <3>3. ~ Claimed(k)'
      BY <2>3, <3>1 DEF Claimed, Safe, LiveUnique, Live, LogId
    <3>4. \A i \in LogId : status'[i] # status[i] => i[1] = k /\ status'[i] = "FAILED"
      BY <2>3, <2>4
    <3> QED
      BY <1>4, <2>2, <3>2, <3>3, <3>4
  <2>6. CASE \A i \in stale[q] : status[i] = "FAILED"
    <3>1. status' = status
      BY <1>6, <2>3, <2>6 DEF ExpireStale, TypeOK
    <3> QED
      BY <2>2, <3>1, Stutter
  <2> QED
    BY <2>4, <2>5, <2>6
<1>7. CASE UNCHANGED <<status, smtp>>
  BY <1>7, Stutter
<1> QED
  BY <1>1, <1>2, <1>3, <1>5, <1>6, <1>7
  DEF Next, Step, Start, Decline, SelectStale, SkipClaimed, MarkConflict, Answer,
      Crash, Age, vars

(* Without a slow send the ledger keeps the promise of Delivery: a report  *)
(* is claimed by one trigger at a time, confirmed only after its mail was  *)
(* accepted, and never claimed again once it is delivered.                 *)
THEOREM LedgerImplementsDelivery ==
  ASSUME "slow_send" \notin Fault
  PROVE  Spec => ImplementsDelivery
<1>1. Init => D!DInit
  BY ImplementsInit
<1>2. TypeOK /\ Safe /\ AgedIsAbandoned /\ [Next]_vars => [D!DNext]_(D!dvars)
  BY ImplementsStep
<1> QED
  BY <1>1, <1>2, Safety, AgedClaimsAreAbandoned, PTL
  DEF Spec, ImplementsDelivery, D!DSpec
=============================================================================
