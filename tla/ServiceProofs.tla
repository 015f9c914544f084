---------------------------- MODULE ServiceProofs ---------------------------
(***************************************************************************)
(* What holds of the services of the API for every instance: of the        *)
(* outbox, of the customer sessions and of the deployments, a part for     *)
(* each; no part uses another.                                             *)
(***************************************************************************)
EXTENDS Outbox, CustomerSessions, Deployment, FiniteSetTheorems, TLAPS

-----------------------------------------------------------------------------
(***************************************************************************)
(* What holds of the outbox for every number of events and replicas.       *)
(*                                                                         *)
(* The mails of an event are counted together with the mailers that may    *)
(* still send it and with the row that may still be claimed: a claim turns *)
(* the second into the first and a mail uses it up, so that only a failed  *)
(* update and a request for another mail add one.  The attempts of a row   *)
(* are counted with the failures that are not recorded yet.                *)
(***************************************************************************)

Statuses == {"NONE", "PENDING", "PROCESSING", "SENT", "FAILED"}
EventRow == [status : Statuses, attempts : Int, wait : Int]
Claims == UNION {[S -> Int] : S \in SUBSET Events}
MailerRow == [step : {"IDLE", "NEXT", "SENT", "ERROR", "LIMIT"}, sending : SUBSET Events,
              claimed : Claims, paused : Int]
Rows ==
    /\ row \in [Events -> EventRow]
    /\ mailer \in [Replicas -> MailerRow]
    /\ mails \in [Events -> Nat] /\ tried \in [Events -> Nat]
    /\ spent \in [limits : Nat, stops : Nat, resends : Nat]

\* A mailer sends an event that it holds.
SendsWhatItHolds ==
    \A r \in Replicas, e \in Events :
        At(r, "SENT", e) \/ At(r, "ERROR", e) \/ At(r, "LIMIT", e) => Holds(r, e)

\* The mailers that may still send e, those whose failure with e is not recorded,
\* and whether its row may still be claimed.
CanSend(e) == {r \in Replicas : Holds(r, e) /\ ~At(r, "SENT", e)}
Failing(e) == {r \in Replicas : Holds(r, e) /\ At(r, "ERROR", e)}
Claimable(e) == row[e].status \in {"NONE", "PENDING"}

MailsCounted(e) ==
    mails[e] + Cardinality(CanSend(e)) + (IF Claimable(e) THEN 1 ELSE 0)
        <= 1 + spent.stops + spent.resends
TriesCounted(e) ==
    /\ row[e].attempts + Cardinality(Failing(e)) <= tried[e] + (IF Claimable(e) THEN 0 ELSE 1)
    /\ Cardinality(Failing(e)) <= tried[e]
    /\ row[e].status = "FAILED" => tried[e] >= AttemptLimit
ClaimsCounted(e) ==
    \A r \in Replicas : Holds(r, e) =>
        mailer[r].claimed[e] <= tried[e] + (IF At(r, "ERROR", e) THEN 0 ELSE 1)

\* What no one asks for again has one holder, whose claim is the row's.
HeldOnce(e) ==
    ~Asked(e) =>
        /\ \A r \in Replicas : Holds(r, e) =>
              /\ row[e].status = "PROCESSING" /\ row[e].attempts <= AttemptLimit
              /\ mailer[r].claimed[e] = row[e].attempts
              /\ \A q \in Replicas : Holds(q, e) => q = r
        /\ row[e].status = "PENDING" => row[e].attempts < AttemptLimit

EventInv(e) == MailsCounted(e) /\ TriesCounted(e) /\ ClaimsCounted(e) /\ HeldOnce(e)
OutboxInv == Rows /\ SendsWhatItHolds /\ \A e \in Events : EventInv(e)
-----------------------------------------------------------------------------
(* Counting.                                                               *)

LEMMA Counts ==
    ASSUME OutboxAssumption, NEW e
    PROVE  /\ IsFiniteSet(CanSend(e)) /\ Cardinality(CanSend(e)) \in Nat
           /\ IsFiniteSet(Failing(e)) /\ Cardinality(Failing(e)) \in Nat
           /\ IsFiniteSet(CanSend(e)') /\ Cardinality(CanSend(e))' \in Nat
           /\ IsFiniteSet(Failing(e)') /\ Cardinality(Failing(e))' \in Nat
           /\ Cardinality(CanSend(e))' = Cardinality(CanSend(e)')
           /\ Cardinality(Failing(e))' = Cardinality(Failing(e)')
<1>1. IsFiniteSet(Replicas)
  BY DEF OutboxAssumption
<1>2. /\ CanSend(e) \subseteq Replicas /\ CanSend(e)' \subseteq Replicas
      /\ Failing(e) \subseteq Replicas /\ Failing(e)' \subseteq Replicas
  BY DEF CanSend, Failing
<1>3. /\ IsFiniteSet(CanSend(e)) /\ IsFiniteSet(CanSend(e)')
      /\ IsFiniteSet(Failing(e)) /\ IsFiniteSet(Failing(e)')
  BY <1>1, <1>2, FS_Subset
<1>4. /\ Cardinality(CanSend(e))' = Cardinality(CanSend(e)')
      /\ Cardinality(Failing(e))' = Cardinality(Failing(e)')
  OBVIOUS
<1> QED
  BY <1>3, <1>4, FS_CardinalityType

\* Sets that differ in r at most.
LEMMA CountOne ==
    ASSUME NEW S, NEW T, NEW r, IsFiniteSet(S), IsFiniteSet(T), S \ {r} = T \ {r}
    PROVE  /\ Cardinality(T) <= Cardinality(S) + 1
           /\ r \in S => Cardinality(T) <= Cardinality(S)
           /\ r \notin T => Cardinality(T) <= Cardinality(S)
           /\ r \in S /\ r \notin T => Cardinality(T) = Cardinality(S) - 1
<1>1. /\ IsFiniteSet(S \ {r}) /\ IsFiniteSet(T \ {r})
      /\ Cardinality(S \ {r}) = IF r \in S THEN Cardinality(S) - 1 ELSE Cardinality(S)
      /\ Cardinality(T \ {r}) = IF r \in T THEN Cardinality(T) - 1 ELSE Cardinality(T)
  BY FS_RemoveElement
<1>2. Cardinality(S) \in Nat /\ Cardinality(T) \in Nat
  BY FS_CardinalityType
<1>3. Cardinality(S \ {r}) = Cardinality(T \ {r})
  OBVIOUS
<1>4. CASE r \in S /\ r \in T
  BY <1>1, <1>2, <1>3, <1>4
<1>5. CASE r \in S /\ r \notin T
  BY <1>1, <1>2, <1>3, <1>5
<1>6. CASE r \notin S /\ r \in T
  BY <1>1, <1>2, <1>3, <1>6
<1>7. CASE r \notin S /\ r \notin T
  BY <1>1, <1>2, <1>3, <1>7
<1> QED
  BY <1>4, <1>5, <1>6, <1>7

\* A step of one mailer.
OnlyMailer(r) ==
    /\ mailer' \in [Replicas -> MailerRow]
    /\ \A q \in Replicas \ {r} : mailer'[q] = mailer[q]

LEMMA OneMailerCounts ==
    ASSUME OutboxAssumption, NEW r \in Replicas, NEW e, OnlyMailer(r)
    PROVE  /\ Cardinality(CanSend(e))' <= Cardinality(CanSend(e)) + 1
           /\ r \in CanSend(e) => Cardinality(CanSend(e))' <= Cardinality(CanSend(e))
           /\ r \notin CanSend(e)' => Cardinality(CanSend(e))' <= Cardinality(CanSend(e))
           /\ r \in CanSend(e) /\ r \notin CanSend(e)' =>
                 Cardinality(CanSend(e))' = Cardinality(CanSend(e)) - 1
           /\ Cardinality(Failing(e))' <= Cardinality(Failing(e)) + 1
           /\ r \notin Failing(e)' => Cardinality(Failing(e))' <= Cardinality(Failing(e))
           /\ r \in Failing(e) /\ r \notin Failing(e)' =>
                 Cardinality(Failing(e))' = Cardinality(Failing(e)) - 1
<1>1. CanSend(e) \ {r} = CanSend(e)' \ {r}
  BY DEF OnlyMailer, CanSend, Holds, At
<1>2. Failing(e) \ {r} = Failing(e)' \ {r}
  BY DEF OnlyMailer, Failing, Holds, At
<1> DEFINE S == CanSend(e)
           T == CanSend(e)'
           F == Failing(e)
           G == Failing(e)'
<1>3. IsFiniteSet(S) /\ IsFiniteSet(T) /\ IsFiniteSet(F) /\ IsFiniteSet(G)
  BY Counts
<1>4. /\ Cardinality(T) <= Cardinality(S) + 1
      /\ r \in S => Cardinality(T) <= Cardinality(S)
      /\ r \notin T => Cardinality(T) <= Cardinality(S)
      /\ r \in S /\ r \notin T => Cardinality(T) = Cardinality(S) - 1
  <2> HIDE DEF S, T
  <2> QED
    BY <1>1, <1>3, CountOne DEF S, T
<1>5. /\ Cardinality(G) <= Cardinality(F) + 1
      /\ r \notin G => Cardinality(G) <= Cardinality(F)
      /\ r \in F /\ r \notin G => Cardinality(G) = Cardinality(F) - 1
  <2> HIDE DEF F, G
  <2> QED
    BY <1>2, <1>3, CountOne DEF F, G
<1> QED
  BY <1>4, <1>5, Counts

\* An event that a step leaves alone: its mailers go on with it or drop it.
LeftAlone(f) ==
    /\ row'[f].status = row[f].status /\ row'[f].attempts = row[f].attempts
    /\ mails'[f] = mails[f] /\ tried'[f] = tried[f]
    /\ \A q \in Replicas : Holds(q, f)' =>
          /\ Holds(q, f) /\ mailer'[q].claimed[f] = mailer[q].claimed[f]
          /\ At(q, "ERROR", f)' <=> At(q, "ERROR", f)
          /\ At(q, "SENT", f) => At(q, "SENT", f)'

LEMMA OthersKept ==
    ASSUME OutboxAssumption, Rows, NEW f \in Events, EventInv(f), LeftAlone(f),
           spent'.stops \in Nat, spent'.resends \in Nat,
           spent'.stops + spent'.resends >= spent.stops + spent.resends
    PROVE  EventInv(f)'
<1>1. CanSend(f)' \subseteq CanSend(f) /\ Failing(f)' \subseteq Failing(f)
  BY DEF LeftAlone, CanSend, Failing
<1>2. /\ Cardinality(CanSend(f)') <= Cardinality(CanSend(f))
      /\ Cardinality(Failing(f)') <= Cardinality(Failing(f))
  BY <1>1, Counts, FS_Subset
<1>3. /\ Cardinality(CanSend(f))' <= Cardinality(CanSend(f))
      /\ Cardinality(Failing(f))' <= Cardinality(Failing(f))
      /\ Cardinality(CanSend(f)) \in Nat /\ Cardinality(Failing(f)) \in Nat
      /\ Cardinality(CanSend(f))' \in Nat /\ Cardinality(Failing(f))' \in Nat
  BY <1>2, Counts
<1>4. /\ mails[f] \in Nat /\ tried[f] \in Nat /\ row[f].attempts \in Int
      /\ spent.stops \in Nat /\ spent.resends \in Nat
  BY DEF Rows, EventRow
<1>5. Claimable(f)' <=> Claimable(f)
  BY DEF LeftAlone, Claimable
<1>6. MailsCounted(f)'
  BY <1>3, <1>4, <1>5 DEF EventInv, MailsCounted, LeftAlone
<1>7. TriesCounted(f)'
  BY <1>3, <1>4, <1>5 DEF EventInv, TriesCounted, LeftAlone
<1>8. ClaimsCounted(f)'
  BY DEF EventInv, ClaimsCounted, LeftAlone
<1>9. HeldOnce(f)'
  BY DEF EventInv, HeldOnce, LeftAlone, Asked
<1> QED
  BY <1>6, <1>7, <1>8, <1>9 DEF EventInv
-----------------------------------------------------------------------------
(* A turn of mailer r with the event e.                                    *)

TurnOf(r, e) ==
    /\ OnlyMailer(r)
    /\ spent'.stops \in Nat /\ spent'.resends \in Nat
    /\ spent'.stops + spent'.resends >= spent.stops + spent.resends
    /\ \A f \in Events \ {e} :
          /\ row'[f] = row[f] /\ mails'[f] = mails[f] /\ tried'[f] = tried[f]
          /\ Holds(r, f)' => Holds(r, f) /\ mailer'[r].claimed[f] = mailer[r].claimed[f]
          /\ ~At(r, "SENT", f) /\ ~At(r, "ERROR", f) /\ ~At(r, "ERROR", f)'

LEMMA OthersInTurn ==
    ASSUME OutboxAssumption, OutboxInv, NEW r \in Replicas, NEW e \in Events, TurnOf(r, e)
    PROVE  \A f \in Events \ {e} : EventInv(f)'
<1> SUFFICES ASSUME NEW f \in Events \ {e}
             PROVE  EventInv(f)'
  OBVIOUS
<1>1. ASSUME NEW q \in Replicas, Holds(q, f)'
      PROVE  /\ Holds(q, f) /\ mailer'[q].claimed[f] = mailer[q].claimed[f]
             /\ At(q, "ERROR", f)' <=> At(q, "ERROR", f)
             /\ At(q, "SENT", f) => At(q, "SENT", f)'
  <2>1. CASE q = r
    BY <1>1, <2>1 DEF TurnOf
  <2>2. CASE q # r
    BY <1>1, <2>2 DEF TurnOf, OnlyMailer, Holds, At
  <2> QED
    BY <2>1, <2>2
<1>2. LeftAlone(f)
  BY <1>1 DEF LeftAlone, TurnOf
<1>3. EventInv(f) /\ Rows
  BY DEF OutboxInv
<1> QED
  BY <1>2, <1>3, OthersKept DEF TurnOf

\* The mailer is done with e.
DoneWith(r, e) ==
    /\ OnlyMailer(r)
    /\ mailer'[r].step \in {"IDLE", "NEXT"} /\ mailer'[r].sending = {}
    /\ mailer'[r].claimed = Without(mailer[r].claimed, e)

LEMMA NextOfIsDone ==
    ASSUME Rows, NEW r \in Replicas, NEW e \in Events,
           \/ mailer' = [mailer EXCEPT ![r] = NextOf(@, e)]
           \/ mailer' = [mailer EXCEPT ![r] = [NextOf(@, e) EXCEPT !.paused = Cooldown]],
           Cooldown \in Nat
    PROVE  DoneWith(r, e)
<1> DEFINE m == mailer[r]
           c == Without(m.claimed, e)
           s == IF DOMAIN m.claimed = {e} THEN "IDLE" ELSE "NEXT"
<1>1. m \in MailerRow
  BY DEF Rows
<1>2. PICK S \in SUBSET Events : m.claimed \in [S -> Int]
  BY <1>1 DEF MailerRow, Claims
<1>3. c \in [S \ {e} -> Int]
  BY <1>2 DEF Without
<1>4. c \in Claims
  BY <1>3 DEF Claims
<1>5. s \in {"IDLE", "NEXT"}
  OBVIOUS
<1>6. NextOf(m, e) = [step |-> s, sending |-> {}, claimed |-> c, paused |-> m.paused]
  <2>1. NextOf(m, e) = [m EXCEPT !.claimed = c, !.sending = {}, !.step = s]
    BY DEF NextOf, MailerRow
  <2> HIDE DEF c, s, m
  <2> QED
    BY <1>1, <2>1 DEF MailerRow
<1>7. [NextOf(m, e) EXCEPT !.paused = Cooldown] =
          [step |-> s, sending |-> {}, claimed |-> c, paused |-> Cooldown]
  <2> HIDE DEF c, s, m
  <2> QED
    BY <1>6
<1>8. \/ mailer' = [mailer EXCEPT ![r] =
                [step |-> s, sending |-> {}, claimed |-> c, paused |-> m.paused]]
      \/ mailer' = [mailer EXCEPT ![r] =
                [step |-> s, sending |-> {}, claimed |-> c, paused |-> Cooldown]]
  BY <1>6, <1>7
<1> HIDE DEF c, s
<1>9. mailer \in [Replicas -> MailerRow] /\ m.paused \in Int
  BY <1>1 DEF Rows, MailerRow
<1>10. OnlyMailer(r)
  BY <1>4, <1>5, <1>8, <1>9 DEF OnlyMailer, MailerRow
<1>11. /\ mailer'[r].step = s /\ mailer'[r].sending = {} /\ mailer'[r].claimed = c
  BY <1>8, <1>9
<1> QED
  BY <1>5, <1>10, <1>11 DEF DoneWith, c

LEMMA DoneIsATurn ==
    ASSUME Rows, SendsWhatItHolds, NEW r \in Replicas, NEW e \in Events, DoneWith(r, e),
           mailer[r].step = "NEXT" \/ mailer[r].sending = {e}
    PROVE  /\ SendsWhatItHolds' /\ ~Holds(r, e)'
           /\ \A f \in Events \ {e} :
                 /\ Holds(r, f)' => Holds(r, f) /\ mailer'[r].claimed[f] = mailer[r].claimed[f]
                 /\ ~At(r, "SENT", f) /\ ~At(r, "ERROR", f) /\ ~At(r, "ERROR", f)'
<1>1. \A f \in Events : ~At(r, "SENT", f)' /\ ~At(r, "ERROR", f)' /\ ~At(r, "LIMIT", f)'
  BY DEF DoneWith, At
<1>2. \A f \in Events \ {e} : ~At(r, "SENT", f) /\ ~At(r, "ERROR", f)
  BY DEF At
<1>3. /\ DOMAIN mailer'[r].claimed = DOMAIN mailer[r].claimed \ {e}
      /\ \A f \in DOMAIN mailer[r].claimed \ {e} : mailer'[r].claimed[f] = mailer[r].claimed[f]
  BY DEF DoneWith, Without
<1>4. \A q \in Replicas \ {r} : mailer'[q] = mailer[q]
  BY DEF DoneWith, OnlyMailer
<1>5. SendsWhatItHolds'
  BY <1>1, <1>4 DEF SendsWhatItHolds, Holds, At
<1> QED
  BY <1>1, <1>2, <1>3, <1>5 DEF Holds

\* The mailer goes from `from' to the answer `step' for e.
AnswerTo(r, e, step) ==
    /\ OnlyMailer(r)
    /\ mailer'[r].step = step /\ mailer'[r].sending = {e}
    /\ mailer'[r].claimed = mailer[r].claimed

LEMMA AnswerIsATurn ==
    ASSUME Rows, SendsWhatItHolds, NEW r \in Replicas, NEW e \in Events,
           NEW step \in {"SENT", "ERROR", "LIMIT"}, AnswerTo(r, e, step), Holds(r, e),
           mailer[r].step = "NEXT" \/ mailer[r].sending = {e}
    PROVE  /\ SendsWhatItHolds' /\ Holds(r, e)' /\ At(r, step, e)'
           /\ \A f \in Events \ {e} :
                 /\ Holds(r, f)' => Holds(r, f) /\ mailer'[r].claimed[f] = mailer[r].claimed[f]
                 /\ ~At(r, "SENT", f) /\ ~At(r, "ERROR", f) /\ ~At(r, "ERROR", f)'
<1>1. \A f \in Events \ {e} : ~At(r, "SENT", f)' /\ ~At(r, "ERROR", f)' /\ ~At(r, "LIMIT", f)'
  BY DEF AnswerTo, At
<1>2. \A f \in Events \ {e} : ~At(r, "SENT", f) /\ ~At(r, "ERROR", f)
  BY DEF At
<1>3. Holds(r, e)' /\ At(r, step, e)'
  BY DEF AnswerTo, Holds, At
<1>4. \A q \in Replicas \ {r} : mailer'[q] = mailer[q]
  BY DEF AnswerTo, OnlyMailer
<1>5. SendsWhatItHolds'
  BY <1>1, <1>3, <1>4 DEF SendsWhatItHolds, Holds, At
<1> QED
  BY <1>1, <1>2, <1>3, <1>5 DEF Holds, AnswerTo
-----------------------------------------------------------------------------
(* The rest of the shop.                                                   *)

\* Nothing of the mailers changes, and e's row becomes a pending one.
LEMMA WriteKeeps ==
    ASSUME OutboxAssumption, OutboxInv, NEW e \in Events,
           Write(e) \/ ResendVerification(e)
    PROVE  OutboxInv'
<1>1. Rows /\ SendsWhatItHolds /\ EventInv(e)
  BY DEF OutboxInv
<1>2. row' = [row EXCEPT ![e] = pendingRow] /\ UNCHANGED <<mailer, mails, tried>>
  BY DEF Write, ResendVerification
<1>3. \/ UNCHANGED spent /\ row[e] = NoRow
      \/ /\ spent' = [spent EXCEPT !.resends = @ + 1]
         /\ Asked(e)
  BY DEF Write, ResendVerification, Asked
<1>4. spent \in [limits : Nat, stops : Nat, resends : Nat] /\ row \in [Events -> EventRow]
  BY <1>1 DEF Rows
<1>5. pendingRow \in EventRow
  BY DEF pendingRow, EventRow, Statuses
<1>6. /\ spent' \in [limits : Nat, stops : Nat, resends : Nat]
      /\ spent'.stops = spent.stops /\ spent'.resends \in Nat
      /\ spent'.resends >= spent.resends
      /\ (Asked(e) /\ spent'.resends = spent.resends + 1) \/ row[e] = NoRow
  <2>1. CASE UNCHANGED spent /\ row[e] = NoRow
    BY <1>4, <2>1
  <2>2. CASE spent' = [spent EXCEPT !.resends = @ + 1] /\ Asked(e)
    BY <1>4, <2>2
  <2> QED
    BY <1>3, <2>1, <2>2
<1>7. row' \in [Events -> EventRow] /\ row'[e] = pendingRow
  BY <1>2, <1>4, <1>5
<1>8. Rows'
  BY <1>1, <1>2, <1>6, <1>7 DEF Rows
<1>9. SendsWhatItHolds'
  BY <1>1, <1>2 DEF SendsWhatItHolds, At, Holds
<1>10. ASSUME NEW f \in Events \ {e}
       PROVE  EventInv(f)'
  <2>1. EventInv(f)
    BY DEF OutboxInv
  <2>2. LeftAlone(f)
    BY <1>2, <1>4 DEF LeftAlone, Holds, At
  <2>3. /\ spent'.stops \in Nat /\ spent'.resends \in Nat
        /\ spent'.stops + spent'.resends >= spent.stops + spent.resends
    BY <1>4, <1>6
  <2> QED
    BY <1>1, <2>1, <2>2, <2>3, OthersKept
<1>11. EventInv(e)'
  <2>1. /\ row'[e].status = "PENDING" /\ row'[e].attempts = 0
        /\ mails'[e] = mails[e] /\ tried'[e] = tried[e]
    BY <1>2, <1>7 DEF pendingRow
  <2>2. CanSend(e)' = CanSend(e) /\ Failing(e)' = Failing(e)
    BY <1>2 DEF CanSend, Failing, Holds, At
  <2>3. /\ Cardinality(CanSend(e))' = Cardinality(CanSend(e))
        /\ Cardinality(Failing(e))' = Cardinality(Failing(e))
        /\ Cardinality(CanSend(e)) \in Nat /\ Cardinality(Failing(e)) \in Nat
    BY <2>2, Counts
  <2>4. mails[e] \in Nat /\ tried[e] \in Nat /\ spent.stops \in Nat /\ spent.resends \in Nat
    BY <1>1 DEF Rows
  <2>5. MailsCounted(e)'
    <3>1. MailsCounted(e)
      BY <1>1 DEF EventInv
    <3>2. CASE row[e] = NoRow
      BY <1>6, <2>1, <2>3, <2>4, <3>1, <3>2 DEF MailsCounted, Claimable, NoRow
    <3>3. CASE spent'.resends = spent.resends + 1
      BY <1>6, <2>1, <2>3, <2>4, <3>1, <3>3 DEF MailsCounted, Claimable
    <3> QED
      BY <1>6, <3>2, <3>3
  <2>6. TriesCounted(e)'
    BY <1>1, <2>1, <2>3, <2>4 DEF EventInv, TriesCounted, Claimable
  <2>7. ClaimsCounted(e)'
    BY <1>1, <1>2 DEF EventInv, ClaimsCounted, Holds, At
  <2>8. HeldOnce(e)'
    <3>1. AttemptLimit \in Nat \ {0}
      BY DEF OutboxAssumption
    <3>2. ASSUME ~Asked(e), NEW r \in Replicas, Holds(r, e)'
          PROVE  FALSE
      <4>1. row[e].status = "NONE" /\ Holds(r, e)
        BY <1>2, <1>6, <3>2 DEF NoRow, Holds
      <4> QED
        BY <1>1, <3>2, <4>1 DEF EventInv, HeldOnce
    <3> QED
      BY <2>1, <3>1, <3>2 DEF HeldOnce, Asked
  <2> QED
    BY <2>5, <2>6, <2>7, <2>8 DEF EventInv
<1> QED
  BY <1>8, <1>9, <1>10, <1>11 DEF OutboxInv

\* A step that leaves every event alone.
LEMMA AllLeftAlone ==
    ASSUME OutboxAssumption, OutboxInv, Rows', SendsWhatItHolds',
           \A f \in Events : LeftAlone(f),
           spent'.stops + spent'.resends >= spent.stops + spent.resends
    PROVE  OutboxInv'
<1>1. spent'.stops \in Nat /\ spent'.resends \in Nat
  BY DEF Rows
<1>2. ASSUME NEW f \in Events
      PROVE  EventInv(f)'
  <2>1. EventInv(f) /\ LeftAlone(f) /\ Rows
    BY DEF OutboxInv
  <2> QED
    BY <1>1, <2>1, OthersKept
<1> QED
  BY <1>2 DEF OutboxInv

LEMMA TickKeeps ==
    ASSUME OutboxAssumption, OutboxInv, Tick
    PROVE  OutboxInv'
<1>1. Rows /\ SendsWhatItHolds
  BY DEF OutboxInv
<1>2. ASSUME NEW e \in Events
      PROVE  /\ row'[e] \in EventRow /\ row'[e].status = row[e].status
             /\ row'[e].attempts = row[e].attempts
  <2> DEFINE w == IF row[e].wait > 0 THEN row[e].wait - 1 ELSE 0
  <2>1. row[e] \in EventRow
    BY <1>1 DEF Rows
  <2>2. w \in Int
    BY <2>1 DEF EventRow
  <2>3. row'[e] = [row[e] EXCEPT !.wait = w]
    BY <2>1 DEF Tick, EventRow
  <2> HIDE DEF w
  <2> QED
    BY <2>1, <2>2, <2>3 DEF EventRow
<1>3. ASSUME NEW r \in Replicas
      PROVE  /\ mailer'[r] \in MailerRow /\ mailer'[r].step = mailer[r].step
             /\ mailer'[r].claimed = mailer[r].claimed
             /\ mailer'[r].sending = mailer[r].sending
  <2> DEFINE w == IF mailer[r].paused > 0 THEN mailer[r].paused - 1 ELSE 0
  <2>1. mailer[r] \in MailerRow
    BY <1>1 DEF Rows
  <2>2. w \in Int
    BY <2>1 DEF MailerRow
  <2>3. mailer'[r] = [mailer[r] EXCEPT !.paused = w]
    BY <2>1 DEF Tick, MailerRow
  <2> HIDE DEF w
  <2> QED
    BY <2>1, <2>2, <2>3 DEF MailerRow
<1>4. row' \in [Events -> EventRow] /\ mailer' \in [Replicas -> MailerRow]
  <2>1. row' = [e \in Events |-> row'[e]] /\ mailer' = [r \in Replicas |-> mailer'[r]]
    BY DEF Tick
  <2> QED
    BY <1>2, <1>3, <2>1
<1>5. UNCHANGED <<mails, tried, spent>>
  BY DEF Tick
<1>6. Rows'
  BY <1>1, <1>4, <1>5 DEF Rows
<1>7. SendsWhatItHolds'
  BY <1>1, <1>3 DEF SendsWhatItHolds, At, Holds
<1>8. ASSUME NEW f \in Events
      PROVE  LeftAlone(f)
  BY <1>2, <1>3, <1>5 DEF LeftAlone, Holds, At
<1>9. spent'.stops + spent'.resends >= spent.stops + spent.resends
  BY <1>1, <1>5 DEF Rows
<1> QED
  BY <1>6, <1>7, <1>8, <1>9, AllLeftAlone

\* A replica that stops, or whose process ends, drops what it held.
LEMMA DropKeeps ==
    ASSUME OutboxAssumption, OutboxInv, NEW r \in Replicas, Stop(r) \/ UpdateFails(r)
    PROVE  OutboxInv'
<1>1. Rows /\ SendsWhatItHolds
  BY DEF OutboxInv
<1>2. mailer \in [Replicas -> MailerRow] /\ mailer[r] \in MailerRow
  BY <1>1 DEF Rows
<1>3. <<>> \in Claims /\ DOMAIN <<>> = {}
  <2>1. <<>> \in [{} -> Int]
    OBVIOUS
  <2> QED
    BY <2>1 DEF Claims
<1>4. PICK w \in MailerRow :
         mailer' = [mailer EXCEPT ![r] = w] /\ w.step = "IDLE" /\ w.claimed = <<>>
  <2>1. CASE Stop(r)
    <3>1. waiting \in MailerRow /\ waiting.step = "IDLE" /\ waiting.claimed = <<>>
      BY <1>3 DEF waiting, MailerRow
    <3> QED
      BY <2>1, <3>1 DEF Stop
  <2>2. CASE UpdateFails(r)
    <3> DEFINE v(m, a, b, c, p) ==
                  [m EXCEPT !.step = a, !.claimed = b, !.sending = c, !.paused = p]
               w(p) == v(mailer[r], "IDLE", <<>>, {}, p)
    <3>1. ASSUME NEW m \in MailerRow, NEW a \in {"IDLE"}, NEW b \in Claims,
                 NEW c \in SUBSET Events, NEW p \in Int
          PROVE  /\ v(m, a, b, c, p) \in MailerRow /\ v(m, a, b, c, p).step = a
                 /\ v(m, a, b, c, p).claimed = b
      BY DEF MailerRow
    <3>2. ASSUME NEW p \in Int
          PROVE  w(p) \in MailerRow /\ w(p).step = "IDLE" /\ w(p).claimed = <<>>
      <4> HIDE DEF v
      <4>1. {} \in SUBSET Events /\ "IDLE" \in {"IDLE"}
        OBVIOUS
      <4> QED
        BY <1>2, <1>3, <3>1, <4>1
    <3>3. CASE mailer[r].step = "LIMIT"
      <4>1. mailer' = [mailer EXCEPT ![r] = [mailer[r] EXCEPT
                !.step = "IDLE", !.claimed = <<>>, !.sending = {}, !.paused = Cooldown]]
        BY <1>2, <2>2, <3>3 DEF UpdateFails, MailerRow
      <4>2. mailer' = [mailer EXCEPT ![r] = w(Cooldown)]
        BY <4>1
      <4>3. Cooldown \in Int
        BY DEF OutboxAssumption
      <4> QED
        BY <3>2, <4>2, <4>3
    <3>4. CASE mailer[r].step # "LIMIT"
      <4>1. mailer' = [mailer EXCEPT ![r] = [mailer[r] EXCEPT
                !.step = "IDLE", !.claimed = <<>>, !.sending = {},
                !.paused = mailer[r].paused]]
        BY <1>2, <2>2, <3>4 DEF UpdateFails, MailerRow
      <4>2. mailer' = [mailer EXCEPT ![r] = w(mailer[r].paused)]
        BY <4>1
      <4>3. mailer[r].paused \in Int
        BY <1>2 DEF MailerRow
      <4> QED
        BY <3>2, <4>2, <4>3
    <3> QED
      BY <3>3, <3>4
  <2> QED
    BY <2>1, <2>2
<1>5. /\ mailer' \in [Replicas -> MailerRow] /\ mailer'[r] = w
      /\ \A q \in Replicas \ {r} : mailer'[q] = mailer[q]
  BY <1>2, <1>4
<1>6. UNCHANGED <<row, mails, tried>> /\ spent' = [spent EXCEPT !.stops = @ + 1]
  BY DEF Stop, UpdateFails
<1>7. /\ spent' \in [limits : Nat, stops : Nat, resends : Nat]
      /\ spent'.stops + spent'.resends >= spent.stops + spent.resends
  BY <1>1, <1>6 DEF Rows
<1>8. Rows'
  BY <1>1, <1>5, <1>6, <1>7 DEF Rows
<1>9. \A f : /\ ~Holds(r, f)' /\ ~At(r, "SENT", f)'
             /\ ~At(r, "ERROR", f)' /\ ~At(r, "LIMIT", f)'
  BY <1>3, <1>4, <1>5 DEF Holds, At
<1>10. SendsWhatItHolds'
  BY <1>1, <1>5, <1>9 DEF SendsWhatItHolds, At, Holds
<1>11. ASSUME NEW f \in Events
       PROVE  LeftAlone(f)
  <2>1. ASSUME NEW q \in Replicas, Holds(q, f)'
        PROVE  /\ Holds(q, f) /\ mailer'[q].claimed[f] = mailer[q].claimed[f]
               /\ At(q, "ERROR", f)' <=> At(q, "ERROR", f)
               /\ At(q, "SENT", f) => At(q, "SENT", f)'
    <3>1. q # r
      BY <1>9, <2>1
    <3> QED
      BY <1>5, <2>1, <3>1 DEF Holds, At
  <2> QED
    BY <1>6, <2>1 DEF LeftAlone
<1> QED
  BY <1>7, <1>8, <1>10, <1>11, AllLeftAlone
-----------------------------------------------------------------------------
(* The mailer.                                                             *)

\* The facts about numbers that the turns below use.
LEMMA Numbers ==
    ASSUME Rows, NEW e \in Events
    PROVE  /\ mails[e] \in Nat /\ tried[e] \in Nat /\ row[e].attempts \in Int
           /\ spent.stops \in Nat /\ spent.resends \in Nat
           /\ \A r \in Replicas : Holds(r, e) => mailer[r].claimed[e] \in Int
<1>1. /\ mails[e] \in Nat /\ tried[e] \in Nat /\ row[e] \in EventRow
      /\ spent \in [limits : Nat, stops : Nat, resends : Nat]
  BY DEF Rows
<1>2. ASSUME NEW r \in Replicas, Holds(r, e)
      PROVE  mailer[r].claimed[e] \in Int
  <2>1. mailer[r].claimed \in Claims
    BY DEF Rows, MailerRow
  <2>2. PICK S \in SUBSET Events : mailer[r].claimed \in [S -> Int]
    BY <2>1 DEF Claims
  <2> QED
    BY <1>2, <2>2 DEF Holds
<1> QED
  BY <1>1, <1>2 DEF EventRow

LEMMA ProcessKeeps ==
    ASSUME OutboxAssumption, OutboxInv, NEW r \in Replicas, Process(r)
    PROVE  OutboxInv'
<1>1. Rows /\ SendsWhatItHolds
  BY DEF OutboxInv
<1>2. PICK es \in SUBSET Events :
         /\ \A e \in es : claimableRow(e)
         /\ row' = claimEvents(es)
         /\ mailer' = [mailer EXCEPT ![r].step = "NEXT",
                           ![r].claimed = [e \in es |-> row'[e].attempts]]
  BY DEF Process
<1>3. mailer[r].step = "IDLE" /\ UNCHANGED <<mails, tried, spent>>
  BY DEF Process
<1>4. row \in [Events -> EventRow] /\ mailer \in [Replicas -> MailerRow]
  BY <1>1 DEF Rows
<1>5. ASSUME NEW e \in Events
      PROVE  /\ row'[e] \in EventRow
             /\ e \in es => row'[e].status = "PROCESSING"
                            /\ row'[e].attempts = row[e].attempts + 1
             /\ e \notin es => row'[e] = row[e]
  <2>1. row[e] \in EventRow
    BY <1>4
  <2>2. CASE e \in es
    <3>1. row'[e] = [row[e] EXCEPT !.status = "PROCESSING", !.attempts = row[e].attempts + 1]
      BY <1>2, <2>1, <2>2 DEF claimEvents, EventRow
    <3>2. row[e].attempts + 1 \in Int /\ "PROCESSING" \in Statuses
      BY <2>1 DEF EventRow, Statuses
    <3>3. /\ row'[e].status = "PROCESSING" /\ row'[e].attempts = row[e].attempts + 1
          /\ row'[e] \in EventRow
      BY <2>1, <3>1, <3>2 DEF EventRow
    <3> QED
      BY <2>2, <3>3
  <2>3. CASE e \notin es
    BY <1>2, <2>1, <2>3 DEF claimEvents
  <2> QED
    BY <2>2, <2>3
<1>6. row' \in [Events -> EventRow]
  <2>1. row' = [e \in Events |-> row'[e]]
    BY <1>2 DEF claimEvents
  <2> QED
    BY <1>5, <2>1
<1> DEFINE c == [e \in es |-> row'[e].attempts]
<1>7. c \in [es -> Int]
  BY <1>5 DEF EventRow
<1>8. c \in Claims
  BY <1>7 DEF Claims
<1>9. /\ mailer' \in [Replicas -> MailerRow]
      /\ mailer'[r].step = "NEXT" /\ mailer'[r].claimed = c
      /\ \A q \in Replicas \ {r} : mailer'[q] = mailer[q]
  <2>1. mailer' = [mailer EXCEPT ![r].step = "NEXT", ![r].claimed = c]
    BY <1>2
  <2> HIDE DEF c
  <2> QED
    BY <1>4, <1>8, <2>1 DEF MailerRow
<1>10. Rows'
  BY <1>1, <1>3, <1>6, <1>9 DEF Rows
<1>11. /\ \A f : Holds(r, f)' <=> f \in es
       /\ \A f : /\ ~At(r, "SENT", f)' /\ ~At(r, "ERROR", f)' /\ ~At(r, "LIMIT", f)'
                 /\ ~At(r, "SENT", f) /\ ~At(r, "ERROR", f)
  BY <1>3, <1>9 DEF Holds, At
<1>12. SendsWhatItHolds'
  BY <1>1, <1>9, <1>11 DEF SendsWhatItHolds, At, Holds
<1>13. \A q \in Replicas \ {r}, f \in Events :
          /\ Holds(q, f)' <=> Holds(q, f)
          /\ At(q, "ERROR", f)' <=> At(q, "ERROR", f)
          /\ At(q, "SENT", f)' <=> At(q, "SENT", f)
          /\ mailer'[q].claimed[f] = mailer[q].claimed[f]
  BY <1>9 DEF Holds, At
<1>14. OnlyMailer(r)
  BY <1>9 DEF OnlyMailer
<1>15. ASSUME NEW f \in Events, f \notin es
       PROVE  EventInv(f)'
  <2>1. ASSUME NEW q \in Replicas, Holds(q, f)'
        PROVE  /\ Holds(q, f) /\ mailer'[q].claimed[f] = mailer[q].claimed[f]
               /\ At(q, "ERROR", f)' <=> At(q, "ERROR", f)
               /\ At(q, "SENT", f) => At(q, "SENT", f)'
    BY <1>11, <1>13, <1>15, <2>1
  <2>2. LeftAlone(f)
    BY <1>3, <1>5, <1>15, <2>1 DEF LeftAlone
  <2>3. /\ spent'.stops \in Nat /\ spent'.resends \in Nat /\ EventInv(f)
        /\ spent'.stops + spent'.resends >= spent.stops + spent.resends
    BY <1>1, <1>3, Numbers DEF OutboxInv
  <2> QED
    BY <1>1, <2>2, <2>3, OthersKept
<1>16. ASSUME NEW e \in es
       PROVE  EventInv(e)'
  <2>1. EventInv(e) /\ e \in Events
    BY DEF OutboxInv
  <2>2. /\ row[e].status = "PENDING" /\ row[e].attempts < AttemptLimit
        /\ row'[e].status = "PROCESSING" /\ row'[e].attempts = row[e].attempts + 1
        /\ mails'[e] = mails[e] /\ tried'[e] = tried[e] /\ spent' = spent
    BY <1>2, <1>3, <1>5, <2>1 DEF claimableRow
  <2>3. /\ Cardinality(CanSend(e))' <= Cardinality(CanSend(e)) + 1
        /\ Cardinality(CanSend(e)) \in Nat /\ Cardinality(CanSend(e))' \in Nat
    BY <1>14, OneMailerCounts, Counts
  <2>4. /\ Cardinality(Failing(e))' <= Cardinality(Failing(e))
        /\ Cardinality(Failing(e)) \in Nat /\ Cardinality(Failing(e))' \in Nat
    <3>1. r \notin Failing(e)'
      BY <1>11 DEF Failing
    <3> QED
      BY <1>14, <3>1, OneMailerCounts, Counts
  <2>5. /\ mails[e] \in Nat /\ tried[e] \in Nat /\ row[e].attempts \in Int
        /\ spent.stops \in Nat /\ spent.resends \in Nat
    BY <1>1, <2>1, Numbers
  <2>6. Claimable(e) /\ ~Claimable(e)'
    BY <2>2 DEF Claimable
  <2>7. MailsCounted(e)'
    BY <2>1, <2>2, <2>3, <2>5, <2>6 DEF EventInv, MailsCounted
  <2>8. row[e].attempts + Cardinality(Failing(e)) <= tried[e]
           /\ Cardinality(Failing(e)) <= tried[e]
    BY <2>1, <2>4, <2>5, <2>6 DEF EventInv, TriesCounted
  <2>9. TriesCounted(e)'
    BY <2>2, <2>4, <2>5, <2>6, <2>8 DEF TriesCounted
  <2>10. ClaimsCounted(e)'
    <3>1. ASSUME NEW q \in Replicas, Holds(q, e)'
          PROVE  mailer'[q].claimed[e] <= tried'[e] + (IF At(q, "ERROR", e)' THEN 0 ELSE 1)
      <4>1. CASE q = r
        <5>1. mailer'[q].claimed[e] = row[e].attempts + 1 /\ ~At(q, "ERROR", e)'
          BY <1>9, <1>11, <2>2, <4>1
        <5> QED
          BY <2>2, <2>4, <2>5, <2>8, <5>1
      <4>2. CASE q # r
        <5>1. /\ Holds(q, e) /\ mailer'[q].claimed[e] = mailer[q].claimed[e]
              /\ At(q, "ERROR", e)' <=> At(q, "ERROR", e)
          BY <1>13, <2>1, <3>1, <4>2
        <5> QED
          BY <2>1, <2>2, <5>1 DEF EventInv, ClaimsCounted
      <4> QED
        BY <4>1, <4>2
    <3> QED
      BY <3>1 DEF ClaimsCounted
  <2>11. HeldOnce(e)'
    <3> SUFFICES ASSUME ~Asked(e)
                 PROVE  /\ \A q \in Replicas : Holds(q, e)' =>
                              /\ row'[e].status = "PROCESSING"
                              /\ row'[e].attempts <= AttemptLimit
                              /\ mailer'[q].claimed[e] = row'[e].attempts
                              /\ \A p \in Replicas : Holds(p, e)' => p = q
                        /\ row'[e].status = "PENDING" => row'[e].attempts < AttemptLimit
      BY DEF HeldOnce, Asked
    <3>1. \A q \in Replicas : ~Holds(q, e)
      BY <2>1, <2>2 DEF EventInv, HeldOnce
    <3>2. \A q \in Replicas : Holds(q, e)' => q = r
      BY <1>13, <2>1, <3>1
    <3>3. mailer'[r].claimed[e] = row'[e].attempts
      BY <1>9
    <3>4. row'[e].attempts <= AttemptLimit
      <4>1. AttemptLimit \in Int
        BY DEF OutboxAssumption
      <4> QED
        BY <2>2, <2>5, <4>1
    <3> QED
      BY <2>2, <3>2, <3>3, <3>4
  <2> QED
    BY <2>7, <2>9, <2>10, <2>11 DEF EventInv
<1> QED
  BY <1>10, <1>12, <1>15, <1>16 DEF OutboxInv

\* What a turn that ends with a change of e's row leaves to be shown of e.
EndsWith(r, e) ==
    /\ DoneWith(r, e) /\ Holds(r, e)
    /\ mailer[r].step = "NEXT" \/ mailer[r].sending = {e}
    /\ row' \in [Events -> EventRow] /\ \A f \in Events \ {e} : row'[f] = row[f]
    /\ UNCHANGED <<mails, tried, spent>>

LEMMA EndCounts ==
    ASSUME OutboxAssumption, OutboxInv, NEW r \in Replicas, NEW e \in Events, EndsWith(r, e)
    PROVE  /\ Cardinality(CanSend(e)) \in Nat /\ Cardinality(CanSend(e))' \in Nat
           /\ Cardinality(Failing(e)) \in Nat /\ Cardinality(Failing(e))' \in Nat
           /\ Cardinality(CanSend(e))' <= Cardinality(CanSend(e))
           /\ ~At(r, "SENT", e) => Cardinality(CanSend(e))' = Cardinality(CanSend(e)) - 1
           /\ Cardinality(Failing(e))' <= Cardinality(Failing(e))
           /\ At(r, "ERROR", e) => Cardinality(Failing(e))' = Cardinality(Failing(e)) - 1
<1>1. ~Holds(r, e)' /\ Holds(r, e) /\ OnlyMailer(r)
  BY DoneIsATurn DEF EndsWith, DoneWith, OutboxInv
<1>2. r \notin CanSend(e)' /\ r \notin Failing(e)'
  BY <1>1 DEF CanSend, Failing
<1>3. /\ ~At(r, "SENT", e) => r \in CanSend(e)
      /\ At(r, "ERROR", e) => r \in Failing(e)
  BY <1>1 DEF CanSend, Failing
<1> QED
  BY <1>1, <1>2, <1>3, OneMailerCounts, Counts

LEMMA EndKeeps ==
    ASSUME OutboxAssumption, OutboxInv, NEW r \in Replicas, NEW e \in Events,
           EndsWith(r, e), MailsCounted(e)', TriesCounted(e)',
           ~Asked(e) => (row'[e].status = "PENDING" => row'[e].attempts < AttemptLimit)
    PROVE  OutboxInv'
<1>1. Rows /\ SendsWhatItHolds /\ EventInv(e)
  BY DEF OutboxInv
<1>2. /\ SendsWhatItHolds' /\ ~Holds(r, e)' /\ OnlyMailer(r)
      /\ \A f \in Events \ {e} :
            /\ Holds(r, f)' => Holds(r, f) /\ mailer'[r].claimed[f] = mailer[r].claimed[f]
            /\ ~At(r, "SENT", f) /\ ~At(r, "ERROR", f) /\ ~At(r, "ERROR", f)'
  BY <1>1, DoneIsATurn DEF EndsWith, DoneWith
<1>3. Rows'
  BY <1>1, <1>2 DEF Rows, EndsWith, OnlyMailer
<1>4. TurnOf(r, e)
  <2>1. /\ spent'.stops \in Nat /\ spent'.resends \in Nat
        /\ spent'.stops + spent'.resends >= spent.stops + spent.resends
    BY <1>1, Numbers DEF EndsWith
  <2>2. \A f \in Events \ {e} : mails'[f] = mails[f] /\ tried'[f] = tried[f]
    BY DEF EndsWith
  <2> QED
    BY <1>2, <2>1, <2>2 DEF TurnOf, EndsWith
<1>5. ASSUME NEW q \in Replicas, Holds(q, e)'
      PROVE  /\ q # r /\ Holds(q, e) /\ mailer'[q].claimed[e] = mailer[q].claimed[e]
             /\ At(q, "ERROR", e)' <=> At(q, "ERROR", e)
  <2>1. q # r
    BY <1>2, <1>5
  <2> QED
    BY <1>2, <1>5, <2>1 DEF OnlyMailer, Holds, At
<1>6. ClaimsCounted(e)'
  <2>1. ASSUME NEW q \in Replicas, Holds(q, e)'
        PROVE  mailer'[q].claimed[e] <= tried'[e] + (IF At(q, "ERROR", e)' THEN 0 ELSE 1)
    <3>1. /\ Holds(q, e) /\ mailer'[q].claimed[e] = mailer[q].claimed[e]
          /\ At(q, "ERROR", e)' <=> At(q, "ERROR", e)
      BY <1>5, <2>1
    <3>2. tried' = tried
      BY DEF EndsWith
    <3> QED
      BY <1>1, <3>1, <3>2 DEF EventInv, ClaimsCounted
  <2> QED
    BY <2>1 DEF ClaimsCounted
<1>7. HeldOnce(e)'
  <2>1. ASSUME ~Asked(e), NEW q \in Replicas, Holds(q, e)'
        PROVE  FALSE
    <3>1. q # r /\ Holds(q, e) /\ Holds(r, e)
      BY <1>5, <2>1 DEF EndsWith
    <3> QED
      BY <1>1, <2>1, <3>1 DEF EventInv, HeldOnce
  <2> QED
    BY <2>1 DEF HeldOnce, Asked
<1>8. EventInv(e)'
  BY <1>6, <1>7 DEF EventInv
<1>9. \A f \in Events \ {e} : EventInv(f)'
  BY <1>4, OthersInTurn
<1> QED
  BY <1>2, <1>3, <1>8, <1>9 DEF OutboxInv

\* The attempt goes back with the event: the pause that was on, or that begins.
LEMMA GiveBackKeeps ==
    ASSUME OutboxAssumption, OutboxInv, NEW r \in Replicas, NEW e \in Events,
           DeferClaimedEvent(r, e) \/ PauseSmtp(r, e)
    PROVE  OutboxInv'
<1>1. Rows /\ SendsWhatItHolds /\ EventInv(e)
  BY DEF OutboxInv
<1>2. row \in [Events -> EventRow] /\ row[e] \in EventRow /\ mailer[r] \in MailerRow
  BY <1>1 DEF Rows
<1>3. Cooldown \in Nat /\ AttemptLimit \in Nat
  BY DEF OutboxAssumption
<1>4. /\ row' \in [Events -> EventRow] /\ \A f \in Events \ {e} : row'[f] = row[f]
      /\ row'[e].status = "PENDING" /\ row'[e].attempts = row[e].attempts - 1
  <2> DEFINE v(w) == [row[e] EXCEPT !.status = "PENDING", !.attempts = row[e].attempts - 1,
                                    !.wait = w]
  <2>1. ASSUME NEW w \in Int
        PROVE  v(w) \in EventRow /\ v(w).status = "PENDING"
               /\ v(w).attempts = row[e].attempts - 1
    <3>1. row[e].attempts - 1 \in Int /\ "PENDING" \in Statuses
      BY <1>2 DEF EventRow, Statuses
    <3> QED
      BY <1>2, <3>1 DEF EventRow
  <2>2. PICK w \in Int : row' = [row EXCEPT ![e] = v(w)]
    <3>1. CASE DeferClaimedEvent(r, e)
      <4>1. mailer[r].paused \in Int
        BY <1>2 DEF MailerRow
      <4>2. row' = [row EXCEPT ![e] = v(mailer[r].paused)]
        BY <1>2, <3>1 DEF DeferClaimedEvent, deferred
      <4> HIDE DEF v
      <4> QED
        BY <4>1, <4>2
    <3>2. CASE PauseSmtp(r, e)
      <4>1. row' = [row EXCEPT ![e] = v(Cooldown)]
        BY <1>2, <3>2 DEF PauseSmtp, EventRow
      <4>2. Cooldown \in Int
        BY <1>3
      <4> HIDE DEF v
      <4> QED
        BY <4>1, <4>2
    <3> QED
      BY <3>1, <3>2
  <2> HIDE DEF v
  <2> QED
    BY <1>2, <2>1, <2>2
<1>5. EndsWith(r, e) /\ ~At(r, "SENT", e) /\ ~At(r, "ERROR", e)
  <2>1. CASE DeferClaimedEvent(r, e)
    <3>1. mailer[r].step = "NEXT" /\ Holds(r, e)
      BY <2>1 DEF DeferClaimedEvent
    <3>2. DoneWith(r, e)
      BY <1>1, <1>3, <2>1, NextOfIsDone DEF DeferClaimedEvent
    <3> QED
      BY <1>4, <2>1, <3>1, <3>2 DEF EndsWith, DeferClaimedEvent, At
  <2>2. CASE PauseSmtp(r, e)
    <3>1. At(r, "LIMIT", e) /\ Holds(r, e)
      BY <1>1, <2>2 DEF PauseSmtp, SendsWhatItHolds
    <3>2. DoneWith(r, e)
      BY <1>1, <1>3, <2>2, NextOfIsDone DEF PauseSmtp
    <3> QED
      BY <1>4, <2>2, <3>1, <3>2 DEF EndsWith, PauseSmtp, At
  <2> QED
    BY <2>1, <2>2
<1>6. /\ mails'[e] = mails[e] /\ tried'[e] = tried[e] /\ spent' = spent
      /\ mails[e] \in Nat /\ tried[e] \in Nat /\ row[e].attempts \in Int
      /\ spent.stops \in Nat /\ spent.resends \in Nat
  BY <1>1, <1>5, Numbers DEF EndsWith
<1>7. /\ Cardinality(CanSend(e)) \in Nat /\ Cardinality(CanSend(e))' \in Nat
      /\ Cardinality(Failing(e)) \in Nat /\ Cardinality(Failing(e))' \in Nat
      /\ Cardinality(CanSend(e))' = Cardinality(CanSend(e)) - 1
      /\ Cardinality(Failing(e))' <= Cardinality(Failing(e))
  BY <1>5, EndCounts
<1>8. Claimable(e)'
  BY <1>4 DEF Claimable
<1>9. MailsCounted(e)'
  <2>1. MailsCounted(e)
    BY <1>1 DEF EventInv
  <2> QED
    BY <1>6, <1>7, <1>8, <2>1 DEF MailsCounted
<1>10. TriesCounted(e)'
  <2>1. TriesCounted(e)
    BY <1>1 DEF EventInv
  <2> QED
    BY <1>4, <1>6, <1>7, <1>8, <2>1 DEF TriesCounted
<1>11. ASSUME ~Asked(e)
       PROVE  row'[e].attempts < AttemptLimit
  <2>1. row[e].attempts <= AttemptLimit
    BY <1>1, <1>5, <1>11 DEF EventInv, HeldOnce, EndsWith
  <2> QED
    BY <1>3, <1>4, <1>6, <2>1
<1> QED
  BY <1>5, <1>9, <1>10, <1>11, EndKeeps

LEMMA MarkSentKeeps ==
    ASSUME OutboxAssumption, OutboxInv, NEW r \in Replicas, NEW e \in Events, MarkSent(r, e)
    PROVE  OutboxInv'
<1>1. Rows /\ SendsWhatItHolds /\ EventInv(e) /\ Cooldown \in Nat
  BY DEF OutboxInv, OutboxAssumption
<1>2. row \in [Events -> EventRow] /\ row[e] \in EventRow
  BY <1>1 DEF Rows
<1>3. /\ row' \in [Events -> EventRow] /\ \A f \in Events \ {e} : row'[f] = row[f]
      /\ row'[e].status = "SENT" /\ row'[e].attempts = row[e].attempts
  <2>1. row' = [row EXCEPT ![e] = [row[e] EXCEPT !.status = "SENT"]]
    BY <1>2 DEF MarkSent, EventRow
  <2>2. [row[e] EXCEPT !.status = "SENT"] \in EventRow
    BY <1>2 DEF EventRow, Statuses
  <2> QED
    BY <1>2, <2>1, <2>2 DEF EventRow
<1>4. EndsWith(r, e)
  <2>1. At(r, "SENT", e) /\ Holds(r, e)
    BY <1>1 DEF MarkSent, SendsWhatItHolds
  <2>2. DoneWith(r, e)
    BY <1>1, NextOfIsDone DEF MarkSent
  <2> QED
    BY <1>3, <2>1, <2>2 DEF EndsWith, MarkSent, At
<1>5. /\ mails'[e] = mails[e] /\ tried'[e] = tried[e] /\ spent' = spent
      /\ mails[e] \in Nat /\ tried[e] \in Nat /\ row[e].attempts \in Int
      /\ spent.stops \in Nat /\ spent.resends \in Nat
  BY <1>1, <1>4, Numbers DEF EndsWith
<1>6. /\ Cardinality(CanSend(e)) \in Nat /\ Cardinality(CanSend(e))' \in Nat
      /\ Cardinality(Failing(e)) \in Nat /\ Cardinality(Failing(e))' \in Nat
      /\ Cardinality(CanSend(e))' <= Cardinality(CanSend(e))
      /\ Cardinality(Failing(e))' <= Cardinality(Failing(e))
  BY <1>4, EndCounts
<1>7. ~Claimable(e)'
  BY <1>3 DEF Claimable
<1>8. MailsCounted(e)'
  <2>1. MailsCounted(e)
    BY <1>1 DEF EventInv
  <2> QED
    BY <1>5, <1>6, <1>7, <2>1 DEF MailsCounted
<1>9. TriesCounted(e)'
  <2>1. TriesCounted(e)
    BY <1>1 DEF EventInv
  <2> QED
    BY <1>3, <1>5, <1>6, <1>7, <2>1 DEF TriesCounted
<1> QED
  BY <1>3, <1>4, <1>8, <1>9, EndKeeps

\* The wait of an event that failed is a number, whatever the power comes to.
LEMMA BackoffIsInt ==
    ASSUME OutboxAssumption, NEW n \in Int
    PROVE  backoff(n) \in Int
<1>1. MaxDelay \in Int
  BY DEF OutboxAssumption
<1>2. 2 ^ n \in Int
  OBVIOUS
<1> QED
  BY <1>1, <1>2 DEF backoff

LEMMA MarkFailedKeeps ==
    ASSUME OutboxAssumption, OutboxInv, NEW r \in Replicas, NEW e \in Events, MarkFailed(r, e)
    PROVE  OutboxInv'
<1>1. Rows /\ SendsWhatItHolds /\ EventInv(e) /\ Cooldown \in Nat /\ AttemptLimit \in Nat
  BY DEF OutboxInv, OutboxAssumption
<1>2. row \in [Events -> EventRow] /\ row[e] \in EventRow
  BY <1>1 DEF Rows
<1>3. At(r, "ERROR", e) /\ Holds(r, e)
  BY <1>1 DEF MarkFailed, SendsWhatItHolds
<1> DEFINE n == mailer[r].claimed[e]
           s == IF exhausted(n) THEN "FAILED" ELSE "PENDING"
           v(w) == [row[e] EXCEPT !.status = s, !.wait = w]
<1>4. n \in Int
  BY <1>1, <1>3, Numbers
<1>5. s \in Statuses
  BY DEF Statuses
<1>6. /\ row' \in [Events -> EventRow] /\ \A f \in Events \ {e} : row'[f] = row[f]
      /\ row'[e].status = s /\ row'[e].attempts = row[e].attempts
  <2>1. row' = [row EXCEPT ![e] = v(backoff(n))]
    BY <1>2 DEF MarkFailed, EventRow
  <2>2. backoff(n) \in Int
    BY <1>4, BackoffIsInt
  <2>3. ASSUME NEW w \in Int, NEW t \in Statuses
        PROVE  LET u == [row[e] EXCEPT !.status = t, !.wait = w]
               IN  u \in EventRow /\ u.status = t /\ u.attempts = row[e].attempts
    BY <1>2 DEF EventRow
  <2>4. /\ v(backoff(n)) \in EventRow /\ v(backoff(n)).status = s
        /\ v(backoff(n)).attempts = row[e].attempts
    <3> HIDE DEF s
    <3> QED
      BY <1>5, <2>2, <2>3
  <2> HIDE DEF v
  <2> QED
    BY <1>2, <2>1, <2>4
<1>7. EndsWith(r, e)
  <2>1. DoneWith(r, e)
    BY <1>1, NextOfIsDone DEF MarkFailed
  <2> HIDE DEF s
  <2> QED
    BY <1>3, <1>6, <2>1 DEF EndsWith, MarkFailed, At
<1>8. /\ mails'[e] = mails[e] /\ tried'[e] = tried[e] /\ spent' = spent
      /\ mails[e] \in Nat /\ tried[e] \in Nat /\ row[e].attempts \in Int
      /\ spent.stops \in Nat /\ spent.resends \in Nat
  BY <1>1, <1>7, Numbers DEF EndsWith
<1>9. /\ Cardinality(CanSend(e)) \in Nat /\ Cardinality(CanSend(e))' \in Nat
      /\ Cardinality(Failing(e)) \in Nat /\ Cardinality(Failing(e))' \in Nat
      /\ Cardinality(CanSend(e))' = Cardinality(CanSend(e)) - 1
      /\ Cardinality(Failing(e))' = Cardinality(Failing(e)) - 1
  <2>1. ~At(r, "SENT", e)
    BY <1>3 DEF At
  <2> QED
    BY <1>3, <1>7, <2>1, EndCounts
<1>10. MailsCounted(e)'
  <2>1. MailsCounted(e)
    BY <1>1 DEF EventInv
  <2> QED
    BY <1>8, <1>9, <2>1 DEF MailsCounted
<1>11. n <= tried[e]
  BY <1>1, <1>3, <1>8 DEF EventInv, ClaimsCounted
<1>12. s = "FAILED" => tried[e] >= AttemptLimit
  <2>1. s = "FAILED" => n >= AttemptLimit
    BY DEF exhausted
  <2> HIDE DEF s, n
  <2> QED
    BY <1>1, <1>4, <1>8, <1>11, <2>1
<1>13. TriesCounted(e)'
  <2>1. TriesCounted(e)
    BY <1>1 DEF EventInv
  <2> HIDE DEF s, n
  <2> QED
    BY <1>6, <1>8, <1>9, <1>12, <2>1 DEF TriesCounted
<1>14. ASSUME ~Asked(e), row'[e].status = "PENDING"
       PROVE  row'[e].attempts < AttemptLimit
  <2>1. n = row[e].attempts
    BY <1>1, <1>3, <1>14 DEF EventInv, HeldOnce
  <2>2. ~(n >= AttemptLimit)
    BY <1>6, <1>14 DEF exhausted
  <2> QED
    BY <1>1, <1>6, <1>8, <2>1, <2>2
<1> QED
  BY <1>7, <1>10, <1>13, <1>14, EndKeeps

\* What the mail server answers, or the failure of the update after the mail left.
LEMMA AnswerOf ==
    ASSUME Rows, NEW r \in Replicas, NEW e \in Events, NEW s \in {"SENT", "ERROR", "LIMIT"},
           mailer' = [mailer EXCEPT ![r].step = s, ![r].sending = {e}]
    PROVE  AnswerTo(r, e, s)
<1>1. mailer \in [Replicas -> MailerRow] /\ mailer[r] \in MailerRow
  BY DEF Rows
<1> DEFINE v == [mailer[r] EXCEPT !.step = s, !.sending = {e}]
<1>2. mailer' = [mailer EXCEPT ![r] = v]
  BY <1>1 DEF MailerRow
<1>3. s \in {"IDLE", "NEXT", "SENT", "ERROR", "LIMIT"} /\ {e} \in SUBSET Events
  OBVIOUS
<1>4. v \in MailerRow /\ v.step = s /\ v.sending = {e} /\ v.claimed = mailer[r].claimed
  BY <1>1, <1>3 DEF MailerRow
<1> HIDE DEF v
<1> QED
  BY <1>1, <1>2, <1>4 DEF AnswerTo, OnlyMailer

LEMMA AnswerKeeps ==
    ASSUME OutboxAssumption, OutboxInv, NEW r \in Replicas, NEW e \in Events,
           SendNotification(r, e) \/ MarkSentFails(r, e)
    PROVE  OutboxInv'
<1>1. Rows /\ SendsWhatItHolds /\ EventInv(e)
  BY DEF OutboxInv
<1>2. Holds(r, e) /\ (mailer[r].step = "NEXT" \/ mailer[r].sending = {e})
  BY <1>1 DEF SendNotification, MarkSentFails, SendsWhatItHolds, At
<1>3. /\ mails \in [Events -> Nat] /\ tried \in [Events -> Nat]
      /\ spent \in [limits : Nat, stops : Nat, resends : Nat]
  BY <1>1 DEF Rows
<1>4. PICK s \in {"SENT", "ERROR", "LIMIT"} :
         /\ mailer' = [mailer EXCEPT ![r].step = s, ![r].sending = {e}]
         /\ \/ /\ s = "SENT" /\ ~At(r, "SENT", e)
               /\ mails' = [mails EXCEPT ![e] = @ + 1] /\ UNCHANGED <<tried, spent>>
            \/ /\ s = "ERROR" /\ ~At(r, "SENT", e)
               /\ tried' = [tried EXCEPT ![e] = @ + 1] /\ UNCHANGED <<mails, spent>>
            \/ /\ s = "ERROR"
               /\ tried' = [tried EXCEPT ![e] = @ + 1] /\ UNCHANGED mails
               /\ spent' = [spent EXCEPT !.stops = @ + 1]
            \/ /\ s = "LIMIT" /\ ~At(r, "SENT", e)
               /\ spent' = [spent EXCEPT !.limits = @ + 1] /\ UNCHANGED <<mails, tried>>
  <2>1. CASE SendNotification(r, e)
    <3>1. ~At(r, "SENT", e)
      BY <2>1 DEF SendNotification, At
    <3> QED
      BY <2>1, <3>1 DEF SendNotification
  <2>2. CASE MarkSentFails(r, e)
    BY <2>2 DEF MarkSentFails
  <2> QED
    BY <2>1, <2>2
<1>5. AnswerTo(r, e, s)
  BY <1>1, <1>4, AnswerOf
<1>6. /\ SendsWhatItHolds' /\ Holds(r, e)' /\ At(r, s, e)'
      /\ \A f \in Events \ {e} :
            /\ Holds(r, f)' => Holds(r, f) /\ mailer'[r].claimed[f] = mailer[r].claimed[f]
            /\ ~At(r, "SENT", f) /\ ~At(r, "ERROR", f) /\ ~At(r, "ERROR", f)'
  BY <1>1, <1>2, <1>5, AnswerIsATurn
<1>7. OnlyMailer(r) /\ row' = row
  BY <1>5 DEF AnswerTo, SendNotification, MarkSentFails
<1>8. /\ mails' \in [Events -> Nat] /\ tried' \in [Events -> Nat]
      /\ spent' \in [limits : Nat, stops : Nat, resends : Nat]
      /\ spent'.stops \in Nat /\ spent'.stops >= spent.stops
      /\ spent'.resends = spent.resends
      /\ \A f \in Events \ {e} : mails'[f] = mails[f] /\ tried'[f] = tried[f]
  BY <1>3, <1>4
<1>9. Rows'
  BY <1>1, <1>7, <1>8 DEF Rows, OnlyMailer
<1>10. TurnOf(r, e)
  <2>1. /\ spent'.stops \in Nat /\ spent'.resends \in Nat
        /\ spent'.stops + spent'.resends >= spent.stops + spent.resends
    BY <1>3, <1>8
  <2> QED
    BY <1>6, <1>7, <1>8, <2>1 DEF TurnOf
<1>11. EventInv(e)'
  <2>1. /\ mails[e] \in Nat /\ tried[e] \in Nat /\ row[e].attempts \in Int
        /\ spent.stops \in Nat /\ spent.resends \in Nat
        /\ \A q \in Replicas : Holds(q, e) => mailer[q].claimed[e] \in Int
    BY <1>1, Numbers
  <2>2. /\ Cardinality(CanSend(e)) \in Nat /\ Cardinality(CanSend(e))' \in Nat
        /\ Cardinality(Failing(e)) \in Nat /\ Cardinality(Failing(e))' \in Nat
    BY Counts
  <2>3. MailsCounted(e) /\ TriesCounted(e) /\ ClaimsCounted(e) /\ HeldOnce(e)
    BY <1>1 DEF EventInv
  <2>4. Claimable(e)' <=> Claimable(e)
    BY <1>7 DEF Claimable
  <2>5. r \in CanSend(e)' <=> s # "SENT"
    BY <1>6 DEF CanSend, At
  <2>6. ~At(r, "SENT", e) => r \in CanSend(e)
    BY <1>2 DEF CanSend
  <2>7. s # "ERROR" => r \notin Failing(e)'
    BY <1>6 DEF Failing, At
  <2>8. MailsCounted(e)'
    <3>1. CASE s = "SENT"
      <4>1. ~At(r, "SENT", e) /\ mails'[e] = mails[e] + 1 /\ spent' = spent
        BY <1>3, <1>4, <3>1
      <4>2. Cardinality(CanSend(e))' = Cardinality(CanSend(e)) - 1
        BY <1>7, <2>5, <2>6, <3>1, <4>1, OneMailerCounts
      <4> QED
        BY <2>1, <2>2, <2>3, <2>4, <4>1, <4>2 DEF MailsCounted
    <3>2. CASE s # "SENT" /\ ~At(r, "SENT", e)
      <4>1. mails'[e] = mails[e]
        BY <1>4, <3>2
      <4>2. Cardinality(CanSend(e))' <= Cardinality(CanSend(e))
        BY <1>7, <2>6, <3>2, OneMailerCounts
      <4> QED
        BY <1>8, <2>1, <2>2, <2>3, <2>4, <4>1, <4>2 DEF MailsCounted
    <3>3. CASE s # "SENT" /\ At(r, "SENT", e)
      <4>1. mails'[e] = mails[e] /\ spent'.stops = spent.stops + 1
        BY <1>3, <1>4, <3>3
      <4>2. Cardinality(CanSend(e))' <= Cardinality(CanSend(e)) + 1
        BY <1>7, OneMailerCounts
      <4> QED
        BY <1>8, <2>1, <2>2, <2>3, <2>4, <4>1, <4>2 DEF MailsCounted
    <3> QED
      BY <3>1, <3>2, <3>3
  <2>9. TriesCounted(e)'
    <3>1. CASE s = "ERROR"
      <4>1. tried'[e] = tried[e] + 1
        BY <1>3, <1>4, <3>1
      <4>2. Cardinality(Failing(e))' <= Cardinality(Failing(e)) + 1
        BY <1>7, OneMailerCounts
      <4>3. row'[e].status = "FAILED" => tried'[e] >= AttemptLimit
        <5>1. AttemptLimit \in Int
          BY DEF OutboxAssumption
        <5> QED
          BY <1>7, <2>1, <2>3, <4>1, <5>1 DEF TriesCounted
      <4> QED
        BY <1>7, <2>1, <2>2, <2>3, <2>4, <4>1, <4>2, <4>3 DEF TriesCounted
    <3>2. CASE s # "ERROR"
      <4>1. tried'[e] = tried[e]
        BY <1>4, <3>2
      <4>2. Cardinality(Failing(e))' <= Cardinality(Failing(e))
        BY <1>7, <2>7, <3>2, OneMailerCounts
      <4> QED
        BY <1>7, <2>1, <2>2, <2>3, <2>4, <4>1, <4>2 DEF TriesCounted
    <3> QED
      BY <3>1, <3>2
  <2>10. \A q \in Replicas : /\ Holds(q, e)' <=> Holds(q, e)
                             /\ mailer'[q].claimed[e] = mailer[q].claimed[e]
    <3>1. ASSUME NEW q \in Replicas, q # r
          PROVE  mailer'[q] = mailer[q]
      BY <1>7, <3>1 DEF OnlyMailer
    <3> QED
      BY <1>2, <1>5, <1>6, <3>1 DEF AnswerTo, Holds
  <2>11. ClaimsCounted(e)'
    <3> SUFFICES ASSUME NEW q \in Replicas, Holds(q, e)'
                 PROVE  mailer'[q].claimed[e]
                            <= tried'[e] + (IF At(q, "ERROR", e)' THEN 0 ELSE 1)
      BY DEF ClaimsCounted
    <3>1. /\ Holds(q, e) /\ mailer'[q].claimed[e] = mailer[q].claimed[e]
          /\ mailer[q].claimed[e] \in Int
          /\ mailer[q].claimed[e] <= tried[e] + (IF At(q, "ERROR", e) THEN 0 ELSE 1)
      BY <2>1, <2>3, <2>10 DEF ClaimsCounted
    <3>2. tried'[e] = tried[e] \/ tried'[e] = tried[e] + 1
      BY <1>3, <1>4
    <3>3. CASE q = r
      <4>1. CASE s = "ERROR"
        <5>1. tried'[e] = tried[e] + 1
          BY <1>3, <1>4, <4>1
        <5> QED
          BY <2>1, <3>1, <5>1
      <4>2. CASE s # "ERROR"
        <5>1. ~At(q, "ERROR", e)'
          BY <1>6, <3>3, <4>2 DEF At
        <5> QED
          BY <2>1, <3>1, <3>2, <5>1
      <4> QED
        BY <4>1, <4>2
    <3>4. CASE q # r
      <4>1. At(q, "ERROR", e)' <=> At(q, "ERROR", e)
        BY <1>7, <3>4 DEF OnlyMailer, At
      <4>2. CASE At(q, "ERROR", e)
        BY <2>1, <3>1, <3>2, <4>1, <4>2
      <4>3. CASE ~At(q, "ERROR", e)
        BY <2>1, <3>1, <3>2, <4>1, <4>3
      <4> QED
        BY <4>2, <4>3
    <3> QED
      BY <3>3, <3>4
  <2>12. HeldOnce(e)'
    BY <1>7, <2>3, <2>10 DEF HeldOnce, Asked
  <2> QED
    BY <2>8, <2>9, <2>11, <2>12 DEF EventInv
<1> QED
  BY <1>6, <1>9, <1>10, <1>11, OthersInTurn DEF OutboxInv
-----------------------------------------------------------------------------
(* Every behaviour.                                                        *)

LEMMA OutboxStarts ==
    ASSUME OutboxAssumption, OutboxInit
    PROVE  OutboxInv
<1>1. <<>> \in Claims /\ DOMAIN <<>> = {}
  <2>1. <<>> \in [{} -> Int]
    OBVIOUS
  <2> QED
    BY <2>1 DEF Claims
<1>2. waiting \in MailerRow
  BY <1>1 DEF waiting, MailerRow
<1>3. NoRow \in EventRow
  BY DEF NoRow, EventRow, Statuses
<1>4. Rows
  BY <1>2, <1>3 DEF OutboxInit, Rows
<1>5. \A r \in Replicas : \A f :
          /\ ~Holds(r, f)
          /\ ~At(r, "SENT", f) /\ ~At(r, "ERROR", f) /\ ~At(r, "LIMIT", f)
  BY <1>1 DEF OutboxInit, Holds, At, waiting
<1>6. ASSUME NEW e \in Events
      PROVE  EventInv(e)
  <2>1. CanSend(e) = {} /\ Failing(e) = {}
    BY <1>5 DEF CanSend, Failing
  <2>2. Cardinality(CanSend(e)) = 0 /\ Cardinality(Failing(e)) = 0
    BY <2>1, FS_EmptySet
  <2>3. /\ row[e].status = "NONE" /\ row[e].attempts = 0 /\ mails[e] = 0 /\ tried[e] = 0
        /\ spent.stops = 0 /\ spent.resends = 0
    BY DEF OutboxInit, NoRow
  <2>4. MailsCounted(e)
    BY <2>2, <2>3 DEF MailsCounted, Claimable
  <2>5. TriesCounted(e)
    BY <2>2, <2>3 DEF TriesCounted, Claimable
  <2>6. ClaimsCounted(e) /\ HeldOnce(e)
    BY <1>5, <2>3 DEF ClaimsCounted, HeldOnce
  <2> QED
    BY <2>4, <2>5, <2>6 DEF EventInv
<1> QED
  BY <1>4, <1>5, <1>6 DEF OutboxInv, SendsWhatItHolds

LEMMA OutboxStep ==
    ASSUME OutboxAssumption, OutboxInv, [OutboxNext]_outboxVars
    PROVE  OutboxInv'
<1>1. CASE UNCHANGED outboxVars
  <2>1. Rows' /\ SendsWhatItHolds'
    BY <1>1 DEF outboxVars, OutboxInv, Rows, SendsWhatItHolds, At, Holds
  <2>2. ASSUME NEW f \in Events
        PROVE  LeftAlone(f)
    BY <1>1 DEF outboxVars, LeftAlone, Holds, At
  <2>3. spent'.stops + spent'.resends >= spent.stops + spent.resends
    BY <1>1 DEF outboxVars, OutboxInv, Rows
  <2> QED
    BY <2>1, <2>2, <2>3, AllLeftAlone
<1>2. ASSUME NEW e \in Events, Write(e) \/ ResendVerification(e)
      PROVE  OutboxInv'
  BY <1>2, WriteKeeps
<1>3. ASSUME NEW e \in Events, Outdate(e)
      PROVE  OutboxInv'
  <2>1. UNCHANGED <<row, mailer, mails, tried, spent>>
    BY <1>3 DEF Outdate
  <2>2. Rows' /\ SendsWhatItHolds'
    BY <2>1 DEF OutboxInv, Rows, SendsWhatItHolds, At, Holds
  <2>3. ASSUME NEW f \in Events
        PROVE  LeftAlone(f)
    BY <2>1 DEF LeftAlone, Holds, At
  <2>4. spent'.stops + spent'.resends >= spent.stops + spent.resends
    BY <2>1 DEF OutboxInv, Rows
  <2> QED
    BY <2>2, <2>3, <2>4, AllLeftAlone
<1>4. CASE Tick
  BY <1>4, TickKeeps
<1>5. ASSUME NEW r \in Replicas, MailerStep(r)
      PROVE  OutboxInv'
  <2>1. CASE Process(r)
    BY <2>1, ProcessKeeps
  <2>2. ASSUME NEW e \in Events, DeferClaimedEvent(r, e) \/ PauseSmtp(r, e)
        PROVE  OutboxInv'
    BY <2>2, GiveBackKeeps
  <2>3. ASSUME NEW e \in Events, SendNotification(r, e)
        PROVE  OutboxInv'
    BY <2>3, AnswerKeeps
  <2>4. ASSUME NEW e \in Events, MarkSent(r, e)
        PROVE  OutboxInv'
    BY <2>4, MarkSentKeeps
  <2>5. ASSUME NEW e \in Events, MarkFailed(r, e)
        PROVE  OutboxInv'
    BY <2>5, MarkFailedKeeps
  <2> QED
    BY <1>5, <2>1, <2>2, <2>3, <2>4, <2>5 DEF MailerStep
<1>6. ASSUME NEW r \in Replicas, Stop(r) \/ UpdateFails(r)
      PROVE  OutboxInv'
  BY <1>6, DropKeeps
<1>7. ASSUME NEW r \in Replicas, NEW e \in Events, MarkSentFails(r, e)
      PROVE  OutboxInv'
  BY <1>7, AnswerKeeps
<1> QED
  BY <1>1, <1>2, <1>3, <1>4, <1>5, <1>6, <1>7 DEF OutboxNext

LEMMA OutboxInvSays ==
    ASSUME OutboxAssumption, OutboxInv
    PROVE  EveryMailOnce
<1>1. Rows /\ \A e \in Events : EventInv(e)
  BY DEF OutboxInv
<1>2. ASSUME NEW e \in Events, ~Asked(e)
      PROVE  /\ Cardinality({r \in Replicas : Holds(r, e)}) <= 1
             /\ \A r \in Replicas : Holds(r, e) => row[e].status = "PROCESSING"
  <2>1. HeldOnce(e)
    BY <1>1 DEF EventInv
  <2>2. CASE \E r \in Replicas : Holds(r, e)
    <3>1. PICK r \in Replicas : Holds(r, e)
      BY <2>2
    <3>2. {q \in Replicas : Holds(q, e)} = {r}
      BY <1>2, <2>1, <3>1 DEF HeldOnce
    <3>3. Cardinality({q \in Replicas : Holds(q, e)}) = 1
      BY <3>2, FS_Singleton
    <3>4. \A q \in Replicas : Holds(q, e) => row[e].status = "PROCESSING"
      BY <1>2, <2>1 DEF HeldOnce
    <3> QED
      BY <3>3, <3>4
  <2>3. CASE ~\E r \in Replicas : Holds(r, e)
    <3>1. {q \in Replicas : Holds(q, e)} = {}
      BY <2>3
    <3>2. Cardinality({q \in Replicas : Holds(q, e)}) = 0
      BY <3>1, FS_EmptySet
    <3> QED
      BY <2>3, <3>2
  <2> QED
    BY <2>2, <2>3
<1>3. ASSUME NEW e \in Events
      PROVE  mails[e] <= 1 + spent.stops + spent.resends
  <2>1. MailsCounted(e)
    BY <1>1 DEF EventInv
  <2>2. Cardinality(CanSend(e)) \in Nat
    BY Counts
  <2>3. mails[e] \in Nat /\ spent.stops \in Nat /\ spent.resends \in Nat
    BY <1>1, Numbers
  <2> QED
    BY <2>1, <2>2, <2>3 DEF MailsCounted
<1>4. OneMailerEach
  BY <1>2 DEF OneMailerEach
<1>5. SentOnce
  BY <1>3 DEF SentOnce
<1>6. GivenUpAfterAllTries
  BY <1>1 DEF GivenUpAfterAllTries, EventInv, TriesCounted
<1>7. PendingIsClaimable
  BY <1>1 DEF PendingIsClaimable, EventInv, HeldOnce
<1> QED
  BY <1>4, <1>5, <1>6, <1>7 DEF EveryMailOnce

\* Whatever the replicas do to each other's claims, and however often they stop
\* or the server refuses: an event has one mailer, it is mailed once but for the
\* updates that failed, it is given up only after all of its tries failed, and
\* what waits can still be claimed.
THEOREM MailsLeaveOnce ==
    ASSUME OutboxAssumption
    PROVE  OutboxSpec => []EveryMailOnce
<1>1. OutboxInit => OutboxInv
  BY OutboxStarts
<1>2. OutboxInv /\ [OutboxNext]_outboxVars => OutboxInv'
  BY OutboxStep
<1>3. OutboxInv => EveryMailOnce
  BY OutboxInvSays
<1> QED
  BY <1>1, <1>2, <1>3, PTL DEF OutboxSpec

-----------------------------------------------------------------------------
(***************************************************************************)
(* What holds of the customer sessions for every number of tabs, browsers, *)
(* recovery links and requests.                                            *)
(*                                                                         *)
(* A refresh token is exchanged once because a token that was exchanged is *)
(* in no row any more, and a row's token tells its row: the two facts that *)
(* rotatable's second look at the row preserves.                           *)
(***************************************************************************)

\* The rows, and a request of a tab.
SessionRow == [token : Nat, live : BOOLEAN, expired : BOOLEAN, verified : Nat, born : Nat]
LinkRow == [made : BOOLEAN, used : BOOLEAN, expired : BOOLEAN, mailed : BOOLEAN, sets : Nat]
Calls == {"none", "refresh", "login", "logout", "register"}
RequestRow ==
    {r \in [call : Calls, step : {"none", "SENT", "READ", "DONE"}, sent : Nat,
            read : SUBSET Nat, result : Nat] :
        r.call = "refresh" => r.read \subseteq 1..MaxTokens}
TabRow == [status : {"loading", "anonymous", "authenticated"}, request : RequestRow]
SessionTables ==
    /\ account \in [password : Nat]
    /\ session \in [1..MaxTokens -> SessionRow]
    /\ tokens \in Nat
    /\ cookie \in [Browsers -> Nat]
    /\ tab \in [Tabs -> TabRow]
    /\ link \in [Links -> LinkRow]
    /\ resetter \in [Resetters -> SUBSET Links]
    /\ made \in [1..MaxTokens -> [from : Nat, session : Nat]]

\* The tabs whose request may still make a token: the bound leaves room for all.
MayMake(t) == Request(t).call \in {"login", "refresh"} /\ Request(t).step \in {"SENT", "READ"}
Makers == {t \in Tabs : MayMake(t)}
RoomForTokens == tokens + Cardinality(Makers) <= MaxTokens

\* What browsers and requests know: no token that was not made, a password that
\* was set, one recovery link.
OnlyKnownTokens ==
    /\ \A b \in Browsers : cookie[b] <= tokens
    /\ \A t \in Tabs : /\ Request(t).sent <= tokens /\ Request(t).result <= tokens
                       /\ Step(t, "login", "READ") =>
                             /\ Request(t).read # {}
                             /\ Request(t).read \subseteq 1..account.password
OneLinkEach == \A r \in Resetters : resetter[r] = {} \/ \E l \in Links : resetter[r] = {l}

\* A row's token was made for that row, and its password was set.
RowsTell ==
    \A s \in 1..MaxTokens : Stored(s) =>
        /\ session[s].token \in 1..tokens
        /\ made[session[s].token].session = s
        /\ session[s].verified \in 1..account.password

\* A token that is not made has no history yet, and no row has a token that was
\* exchanged.
FreshTokens ==
    \A n \in 1..MaxTokens : n > tokens => made[n] = [from |-> 0, session |-> n]
ExchangedIsGone ==
    \A n \in 1..tokens : made[n].from > 0 =>
        /\ made[n].from <= tokens
        /\ \A s \in 1..MaxTokens : session[s].token # made[n].from

\* A link that set a password is used up.
LinkSpent == \A l \in Links : link[l].sets <= IF link[l].used THEN 1 ELSE 0

\* What has to do with the rows of sessions, and what with the requests.
RowsInv == RowsTell /\ FreshTokens /\ ExchangedIsGone /\ ExchangedOnce /\ NoOldSession
RequestsInv == RoomForTokens /\ OnlyKnownTokens /\ OneLinkEach /\ LinkSpent
SessionsInv == SessionTables /\ RowsInv /\ RequestsInv
-----------------------------------------------------------------------------
(* The bound on tokens.                                                    *)

LEMMA MakersFinite ==
    ASSUME SessionsAssumption
    PROVE  /\ IsFiniteSet(Makers) /\ Cardinality(Makers) \in Nat
           /\ IsFiniteSet(Makers') /\ Cardinality(Makers)' \in Nat
           /\ IsFiniteSet({t \in Tabs : Busy(t)}) /\ Cardinality({t \in Tabs : Busy(t)}) \in Nat
<1>1. IsFiniteSet(Tabs)
  BY DEF SessionsAssumption
<1>2. Makers \subseteq Tabs /\ Makers' \subseteq Tabs /\ {t \in Tabs : Busy(t)} \subseteq Tabs
  BY DEF Makers
<1>3. IsFiniteSet(Makers) /\ IsFiniteSet(Makers') /\ IsFiniteSet({t \in Tabs : Busy(t)})
  BY <1>1, <1>2, FS_Subset
<1>4. Cardinality(Makers)' = Cardinality(Makers')
  OBVIOUS
<1> QED
  BY <1>3, <1>4, FS_CardinalityType

\* A request leaves with room for its token.
LEMMA RoomForOneMore ==
    ASSUME SessionsAssumption, SessionTables, TokensLeft, NEW t \in Tabs, ~Busy(t),
           Makers' \subseteq Makers \cup {t}
    PROVE  tokens + 1 <= MaxTokens /\ tokens + Cardinality(Makers)' <= MaxTokens
<1> DEFINE B == {u \in Tabs : Busy(u)}
<1>1. Makers \subseteq B
  BY DEF Makers, MayMake, Busy, Request, Idle
<1>2. t \notin B
  OBVIOUS
<1>3. IsFiniteSet(B) /\ Cardinality(B) \in Nat /\ Cardinality(Makers)' \in Nat
  BY MakersFinite
<1>4. IsFiniteSet(B \cup {t}) /\ Cardinality(B \cup {t}) = Cardinality(B) + 1
  BY <1>2, <1>3, FS_AddElement
<1>5. Makers' \subseteq B \cup {t}
  BY <1>1
<1>6. Cardinality(Makers') <= Cardinality(B \cup {t})
  BY <1>4, <1>5, FS_Subset
<1>7. tokens + Cardinality(B) < MaxTokens
  BY DEF TokensLeft
<1>8. tokens \in Nat /\ MaxTokens \in Nat
  BY DEF SessionTables, SessionsAssumption
<1> QED
  BY <1>3, <1>4, <1>6, <1>7, <1>8

\* The request that makes its token gives its room up.
LEMMA RoomUsed ==
    ASSUME SessionsAssumption, SessionTables, RoomForTokens, NEW t \in Makers,
           Makers' \subseteq Makers \ {t}
    PROVE  tokens + 1 <= MaxTokens /\ tokens + 1 + Cardinality(Makers)' <= MaxTokens
<1>1. IsFiniteSet(Makers) /\ Cardinality(Makers) \in Nat /\ Cardinality(Makers)' \in Nat
  BY MakersFinite
<1>2. IsFiniteSet(Makers \ {t}) /\ Cardinality(Makers \ {t}) = Cardinality(Makers) - 1
  BY <1>1, FS_RemoveElement
<1>3. Cardinality(Makers') <= Cardinality(Makers \ {t})
  BY <1>2, FS_Subset
<1>4. tokens \in Nat /\ MaxTokens \in Nat
  BY DEF SessionTables, SessionsAssumption
<1> QED
  BY <1>1, <1>2, <1>3, <1>4 DEF RoomForTokens

\* No other step takes room.
LEMMA RoomKept ==
    ASSUME SessionsAssumption, SessionTables, RoomForTokens, Makers' \subseteq Makers, tokens' = tokens
    PROVE  RoomForTokens'
<1>1. IsFiniteSet(Makers) /\ Cardinality(Makers) \in Nat /\ Cardinality(Makers)' \in Nat
  BY MakersFinite
<1>2. Cardinality(Makers') <= Cardinality(Makers)
  BY <1>1, FS_Subset
<1>3. tokens \in Nat /\ MaxTokens \in Nat
  BY DEF SessionTables, SessionsAssumption
<1> QED
  BY <1>1, <1>2, <1>3 DEF RoomForTokens

\* A registration makes its token at once.
LEMMA RoomToRegister ==
    ASSUME SessionsAssumption, SessionTables, TokensLeft, Makers' \subseteq Makers
    PROVE  tokens + 1 <= MaxTokens /\ tokens + 1 + Cardinality(Makers)' <= MaxTokens
<1> DEFINE B == {u \in Tabs : Busy(u)}
<1>1. Makers' \subseteq B
  BY DEF Makers, MayMake, Busy, Request, Idle
<1>2. IsFiniteSet(B) /\ Cardinality(B) \in Nat /\ Cardinality(Makers)' \in Nat
  BY MakersFinite
<1>3. Cardinality(Makers') <= Cardinality(B)
  BY <1>1, <1>2, FS_Subset
<1>4. tokens \in Nat /\ MaxTokens \in Nat /\ tokens + Cardinality(B) < MaxTokens
  BY DEF SessionTables, SessionsAssumption, TokensLeft
<1> QED
  BY <1>2, <1>3, <1>4
-----------------------------------------------------------------------------
(* Requests.                                                               *)

\* A step of one tab, or of the server for it.
OnlyTab(t) == tab' \in [Tabs -> TabRow] /\ \A u \in Tabs \ {t} : tab'[u] = tab[u]

LEMMA CallShape ==
    ASSUME SessionTables, SessionsAssumption, NEW name \in Calls, NEW t \in Tabs
    PROVE  /\ call(name, t) \in RequestRow
           /\ call(name, t).call = name /\ call(name, t).step = "SENT"
           /\ call(name, t).sent = cookie[browserOf[t]] /\ call(name, t).result = 0
<1>1. cookie[browserOf[t]] \in Nat
  BY DEF SessionTables, SessionsAssumption
<1>2. Idle \in RequestRow /\ Idle.result = 0 /\ Idle.read = {}
  BY DEF RequestRow, Idle, Calls
<1> DEFINE n == cookie[browserOf[t]]
<1>3. ASSUME NEW r \in RequestRow, r.read = {}, NEW m \in Nat
      PROVE  LET d == [r EXCEPT !.call = name, !.step = "SENT", !.sent = m]
             IN  /\ d \in RequestRow /\ d.call = name /\ d.step = "SENT"
                 /\ d.sent = m /\ d.result = r.result
  BY <1>3 DEF RequestRow
<1> QED
  BY <1>1, <1>2, <1>3 DEF call

LEMMA RequestType == ASSUME SessionTables, NEW t \in Tabs PROVE Request(t) \in RequestRow
BY DEF SessionTables, TabRow, Request

\* A request's answer, and what it has read.
LEMMA DoneRow ==
    ASSUME NEW r \in RequestRow, NEW n \in Nat
    PROVE  LET d == [r EXCEPT !.step = "DONE", !.result = n]
           IN  /\ d \in RequestRow /\ d.call = r.call /\ d.step = "DONE"
               /\ d.result = n /\ d.sent = r.sent
BY DEF RequestRow

LEMMA ReadRow ==
    ASSUME NEW r \in RequestRow, NEW x \in SUBSET Nat,
           r.call = "refresh" => x \subseteq 1..MaxTokens
    PROVE  LET d == [r EXCEPT !.step = "READ", !.read = x]
           IN  /\ d \in RequestRow /\ d.call = r.call /\ d.step = "READ"
               /\ d.read = x /\ d.sent = r.sent /\ d.result = r.result
BY DEF RequestRow

LEMMA SetShape ==
    ASSUME SessionTables, NEW t \in Tabs, NEW r \in RequestRow, SetRequest(t, r)
    PROVE  OnlyTab(t) /\ tab'[t].request = r
<1> DEFINE w == [tab[t] EXCEPT !.request = r]
<1>1. w \in TabRow /\ w.request = r
  BY DEF SessionTables, TabRow
<1>2. tab' = [tab EXCEPT ![t] = w]
  BY DEF SetRequest
<1> HIDE DEF w
<1> QED
  BY <1>1, <1>2 DEF OnlyTab, SessionTables

\* What browsers and requests know stays known.
LEMMA KnownStays ==
    ASSUME SessionsInv, NEW t \in Tabs, OnlyTab(t), tokens' \in Nat, tokens' >= tokens,
           account'.password = account.password,
           \A b \in Browsers : cookie'[b] <= tokens',
           tab'[t].request.sent <= tokens', tab'[t].request.result <= tokens',
           tab'[t].request.call = "login" /\ tab'[t].request.step = "READ" =>
               /\ tab'[t].request.read # {}
               /\ tab'[t].request.read \subseteq 1..account.password
    PROVE  OnlyKnownTokens'
<1>1. ASSUME NEW u \in Tabs
      PROVE  /\ tab'[u].request.sent <= tokens' /\ tab'[u].request.result <= tokens'
             /\ tab'[u].request.call = "login" /\ tab'[u].request.step = "READ" =>
                   /\ tab'[u].request.read # {}
                   /\ tab'[u].request.read \subseteq 1..account.password
  <2>1. CASE u = t
    BY <2>1
  <2>2. CASE u # t
    <3>1. tab'[u] = tab[u]
      BY <2>2 DEF OnlyTab
    <3>2. tab[u].request \in RequestRow
      BY DEF SessionsInv, SessionTables, TabRow
    <3>3. tab[u].request.sent \in Nat /\ tab[u].request.result \in Nat /\ tokens \in Nat
      BY <3>2 DEF RequestRow, SessionsInv, SessionTables
    <3>4. /\ tab[u].request.sent <= tokens /\ tab[u].request.result <= tokens
          /\ tab[u].request.call = "login" /\ tab[u].request.step = "READ" =>
                   /\ tab[u].request.read # {}
                   /\ tab[u].request.read \subseteq 1..account.password
      BY DEF SessionsInv, RequestsInv, OnlyKnownTokens, Step, Request
    <3> QED
      BY <3>1, <3>3, <3>4
  <2> QED
    BY <2>1, <2>2
<1> QED
  BY <1>1 DEF OnlyKnownTokens, Step, Request

\* The tabs that may make a token after a step of one tab.
LEMMA MakersAfter ==
    ASSUME NEW t \in Tabs, OnlyTab(t)
    PROVE  /\ Makers' \subseteq Makers \cup {t}
           /\ tab'[t].request.step \notin {"SENT", "READ"} => Makers' \subseteq Makers \ {t}
           /\ tab'[t].request.call \notin {"login", "refresh"} => Makers' \subseteq Makers \ {t}
           /\ t \in Makers => Makers' \subseteq Makers
BY DEF OnlyTab, Makers, MayMake, Request
-----------------------------------------------------------------------------
(* SessionTables.                                                                   *)

LEMMA RowsUntouched ==
    ASSUME RowsInv, UNCHANGED <<account, session, tokens, made>>
    PROVE  RowsInv'
BY DEF RowsInv, RowsTell, FreshTokens, ExchangedIsGone, ExchangedOnce,
       NoOldSession, Stored, Valid

\* SessionTables that end, expire or are deleted.
RowEnds(s) ==
    \/ session'[s] = NoSession
    \/ /\ Stored(s)
       /\ session'[s].token = session[s].token
       /\ session'[s].verified = session[s].verified
       /\ session'[s].born = session[s].born
       /\ session'[s].live => session[s].live
       /\ session[s].expired => session'[s].expired
    \/ session'[s] = session[s]
LEMMA EndedRows ==
    ASSUME SessionTables, RowsInv, UNCHANGED <<account, tokens, made>>,
           session' \in [1..MaxTokens -> SessionRow], \A s \in 1..MaxTokens : RowEnds(s)
    PROVE  RowsInv'
<1>1. \A s \in 1..MaxTokens : session'[s] # NoSession =>
          /\ Stored(s) /\ session'[s].token = session[s].token
          /\ session'[s].verified = session[s].verified /\ session'[s].born = session[s].born
          /\ session'[s].live /\ ~session'[s].expired => Valid(s)
  BY DEF RowEnds, Stored, Valid
<1>2. RowsTell'
  BY <1>1 DEF RowsInv, RowsTell, Stored
<1>3. FreshTokens' /\ ExchangedOnce'
  BY DEF RowsInv, FreshTokens, ExchangedOnce
<1>4. ExchangedIsGone'
  <2>1. \A s \in 1..MaxTokens : session'[s].token \in {session[s].token, 0}
    BY <1>1 DEF NoSession
  <2>2. \A n \in 1..tokens : made[n].from > 0 => made[n].from # 0
    OBVIOUS
  <2> QED
    BY <2>1, <2>2 DEF RowsInv, ExchangedIsGone
<1>5. NoOldSession'
  <2>1. DOMAIN session' = 1..MaxTokens /\ DOMAIN session = 1..MaxTokens
    BY DEF SessionTables
  <2> QED
    BY <1>1, <2>1 DEF RowsInv, NoOldSession, Stored, Valid
<1> QED
  BY <1>2, <1>3, <1>4, <1>5 DEF RowsInv
-----------------------------------------------------------------------------
(* Steps that change no row.                                               *)

\* A step that only moves a request keeps everything, if the request knows what
\* a request may know.
LEMMA TabStep ==
    ASSUME SessionsAssumption, SessionsInv, NEW t \in Tabs, OnlyTab(t),
           UNCHANGED <<account, session, tokens, link, resetter, made>>,
           cookie' \in [Browsers -> Nat], \A b \in Browsers : cookie'[b] <= tokens,
           tokens + Cardinality(Makers)' <= MaxTokens \/ Makers' \subseteq Makers,
           tab'[t].request.sent <= tokens, tab'[t].request.result <= tokens,
           tab'[t].request.call = "login" /\ tab'[t].request.step = "READ" =>
               /\ tab'[t].request.read # {}
               /\ tab'[t].request.read \subseteq 1..account.password
    PROVE  SessionsInv'
<1>1. SessionTables'
  BY DEF SessionsInv, SessionTables, OnlyTab
<1>2. RowsInv'
  BY RowsUntouched DEF SessionsInv
<1>3. tokens' \in Nat /\ tokens' >= tokens /\ account'.password = account.password
  BY DEF SessionsInv, SessionTables
<1>4. OnlyKnownTokens'
  BY <1>3, KnownStays
<1>5. RoomForTokens'
  <2>1. CASE Makers' \subseteq Makers
    BY <2>1, RoomKept DEF SessionsInv, RequestsInv
  <2>2. CASE tokens + Cardinality(Makers)' <= MaxTokens
    BY <2>2 DEF RoomForTokens
  <2> QED
    BY <2>1, <2>2
<1>6. OneLinkEach' /\ LinkSpent'
  BY DEF SessionsInv, RequestsInv, OneLinkEach, LinkSpent
<1> QED
  BY <1>1, <1>2, <1>4, <1>5, <1>6 DEF SessionsInv, RequestsInv

\* What the cookie and the requests hold, in the form TabStep asks for.
LEMMA Knowledge ==
    ASSUME SessionsAssumption, SessionsInv, NEW t \in Tabs
    PROVE  /\ tokens \in Nat /\ cookie \in [Browsers -> Nat]
           /\ \A b \in Browsers : cookie[b] <= tokens
           /\ browserOf[t] \in Browsers
           /\ Request(t) \in RequestRow
           /\ Request(t).sent <= tokens /\ Request(t).result <= tokens
           /\ Request(t).sent \in Nat /\ Request(t).result \in Nat
           /\ account.password \in Nat
           /\ tab[t].status \in {"loading", "anonymous", "authenticated"}
BY RequestType DEF SessionsInv, RequestsInv, OnlyKnownTokens, SessionTables, SessionsAssumption,
                   RequestRow, TabRow

LEMMA RequestLeaves ==
    ASSUME SessionsAssumption, SessionsInv, NEW t \in Tabs, ~Busy(t), NEW name \in Calls,
           name = "logout" \/ TokensLeft, SetRequest(t, call(name, t)),
           UNCHANGED <<account, session, tokens, cookie, link, resetter, made>>
    PROVE  SessionsInv'
<1>1. /\ call(name, t) \in RequestRow
      /\ call(name, t).call = name /\ call(name, t).step = "SENT"
      /\ call(name, t).sent = cookie[browserOf[t]] /\ call(name, t).result = 0
  BY CallShape DEF SessionsInv
<1>2. OnlyTab(t) /\ tab'[t].request = call(name, t)
  BY <1>1, SetShape DEF SessionsInv
<1>3. tokens + Cardinality(Makers)' <= MaxTokens \/ Makers' \subseteq Makers
  <2>1. CASE name = "logout"
    BY <1>1, <1>2, <2>1, MakersAfter
  <2>2. CASE TokensLeft
    BY <1>2, <2>2, MakersAfter, RoomForOneMore DEF SessionsInv
  <2> QED
    BY <2>1, <2>2
<1>4. tab'[t].request.sent <= tokens /\ tab'[t].request.result <= tokens
  BY <1>1, <1>2, Knowledge
<1>5. cookie' \in [Browsers -> Nat] /\ \A b \in Browsers : cookie'[b] <= tokens
  BY Knowledge
<1>6. tab'[t].request.call = "login" /\ tab'[t].request.step = "READ" =>
               /\ tab'[t].request.read # {}
               /\ tab'[t].request.read \subseteq 1..account.password
  BY <1>1, <1>2
<1> QED
  BY <1>2, <1>3, <1>4, <1>5, <1>6, TabStep

\* The request is over: answered or lost.
LEMMA RequestEnds ==
    ASSUME SessionsAssumption, SessionsInv, NEW t \in Tabs,
           NEW s \in {"loading", "anonymous", "authenticated"},
           tab' = [tab EXCEPT ![t] = [status |-> s, request |-> Idle]],
           cookie' \in [Browsers -> Nat], \A b \in Browsers : cookie'[b] <= tokens,
           UNCHANGED <<account, session, tokens, link, resetter, made>>
    PROVE  SessionsInv'
<1>1. [status |-> s, request |-> Idle] \in TabRow
  BY DEF TabRow, RequestRow, Idle, Calls
<1>2. OnlyTab(t) /\ tab'[t].request = Idle
  BY <1>1 DEF OnlyTab, SessionsInv, SessionTables
<1>3. Idle.sent = 0 /\ Idle.result = 0 /\ Idle.step = "none"
  BY DEF Idle
<1>4. Makers' \subseteq Makers
  BY <1>2, <1>3, MakersAfter
<1>5. tab'[t].request.sent <= tokens /\ tab'[t].request.result <= tokens
  BY <1>2, <1>3, Knowledge
<1>6. tab'[t].request.step # "READ"
  BY <1>2, <1>3
<1> QED
  BY <1>2, <1>4, <1>5, <1>6, TabStep

LEMMA AnswerStep ==
    ASSUME SessionsAssumption, SessionsInv, NEW t \in Tabs, Answer(t)
    PROVE  SessionsInv'
<1>1. afterAnswer(t, Request(t)) \in {"loading", "anonymous", "authenticated"}
  BY Knowledge DEF afterAnswer
<1>2. /\ cookieAfter(browserOf[t], Request(t)) \in Nat
      /\ cookieAfter(browserOf[t], Request(t)) <= tokens
  BY Knowledge DEF cookieAfter
<1>3. cookie' \in [Browsers -> Nat] /\ \A b \in Browsers : cookie'[b] <= tokens
  BY <1>2, Knowledge DEF Answer
<1> QED
  BY <1>1, <1>3, RequestEnds DEF Answer

LEMMA LoseStep ==
    ASSUME SessionsAssumption, SessionsInv, NEW t \in Tabs, Lose(t)
    PROVE  SessionsInv'
<1>1. lostStatus(t, Request(t)) \in {"loading", "anonymous", "authenticated"}
  BY Knowledge DEF lostStatus
<1>2. cookie' \in [Browsers -> Nat] /\ \A b \in Browsers : cookie'[b] <= tokens
  BY Knowledge DEF Lose
<1> QED
  BY <1>1, <1>2, RequestEnds DEF Lose

\* A request that is read or answered without a change of a row.
LEMMA ReadStep ==
    ASSUME SessionsAssumption, SessionsInv, NEW t \in Tabs, NEW r \in RequestRow,
           SetRequest(t, r), r.sent = Request(t).sent, r.call = Request(t).call,
           r.result <= tokens, Request(t).call \in {"login", "refresh"},
           Request(t).step \in {"SENT", "READ"},
           r.call = "login" /\ r.step = "READ" =>
               r.read # {} /\ r.read \subseteq 1..account.password,
           UNCHANGED <<account, session, tokens, cookie, link, resetter, made>>
    PROVE  SessionsInv'
<1>1. OnlyTab(t) /\ tab'[t].request = r
  BY SetShape DEF SessionsInv
<1>2. t \in Makers
  BY DEF Makers, MayMake
<1>3. Makers' \subseteq Makers
  BY <1>1, <1>2, MakersAfter
<1>4. tab'[t].request.sent <= tokens /\ tab'[t].request.result <= tokens
  BY <1>1, Knowledge
<1>5. cookie' \in [Browsers -> Nat] /\ \A b \in Browsers : cookie'[b] <= tokens
  BY Knowledge
<1>6. tab'[t].request.call = "login" /\ tab'[t].request.step = "READ" =>
               /\ tab'[t].request.read # {}
               /\ tab'[t].request.read \subseteq 1..account.password
  BY <1>1
<1> QED
  BY <1>1, <1>3, <1>4, <1>5, <1>6, TabStep

LEMMA ReadForLoginStep ==
    ASSUME SessionsAssumption, SessionsInv, NEW t \in Tabs, ReadForLogin(t)
    PROVE  SessionsInv'
<1>1. Request(t).call = "login" /\ Request(t).step = "SENT"
  BY DEF ReadForLogin, Step, Request
<1>2. CASE /\ account.password > 0
           /\ SetRequest(t, [Request(t) EXCEPT !.step = "READ", !.read = {account.password}])
  <2> DEFINE d == [Request(t) EXCEPT !.step = "READ", !.read = {account.password}]
  <2>1. {account.password} \in SUBSET Nat
    BY Knowledge
  <2>2. /\ d \in RequestRow /\ d.call = Request(t).call /\ d.step = "READ"
        /\ d.read = {account.password} /\ d.sent = Request(t).sent
        /\ d.result = Request(t).result
    BY <1>1, <2>1, Knowledge, ReadRow
  <2>3. d.read # {} /\ d.read \subseteq 1..account.password
    BY <1>2, <2>2, Knowledge
  <2>4. d.result <= tokens
    BY <2>2, Knowledge
  <2>5. SetRequest(t, d)
    BY <1>2
  <2> HIDE DEF d
  <2> QED
    BY <1>1, <2>2, <2>3, <2>4, <2>5, ReadStep DEF ReadForLogin
<1>3. CASE Done(t, 0)
  <2> DEFINE d == [Request(t) EXCEPT !.step = "DONE", !.result = 0]
  <2>1. /\ d \in RequestRow /\ d.call = Request(t).call /\ d.step = "DONE"
        /\ d.result = 0 /\ d.sent = Request(t).sent
    BY Knowledge, DoneRow
  <2>2. SetRequest(t, d) /\ d.result <= tokens
    BY <1>3, <2>1, Knowledge DEF Done
  <2> HIDE DEF d
  <2> QED
    BY <1>1, <2>1, <2>2, ReadStep DEF ReadForLogin
<1> QED
  BY <1>2, <1>3 DEF ReadForLogin

LEMMA ReadForRefreshStep ==
    ASSUME SessionsAssumption, SessionsInv, NEW t \in Tabs, ReadForRefresh(t)
    PROVE  SessionsInv'
<1> DEFINE found == {s \in SessionOf(Request(t).sent) : Valid(s)}
<1>1. Request(t).call = "refresh" /\ Request(t).step = "SENT"
  BY DEF ReadForRefresh, Step, Request
<1>2. found \in SUBSET Nat /\ found \subseteq 1..MaxTokens
  BY DEF SessionOf, SessionsInv, SessionTables, SessionsAssumption
<1>3. CASE SetRequest(t, [Request(t) EXCEPT !.step = "READ", !.read = found])
  <2> DEFINE d == [Request(t) EXCEPT !.step = "READ", !.read = found]
  <2>2. /\ d \in RequestRow /\ d.call = Request(t).call /\ d.step = "READ"
        /\ d.sent = Request(t).sent /\ d.result = Request(t).result
    BY <1>2, Knowledge, ReadRow
  <2>4. d.result <= tokens
    BY <2>2, Knowledge
  <2>5. SetRequest(t, d)
    BY <1>3
  <2> HIDE DEF d
  <2> QED
    BY <1>1, <2>2, <2>4, <2>5, ReadStep DEF ReadForRefresh
<1>4. CASE Done(t, 0)
  <2> DEFINE d == [Request(t) EXCEPT !.step = "DONE", !.result = 0]
  <2>1. /\ d \in RequestRow /\ d.call = Request(t).call /\ d.step = "DONE"
        /\ d.result = 0 /\ d.sent = Request(t).sent
    BY Knowledge, DoneRow
  <2>2. SetRequest(t, d) /\ d.result <= tokens
    BY <1>4, <2>1, Knowledge DEF Done
  <2> HIDE DEF d
  <2> QED
    BY <1>1, <2>1, <2>2, ReadStep DEF ReadForRefresh
<1> QED
  BY <1>3, <1>4 DEF ReadForRefresh
-----------------------------------------------------------------------------
(* Steps that change rows.                                                 *)

\* A new session: its token was never made before.
LEMMA FreshSession ==
    ASSUME SessionsAssumption, SessionTables, RowsInv, NEW entry \in SessionRow, tokens + 1 \in 1..MaxTokens,
           entry.token = tokens + 1, entry.born = account'.password,
           entry.verified \in 1..account'.password,
           account'.password = account.password \/ account.password = 0,
           session' = [session EXCEPT ![tokens + 1] = entry], tokens' = tokens + 1,
           made' = made
    PROVE  RowsInv' /\ session' \in [1..MaxTokens -> SessionRow]
<1>1. tokens \in Nat /\ session' \in [1..MaxTokens -> SessionRow] /\ MaxTokens \in Nat
  BY DEF SessionTables, SessionsAssumption
<1>2. /\ session'[tokens + 1] = entry
      /\ \A s \in 1..MaxTokens : s # tokens + 1 => session'[s] = session[s]
  BY DEF SessionTables
<1>3. made[tokens + 1] = [from |-> 0, session |-> tokens + 1]
  BY <1>1 DEF RowsInv, FreshTokens
<1>4. RowsTell'
  <2> SUFFICES ASSUME NEW s \in 1..MaxTokens, session'[s] # NoSession
               PROVE  /\ session'[s].token \in 1..(tokens + 1)
                      /\ made[session'[s].token].session = s
                      /\ session'[s].verified \in 1..account'.password
    BY DEF RowsTell, Stored
  <2>1. CASE s = tokens + 1
    BY <1>1, <1>2, <1>3, <2>1
  <2>2. CASE s # tokens + 1
    <3>1. session'[s] = session[s] /\ Stored(s)
      BY <1>2, <2>2 DEF Stored
    <3>2. /\ session[s].token \in 1..tokens /\ made[session[s].token].session = s
          /\ session[s].verified \in 1..account.password
      BY <3>1 DEF RowsInv, RowsTell
    <3>3. account'.password = account.password
      BY <3>2
    <3>4. session[s].token \in 1..(tokens + 1)
      BY <1>1, <3>2
    <3> QED
      BY <3>1, <3>2, <3>3, <3>4
  <2> QED
    BY <2>1, <2>2
<1>5. FreshTokens'
  BY <1>1 DEF RowsInv, FreshTokens
<1>6. ExchangedIsGone'
  <2> SUFFICES ASSUME NEW n \in 1..(tokens + 1), made[n].from > 0
               PROVE  /\ made[n].from <= tokens + 1
                      /\ \A s \in 1..MaxTokens : session'[s].token # made[n].from
    BY DEF ExchangedIsGone
  <2>1. n \in 1..tokens
    BY <1>1, <1>3
  <2>2. made[n].from \in Nat
    BY <1>1 DEF SessionTables
  <2>3. made[n].from <= tokens /\ \A s \in 1..MaxTokens : session[s].token # made[n].from
    BY <2>1 DEF RowsInv, ExchangedIsGone
  <2> QED
    BY <1>1, <1>2, <2>2, <2>3
<1>7. ExchangedOnce'
  <2> SUFFICES ASSUME NEW m \in 1..(tokens + 1), NEW n \in 1..(tokens + 1), m # n,
                      made[m].from > 0
               PROVE  made[m].from # made[n].from
    BY DEF ExchangedOnce
  <2>1. m \in 1..tokens
    BY <1>1, <1>3
  <2>2. CASE n = tokens + 1
    BY <1>3, <2>2
  <2>3. CASE n # tokens + 1
    <3>1. n \in 1..tokens
      BY <1>1, <2>3
    <3> QED
      BY <2>1, <3>1 DEF RowsInv, ExchangedOnce
  <2> QED
    BY <2>2, <2>3
<1>8. NoOldSession'
  <2>1. DOMAIN session = 1..MaxTokens /\ DOMAIN session' = 1..MaxTokens
    BY <1>1 DEF SessionTables
  <2> SUFFICES ASSUME NEW s \in 1..MaxTokens, session'[s] # NoSession,
                      session'[s].live, ~session'[s].expired
               PROVE  session'[s].born = account'.password
    BY <2>1 DEF NoOldSession, Stored, Valid
  <2>2. CASE s = tokens + 1
    BY <1>2, <2>2
  <2>3. CASE s # tokens + 1
    <3>1. session[s] # NoSession /\ Valid(s) /\ session'[s] = session[s]
      BY <1>2, <2>3 DEF Valid
    <3>2. session[s].verified \in 1..account.password
      BY <3>1 DEF RowsInv, RowsTell, Stored
    <3>3. account.password # 0
      BY <3>2
    <3> QED
      BY <2>1, <3>1, <3>3 DEF RowsInv, NoOldSession, Stored
  <2> QED
    BY <2>2, <2>3
<1> QED
  BY <1>1, <1>4, <1>5, <1>6, <1>7, <1>8 DEF RowsInv

\* A rotation: the one row that has the token gets one that was never made.
LEMMA RotatedRows ==
    ASSUME SessionsAssumption, SessionTables, RowsInv, tokens + 1 \in 1..MaxTokens, NEW token \in Nat,
           NEW found \in SUBSET (1..MaxTokens), found # {},
           \A s \in found : rotatable(s, token),
           session' = [s \in DOMAIN session |-> IF s \in found
                         THEN [session[s] EXCEPT !.token = tokens + 1] ELSE session[s]],
           made' = [made EXCEPT ![tokens + 1] =
                       [from |-> token, session |-> made[token].session]],
           tokens' = tokens + 1, account' = account
    PROVE  /\ RowsInv' /\ session' \in [1..MaxTokens -> SessionRow]
           /\ made' \in [1..MaxTokens -> [from : Nat, session : Nat]]
<1>0. tokens \in Nat /\ DOMAIN session = 1..MaxTokens /\ MaxTokens \in Nat
  BY DEF SessionTables, SessionsAssumption
<1>1. PICK o \in found : rotatable(o, token)
  OBVIOUS
<1>2. Stored(o) /\ session[o].token = token /\ Valid(o)
  BY <1>1 DEF rotatable, Stored, Valid, NoSession
<1>3. token \in 1..tokens /\ made[token].session = o
  BY <1>2 DEF RowsInv, RowsTell
<1>4. found = {o}
  BY <1>3 DEF rotatable, Stored, Valid, NoSession, RowsInv, RowsTell
<1> DEFINE entry == [session[o] EXCEPT !.token = tokens + 1]
<1>5. /\ entry \in SessionRow /\ entry.token = tokens + 1 /\ entry.verified = session[o].verified
      /\ entry.born = session[o].born /\ entry.live = session[o].live
      /\ entry.expired = session[o].expired
  <2>1. session[o] \in SessionRow /\ tokens + 1 \in Nat
    BY <1>0 DEF SessionTables
  <2> QED
    BY <2>1 DEF SessionRow
<1>6. /\ session' \in [1..MaxTokens -> SessionRow] /\ session'[o] = entry
      /\ \A s \in 1..MaxTokens : s # o => session'[s] = session[s]
  BY <1>0, <1>4, <1>5 DEF SessionTables
<1> HIDE DEF entry
<1>7. /\ made' \in [1..MaxTokens -> [from : Nat, session : Nat]]
      /\ made'[tokens + 1].from = token /\ made'[tokens + 1].session = o
      /\ \A n \in 1..MaxTokens : n # tokens + 1 => made'[n] = made[n]
  BY <1>3 DEF SessionTables
<1>8. tokens <= MaxTokens
  BY <1>0
<1>9. RowsTell'
  <2> SUFFICES ASSUME NEW s \in 1..MaxTokens, session'[s] # NoSession
               PROVE  /\ session'[s].token \in 1..(tokens + 1)
                      /\ made'[session'[s].token].session = s
                      /\ session'[s].verified \in 1..account.password
    BY DEF RowsTell, Stored
  <2>1. CASE s = o
    <3>1. session'[s].token = tokens + 1 /\ session'[s].verified = session[o].verified
      BY <1>5, <1>6, <2>1
    <3>2. made'[tokens + 1].session = s /\ tokens + 1 \in 1..(tokens + 1)
      BY <1>0, <1>7, <2>1
    <3>3. session[o].verified \in 1..account.password
      BY <1>2 DEF RowsInv, RowsTell
    <3> QED
      BY <3>1, <3>2, <3>3
  <2>2. CASE s # o
    <3>1. session'[s] = session[s] /\ Stored(s)
      BY <1>6, <2>2 DEF Stored
    <3>2. /\ session[s].token \in 1..tokens /\ made[session[s].token].session = s
          /\ session[s].verified \in 1..account.password
      BY <3>1 DEF RowsInv, RowsTell
    <3>3. made'[session[s].token] = made[session[s].token]
      BY <1>0, <1>7, <1>8, <3>2
    <3>4. session[s].token \in 1..(tokens + 1)
      BY <1>0, <3>2
    <3> QED
      BY <3>1, <3>2, <3>3, <3>4
  <2> QED
    BY <2>1, <2>2
<1>10. FreshTokens'
  BY <1>0, <1>7 DEF RowsInv, FreshTokens
<1>11. ExchangedIsGone'
  <2> SUFFICES ASSUME NEW n \in 1..(tokens + 1), made'[n].from > 0
               PROVE  /\ made'[n].from <= tokens + 1
                      /\ \A s \in 1..MaxTokens : session'[s].token # made'[n].from
    BY DEF ExchangedIsGone
  <2>1. CASE n = tokens + 1
    <3>1. made'[n].from = token
      BY <1>7, <2>1
    <3>2. ASSUME NEW s \in 1..MaxTokens, s # o, session[s].token = token PROVE FALSE
      <4>1. session[s] # NoSession
        BY <1>3, <3>2 DEF NoSession
      <4> QED
        BY <1>3, <3>2, <4>1 DEF RowsInv, RowsTell, Stored
    <3> QED
      BY <1>0, <1>3, <1>5, <1>6, <3>1, <3>2
  <2>2. CASE n # tokens + 1
    <3>1. n \in 1..tokens /\ made'[n] = made[n] /\ made[n].from \in Nat
      BY <1>0, <1>7, <1>8, <2>2 DEF SessionTables
    <3>2. made[n].from <= tokens /\ \A s \in 1..MaxTokens : session[s].token # made[n].from
      BY <3>1 DEF RowsInv, ExchangedIsGone
    <3> QED
      BY <1>0, <1>5, <1>6, <3>1, <3>2
  <2> QED
    BY <2>1, <2>2
<1>12. ExchangedOnce'
  <2>1. ASSUME NEW n \in 1..tokens, made[n].from > 0 PROVE made[n].from # token
    BY <1>2, <2>1 DEF RowsInv, ExchangedIsGone
  <2>2. \A n \in 1..tokens : made'[n] = made[n]
    BY <1>0, <1>7, <1>8
  <2> SUFFICES ASSUME NEW m \in 1..(tokens + 1), NEW n \in 1..(tokens + 1), m # n,
                      made'[m].from > 0
               PROVE  made'[m].from # made'[n].from
    BY DEF ExchangedOnce
  <2>3. CASE m = tokens + 1
    BY <1>0, <1>3, <1>7, <2>1, <2>2, <2>3
  <2>4. CASE n = tokens + 1
    BY <1>0, <1>7, <2>1, <2>2, <2>4
  <2>5. CASE m # tokens + 1 /\ n # tokens + 1
    BY <1>0, <2>2, <2>5 DEF RowsInv, ExchangedOnce
  <2> QED
    BY <2>3, <2>4, <2>5
<1>13. NoOldSession'
  <2>1. DOMAIN session' = 1..MaxTokens
    BY <1>6
  <2> SUFFICES ASSUME NEW s \in 1..MaxTokens, session'[s] # NoSession,
                      session'[s].live, ~session'[s].expired
               PROVE  session'[s].born = account.password
    BY <2>1 DEF NoOldSession, Stored, Valid
  <2>2. CASE s = o
    BY <1>0, <1>2, <1>5, <1>6, <2>2 DEF RowsInv, NoOldSession
  <2>3. CASE s # o
    BY <1>0, <1>6, <2>3 DEF RowsInv, NoOldSession, Stored, Valid
  <2> QED
    BY <2>2, <2>3
<1> QED
  BY <1>6, <1>7, <1>9, <1>10, <1>11, <1>12, <1>13 DEF RowsInv

\* A request that makes a token is answered with it.
LEMMA TokenAnswered ==
    ASSUME SessionsAssumption, SessionsInv, NEW t \in Tabs, NEW r \in RequestRow,
           SetRequest(t, r), r.step = "DONE", r.result = tokens + 1, r.sent <= tokens,
           tokens' = tokens + 1, tokens + 1 <= MaxTokens,
           tokens + 1 + Cardinality(Makers)' <= MaxTokens,
           SessionTables', RowsInv', UNCHANGED <<cookie, link, resetter>>,
           account'.password = account.password
           \/ \A u \in Tabs : ~Step(u, "login", "READ")
    PROVE  SessionsInv'
<1>1. OnlyTab(t) /\ tab'[t].request = r
  BY SetShape DEF SessionsInv
<1>2. tokens \in Nat /\ tokens' \in Nat /\ tokens' >= tokens
  BY Knowledge
<1>3. \A b \in Browsers : cookie'[b] <= tokens'
  BY <1>2, Knowledge
<1>4. tab'[t].request.sent <= tokens' /\ tab'[t].request.result <= tokens'
  <2>1. r.sent \in Nat /\ r.result \in Nat
    BY DEF RequestRow
  <2> QED
    BY <1>1, <1>2, <2>1
<1>5. OnlyKnownTokens'
  <2>1. CASE account'.password = account.password
    <3>1. tab'[t].request.call = "login" /\ tab'[t].request.step = "READ" =>
             /\ tab'[t].request.read # {}
             /\ tab'[t].request.read \subseteq 1..account.password
      BY <1>1
    <3> QED
      BY <1>1, <1>2, <1>3, <1>4, <2>1, <3>1, KnownStays
  <2>2. CASE \A u \in Tabs : ~Step(u, "login", "READ")
    <3>1. ASSUME NEW u \in Tabs
          PROVE  /\ tab'[u].request.sent <= tokens' /\ tab'[u].request.result <= tokens'
                 /\ ~(tab'[u].request.call = "login" /\ tab'[u].request.step = "READ")
      <4>1. CASE u = t
        BY <1>1, <1>4, <4>1
      <4>2. CASE u # t
        <5>1. tab'[u] = tab[u]
          BY <1>1, <4>2 DEF OnlyTab
        <5>2. /\ Request(u).sent <= tokens /\ Request(u).result <= tokens
              /\ Request(u).sent \in Nat /\ Request(u).result \in Nat
          BY Knowledge
        <5> QED
          BY <1>2, <2>2, <5>1, <5>2 DEF Request, Step
      <4> QED
        BY <4>1, <4>2
    <3> QED
      BY <1>3, <3>1 DEF OnlyKnownTokens, Step, Request
  <2> QED
    BY <2>1, <2>2
<1>6. RoomForTokens' /\ OneLinkEach' /\ LinkSpent'
  BY DEF RoomForTokens, SessionsInv, RequestsInv, OneLinkEach, LinkSpent
<1> QED
  BY <1>5, <1>6 DEF SessionsInv, RequestsInv

LEMMA RegisterStep ==
    ASSUME SessionsAssumption, SessionsInv, NEW t \in Tabs, Register(t)
    PROVE  SessionsInv'
<1> DEFINE r == [call("register", t) EXCEPT !.step = "DONE", !.result = tokens + 1]
           entry == [token |-> tokens + 1, live |-> TRUE, expired |-> FALSE,
                   verified |-> 1, born |-> 1]
<1>1. /\ call("register", t) \in RequestRow /\ call("register", t).sent <= tokens
      /\ call("register", t).call = "register"
  BY CallShape, Knowledge DEF SessionsInv, Calls
<1>2. tokens + 1 \in Nat /\ tokens \in Nat
  BY Knowledge
<1>3. /\ r \in RequestRow /\ r.step = "DONE" /\ r.result = tokens + 1 /\ r.sent <= tokens
      /\ r.call = "register"
  BY <1>1, <1>2, DoneRow
<1>4. SetRequest(t, r)
  BY DEF Register
<1> HIDE DEF r
<1>5. OnlyTab(t) /\ tab'[t].request = r
  BY <1>3, <1>4, SetShape DEF SessionsInv
<1>6. Makers' \subseteq Makers
  BY <1>3, <1>5, MakersAfter
<1>7. tokens + 1 <= MaxTokens /\ tokens + 1 + Cardinality(Makers)' <= MaxTokens
  BY <1>6, RoomToRegister DEF Register, SessionsInv
<1>8. MaxTokens \in Nat /\ tokens + 1 \in 1..MaxTokens
  BY <1>2, <1>7 DEF SessionsAssumption
<1>9. entry \in SessionRow /\ entry.token = tokens + 1 /\ entry.born = 1 /\ entry.verified = 1
  BY <1>2 DEF SessionRow
<1>10. /\ session' = [session EXCEPT ![tokens + 1] = entry] /\ tokens' = tokens + 1
       /\ made' = made /\ account' = [password |-> 1] /\ account.password = 0
  BY DEF Register
<1> HIDE DEF entry
<1>11. account'.password = 1 /\ entry.verified \in 1..account'.password
  BY <1>9, <1>10
<1>12. RowsInv' /\ session' \in [1..MaxTokens -> SessionRow]
  <2>1. entry.born = account'.password /\ (account'.password = account.password \/ account.password = 0)
    BY <1>9, <1>10, <1>11
  <2> QED
    BY <1>8, <1>9, <1>10, <1>11, <2>1, FreshSession DEF SessionsInv
<1>13. SessionTables'
  BY <1>2, <1>5, <1>10, <1>12 DEF SessionTables, SessionsInv, OnlyTab, Register
<1>14. \A u \in Tabs : ~Step(u, "login", "READ")
  <2>1. ASSUME NEW u \in Tabs, Step(u, "login", "READ") PROVE FALSE
    <3>1. Request(u).read # {} /\ Request(u).read \subseteq 1..account.password
      BY <2>1 DEF SessionsInv, RequestsInv, OnlyKnownTokens
    <3>2. 1..account.password = {}
      BY <1>10
    <3> QED
      BY <3>1, <3>2
  <2> QED
    BY <2>1
<1> QED
  BY <1>3, <1>4, <1>7, <1>10, <1>12, <1>13, <1>14, TokenAnswered DEF Register

LEMMA IssueSessionStep ==
    ASSUME SessionsAssumption, SessionsInv, NEW t \in Tabs, IssueSession(t)
    PROVE  SessionsInv'
<1> DEFINE r == [Request(t) EXCEPT !.step = "DONE", !.result = tokens + 1]
           p == CHOOSE q \in Request(t).read : TRUE
           entry == [token |-> tokens + 1, live |-> TRUE, expired |-> FALSE,
                   verified |-> p, born |-> account.password]
<1>1. tokens + 1 \in Nat /\ tokens \in Nat /\ account.password \in Nat
  BY Knowledge
<1>2. /\ Request(t) \in RequestRow /\ Request(t).sent <= tokens
      /\ Request(t).call = "login" /\ Request(t).step = "READ"
  BY Knowledge DEF IssueSession, Step, Request
<1>3. /\ r \in RequestRow /\ r.step = "DONE" /\ r.result = tokens + 1 /\ r.sent <= tokens
  BY <1>1, <1>2, DoneRow
<1>4. SetRequest(t, r)
  BY DEF IssueSession, Done
<1> HIDE DEF r
<1>5. OnlyTab(t) /\ tab'[t].request = r
  BY <1>3, <1>4, SetShape DEF SessionsInv
<1>6. t \in Makers /\ Makers' \subseteq Makers \ {t}
  BY <1>2, <1>3, <1>5, MakersAfter DEF Makers, MayMake
<1>7. tokens + 1 <= MaxTokens /\ tokens + 1 + Cardinality(Makers)' <= MaxTokens
  BY <1>6, RoomUsed DEF SessionsInv, RequestsInv
<1>8. MaxTokens \in Nat /\ tokens + 1 \in 1..MaxTokens
  BY <1>1, <1>7 DEF SessionsAssumption
<1>9. p \in 1..account.password
  <2>1. Request(t).read # {} /\ Request(t).read \subseteq 1..account.password
    BY <1>2 DEF SessionsInv, RequestsInv, OnlyKnownTokens, Step, Request
  <2> QED
    BY <2>1
<1> HIDE DEF p
<1>10. /\ entry \in SessionRow /\ entry.token = tokens + 1 /\ entry.born = account.password
       /\ entry.verified = p
  BY <1>1, <1>9 DEF SessionRow
<1>11. /\ session' = [session EXCEPT ![tokens + 1] = entry] /\ tokens' = tokens + 1
       /\ made' = made /\ account' = account
  BY DEF IssueSession, p
<1> HIDE DEF entry
<1>12. RowsInv' /\ session' \in [1..MaxTokens -> SessionRow]
  <2>1. entry.born = account'.password /\ entry.verified \in 1..account'.password
    BY <1>9, <1>10, <1>11
  <2> QED
    BY <1>8, <1>10, <1>11, <2>1, FreshSession DEF SessionsInv
<1>13. SessionTables'
  BY <1>1, <1>5, <1>11, <1>12 DEF SessionTables, SessionsInv, OnlyTab, IssueSession
<1> QED
  BY <1>3, <1>4, <1>7, <1>11, <1>12, <1>13, TokenAnswered DEF IssueSession

LEMMA RotateStep ==
    ASSUME SessionsAssumption, SessionsInv, NEW t \in Tabs, Rotate(t)
    PROVE  SessionsInv'
<1> DEFINE token == Request(t).sent
           found == {s \in Request(t).read : rotatable(s, token)}
<1>1. /\ Request(t) \in RequestRow /\ token <= tokens /\ token \in Nat
      /\ Request(t).call = "refresh" /\ Request(t).step = "READ"
  BY Knowledge DEF Rotate, Step, Request
<1>2. found \in SUBSET (1..MaxTokens)
  BY <1>1 DEF RequestRow
<1>3. CASE found = {}
  <2> DEFINE r == [Request(t) EXCEPT !.step = "DONE", !.result = 0]
  <2>1. /\ r \in RequestRow /\ r.call = Request(t).call /\ r.step = "DONE"
        /\ r.result = 0 /\ r.sent = Request(t).sent
    BY <1>1, DoneRow
  <2>2. SetRequest(t, r) /\ UNCHANGED <<session, tokens, made>>
    BY <1>3 DEF Rotate, Done
  <2>3. r.result <= tokens
    BY <2>1, Knowledge
  <2> HIDE DEF r, found
  <2> QED
    BY <1>1, <2>1, <2>2, <2>3, ReadStep DEF Rotate
<1>4. CASE found # {}
  <2> DEFINE r == [Request(t) EXCEPT !.step = "DONE", !.result = tokens + 1]
  <2>1. tokens + 1 \in Nat /\ tokens \in Nat
    BY Knowledge
  <2>2. /\ r \in RequestRow /\ r.step = "DONE" /\ r.result = tokens + 1 /\ r.sent <= tokens
    BY <1>1, <2>1, DoneRow
  <2>3. /\ SetRequest(t, r) /\ tokens' = tokens + 1
        /\ session' = [s \in DOMAIN session |-> IF s \in found
                         THEN [session[s] EXCEPT !.token = tokens + 1] ELSE session[s]]
        /\ made' = [made EXCEPT ![tokens + 1] =
                       [from |-> token, session |-> made[token].session]]
    BY <1>4 DEF Rotate, Done
  <2>4. \A s \in found : rotatable(s, token)
    OBVIOUS
  <2> HIDE DEF r, found
  <2>5. OnlyTab(t) /\ tab'[t].request = r
    BY <2>2, <2>3, SetShape DEF SessionsInv
  <2>6. t \in Makers /\ Makers' \subseteq Makers \ {t}
    BY <1>1, <2>2, <2>5, MakersAfter DEF Makers, MayMake
  <2>7. tokens + 1 <= MaxTokens /\ tokens + 1 + Cardinality(Makers)' <= MaxTokens
    BY <2>6, RoomUsed DEF SessionsInv, RequestsInv
  <2>8. tokens + 1 \in 1..MaxTokens
    BY <2>1, <2>7 DEF SessionsAssumption
  <2>9. account' = account
    BY DEF Rotate
  <2>10. /\ RowsInv' /\ session' \in [1..MaxTokens -> SessionRow]
         /\ made' \in [1..MaxTokens -> [from : Nat, session : Nat]]
    BY <1>1, <1>2, <1>4, <2>3, <2>4, <2>8, <2>9, RotatedRows DEF SessionsInv
  <2>11. SessionTables'
    BY <2>1, <2>3, <2>5, <2>9, <2>10 DEF SessionTables, SessionsInv, OnlyTab, Rotate
  <2> QED
    BY <2>2, <2>3, <2>7, <2>9, <2>10, <2>11, TokenAnswered DEF Rotate
<1> QED
  BY <1>3, <1>4
-----------------------------------------------------------------------------
(* Steps that end sessions, and the recovery links.                        *)

\* A row whose session is revoked or expires.
LEMMA RowChange ==
    ASSUME NEW w \in SessionRow, NEW x \in BOOLEAN
    PROVE  /\ [w EXCEPT !.live = x] \in SessionRow
           /\ [w EXCEPT !.live = x].token = w.token
           /\ [w EXCEPT !.live = x].verified = w.verified
           /\ [w EXCEPT !.live = x].born = w.born
           /\ [w EXCEPT !.live = x].live = x
           /\ [w EXCEPT !.live = x].expired = w.expired
           /\ [w EXCEPT !.expired = x] \in SessionRow
           /\ [w EXCEPT !.expired = x].token = w.token
           /\ [w EXCEPT !.expired = x].verified = w.verified
           /\ [w EXCEPT !.expired = x].born = w.born
           /\ [w EXCEPT !.expired = x].live = w.live
           /\ [w EXCEPT !.expired = x].expired = x
BY DEF SessionRow

LEMMA NoSessionRow == NoSession \in SessionRow /\ [NoSession EXCEPT !.live = FALSE] = NoSession
<1>1. NoSession \in SessionRow
  BY DEF NoSession, SessionRow
<1>2. NoSession = [f \in DOMAIN NoSession |-> NoSession[f]] /\ NoSession.live = FALSE
  BY DEF NoSession
<1>3. ASSUME NEW w, w = [f \in DOMAIN w |-> w[f]], w.live = FALSE
      PROVE  [w EXCEPT !.live = FALSE] = w
  BY <1>3
<1> QED
  BY <1>1, <1>2, <1>3

\* Sessions end and nothing else changes but what browsers are shown.
LEMMA SessionsEnd ==
    ASSUME SessionsAssumption, SessionsInv, SessionTables', \A s \in 1..MaxTokens : RowEnds(s),
           UNCHANGED <<account, tokens, made, link, resetter>>, OnlyKnownTokens',
           Makers' \subseteq Makers
    PROVE  SessionsInv'
<1>1. RowsInv'
  BY EndedRows DEF SessionsInv, SessionTables
<1>2. RoomForTokens'
  BY RoomKept DEF SessionsInv, RequestsInv
<1>3. OneLinkEach' /\ LinkSpent'
  BY DEF SessionsInv, RequestsInv, OneLinkEach, LinkSpent
<1> QED
  BY <1>1, <1>2, <1>3 DEF SessionsInv, RequestsInv

LEMMA AllRevokedRows ==
    ASSUME SessionTables, session' = allRevoked(session)
    PROVE  /\ session' \in [1..MaxTokens -> SessionRow]
           /\ \A s \in 1..MaxTokens : /\ RowEnds(s) /\ ~session'[s].live
                                      /\ Stored(s)' => Stored(s)
                                      /\ session'[s].token = session[s].token
                                      /\ session'[s].verified = session[s].verified
<1>1. DOMAIN session = 1..MaxTokens
  BY DEF SessionTables
<1>2. \A s \in 1..MaxTokens : session'[s] = [session[s] EXCEPT !.live = FALSE]
  BY <1>1 DEF allRevoked
<1>3. session' \in [1..MaxTokens -> SessionRow]
  <2>1. \A s \in 1..MaxTokens : [session[s] EXCEPT !.live = FALSE] \in SessionRow
    BY RowChange DEF SessionTables
  <2> QED
    BY <1>1, <2>1 DEF allRevoked
<1>4. ASSUME NEW s \in 1..MaxTokens
      PROVE  /\ RowEnds(s) /\ ~session'[s].live
             /\ Stored(s)' => Stored(s)
             /\ session'[s].token = session[s].token
             /\ session'[s].verified = session[s].verified
  <2> DEFINE w == session[s]
             x == session'[s]
  <2>1. w \in SessionRow /\ x = [w EXCEPT !.live = FALSE]
    BY <1>2 DEF SessionTables
  <2>2. /\ x.token = w.token /\ x.verified = w.verified /\ x.born = w.born
        /\ ~x.live /\ x.expired = w.expired
    BY <2>1, RowChange
  <2>3. w = NoSession => x = NoSession
    BY <2>1, NoSessionRow
  <2> QED
    BY <2>2, <2>3 DEF RowEnds, Stored
<1> QED
  BY <1>3, <1>4

LEMMA RevokeStep ==
    ASSUME SessionsAssumption, SessionsInv, NEW t \in Tabs, Revoke(t)
    PROVE  SessionsInv'
<1> DEFINE r == [Request(t) EXCEPT !.step = "DONE", !.result = 0]
           gone == SessionOf(Request(t).sent)
<1>1. /\ r \in RequestRow /\ r.call = Request(t).call /\ r.step = "DONE"
      /\ r.result = 0 /\ r.sent = Request(t).sent
  BY Knowledge, DoneRow
<1>2. SetRequest(t, r)
  BY DEF Revoke, Done
<1> HIDE DEF r
<1>3. OnlyTab(t) /\ tab'[t].request = r
  BY <1>1, <1>2, SetShape DEF SessionsInv
<1>4. Makers' \subseteq Makers
  BY <1>1, <1>3, MakersAfter
<1>5. DOMAIN session = 1..MaxTokens
  BY DEF SessionsInv, SessionTables
<1>6. ASSUME NEW s \in 1..MaxTokens
      PROVE  RowEnds(s) /\ session'[s] \in SessionRow
  <2>1. session[s] \in SessionRow
    BY DEF SessionsInv, SessionTables
  <2>2. CASE s \in gone
    <3>1. session'[s] = [session[s] EXCEPT !.live = FALSE] /\ Stored(s)
      BY <1>5, <2>2 DEF Revoke, SessionOf
    <3> DEFINE entry == [session[s] EXCEPT !.live = FALSE]
    <3>2. /\ entry \in SessionRow /\ entry.token = session[s].token
          /\ entry.verified = session[s].verified /\ entry.born = session[s].born
          /\ entry.live = FALSE /\ entry.expired = session[s].expired
      BY <2>1, RowChange
    <3>3. session'[s] = entry
      BY <3>1
    <3> HIDE DEF entry
    <3> QED
      BY <3>1, <3>2, <3>3 DEF RowEnds
  <2>3. CASE s \notin gone
    BY <1>5, <2>1, <2>3 DEF Revoke, RowEnds
  <2> QED
    BY <2>2, <2>3
<1>7. session' \in [1..MaxTokens -> SessionRow]
  BY <1>5, <1>6 DEF Revoke
<1>8. SessionTables'
  BY <1>3, <1>7 DEF SessionTables, SessionsInv, OnlyTab, Revoke
<1>9. OnlyKnownTokens'
  <2>1. /\ tab'[t].request.sent <= tokens /\ tab'[t].request.result <= tokens
        /\ tab'[t].request.step # "READ" /\ tokens \in Nat /\ tokens >= tokens
    BY <1>1, <1>3, Knowledge
  <2>2. UNCHANGED <<account, tokens, cookie>>
    BY DEF Revoke
  <2>3. \A b \in Browsers : cookie'[b] <= tokens'
    BY <2>2, Knowledge
  <2> QED
    BY <1>3, <2>1, <2>2, <2>3, KnownStays
<1> QED
  BY <1>4, <1>6, <1>8, <1>9, SessionsEnd DEF Revoke

LEMMA LogoutAllStep ==
    ASSUME SessionsAssumption, SessionsInv, NEW t \in Tabs, LogoutAll(t)
    PROVE  SessionsInv'
<1>1. /\ session' \in [1..MaxTokens -> SessionRow]
      /\ \A s \in 1..MaxTokens : RowEnds(s)
  BY AllRevokedRows DEF SessionsInv, LogoutAll
<1>2. cookie' \in [Browsers -> Nat] /\ \A b \in Browsers : cookie'[b] <= tokens
  BY Knowledge DEF LogoutAll
<1>3. SessionTables'
  BY <1>1, <1>2 DEF SessionTables, SessionsInv, LogoutAll
<1>4. OnlyKnownTokens'
  BY <1>2 DEF SessionsInv, RequestsInv, OnlyKnownTokens, LogoutAll, Request, Step
<1>5. Makers' \subseteq Makers
  BY DEF LogoutAll, Makers, MayMake, Request
<1> QED
  BY <1>1, <1>3, <1>4, <1>5, SessionsEnd DEF LogoutAll

\* Tabs are not told.
LEMMA TabsUntold ==
    ASSUME SessionsInv, UNCHANGED <<tab, cookie, tokens>>, account'.password = account.password
    PROVE  OnlyKnownTokens' /\ Makers' \subseteq Makers
BY DEF SessionsInv, RequestsInv, OnlyKnownTokens, Request, Step, Makers, MayMake

LEMMA ExpireSessionStep ==
    ASSUME SessionsAssumption, SessionsInv, NEW s \in DOMAIN session, ExpireSession(s)
    PROVE  SessionsInv'
<1>1. DOMAIN session = 1..MaxTokens /\ \A u \in 1..MaxTokens : session[u] \in SessionRow
  BY DEF SessionsInv, SessionTables
<1> DEFINE entry == [session[s] EXCEPT !.expired = TRUE]
<1>2. /\ entry \in SessionRow /\ entry.token = session[s].token
      /\ entry.verified = session[s].verified /\ entry.born = session[s].born
      /\ entry.live = session[s].live /\ entry.expired = TRUE
  BY <1>1, RowChange
<1>3. session' = [session EXCEPT ![s] = entry]
  BY DEF ExpireSession
<1> HIDE DEF entry
<1>4. /\ session' \in [1..MaxTokens -> SessionRow] /\ session'[s] = entry
      /\ \A u \in 1..MaxTokens : u # s => session'[u] = session[u]
  BY <1>1, <1>2, <1>3 DEF SessionsInv, SessionTables
<1>5. \A u \in 1..MaxTokens : RowEnds(u)
  BY <1>2, <1>4 DEF RowEnds, ExpireSession
<1>6. SessionTables'
  BY <1>4 DEF SessionTables, SessionsInv, ExpireSession
<1> QED
  BY <1>5, <1>6, TabsUntold, SessionsEnd DEF ExpireSession

LEMMA CleanupStep == ASSUME SessionsAssumption, SessionsInv, Cleanup PROVE SessionsInv'
<1>1. DOMAIN session = 1..MaxTokens /\ \A u \in 1..MaxTokens : session[u] \in SessionRow
  BY DEF SessionsInv, SessionTables
<1>2. PICK old \in SUBSET {s \in DOMAIN session : Stored(s) /\ ~session[s].live} :
          session' = [s \in DOMAIN session |->
                        IF session[s].expired \/ s \in old THEN NoSession ELSE session[s]]
  BY DEF Cleanup
<1>3. \A u \in 1..MaxTokens : session'[u] = NoSession \/ session'[u] = session[u]
  BY <1>1, <1>2
<1>4. session' \in [1..MaxTokens -> SessionRow]
  BY <1>1, <1>2, NoSessionRow
<1>5. \A u \in 1..MaxTokens : RowEnds(u)
  BY <1>3 DEF RowEnds
<1>6. SessionTables'
  BY <1>4 DEF SessionTables, SessionsInv, Cleanup
<1> QED
  BY <1>5, <1>6, TabsUntold, SessionsEnd DEF Cleanup

\* A step of the recovery links alone.
LEMMA LinksStep ==
    ASSUME SessionsAssumption, SessionsInv, link' \in [Links -> LinkRow],
           resetter' \in [Resetters -> SUBSET Links], OneLinkEach', LinkSpent',
           UNCHANGED <<account, session, tokens, cookie, tab, made>>
    PROVE  SessionsInv'
<1>1. SessionTables'
  BY DEF SessionTables, SessionsInv
<1>2. RowsInv'
  BY RowsUntouched DEF SessionsInv
<1>3. OnlyKnownTokens' /\ Makers' \subseteq Makers
  BY TabsUntold
<1>4. RoomForTokens'
  BY <1>3, RoomKept DEF SessionsInv, RequestsInv
<1> QED
  BY <1>1, <1>2, <1>3, <1>4 DEF SessionsInv, RequestsInv

LEMMA LinkRowChange ==
    ASSUME NEW w \in LinkRow
    PROVE  /\ [w EXCEPT !.used = TRUE] \in LinkRow
           /\ [w EXCEPT !.used = TRUE].used = TRUE
           /\ [w EXCEPT !.used = TRUE].sets = w.sets
           /\ [w EXCEPT !.expired = TRUE] \in LinkRow
           /\ [w EXCEPT !.expired = TRUE].used = w.used
           /\ [w EXCEPT !.expired = TRUE].sets = w.sets
           /\ w.sets \in Nat
BY DEF LinkRow

LEMMA LinkRowSpent ==
    ASSUME NEW w \in LinkRow, NEW n \in Nat
    PROVE  /\ [w EXCEPT !.used = TRUE, !.sets = n] \in LinkRow
           /\ [w EXCEPT !.used = TRUE, !.sets = n].used = TRUE
           /\ [w EXCEPT !.used = TRUE, !.sets = n].sets = n
BY DEF LinkRow

LEMMA NewLinkRow ==
    /\ [NoLink EXCEPT !.made = TRUE] \in LinkRow
    /\ [NoLink EXCEPT !.made = TRUE].sets = 0
BY DEF NoLink, LinkRow

LEMMA ForgotPasswordStep ==
    ASSUME SessionsAssumption, SessionsInv, NEW l \in Links, ForgotPassword(l)
    PROVE  SessionsInv'
<1>1. PICK seen \in SUBSET {k \in Links : Open(k)} :
          link' = [k \in Links |->
                     IF k = l THEN [NoLink EXCEPT !.made = TRUE]
                     ELSE IF k \in seen THEN [link[k] EXCEPT !.used = TRUE] ELSE link[k]]
  BY DEF ForgotPassword
<1>2. ASSUME NEW k \in Links
      PROVE  link'[k] \in LinkRow /\ link'[k].sets <= IF link'[k].used THEN 1 ELSE 0
  <2>1. link[k] \in LinkRow /\ link[k].sets <= (IF link[k].used THEN 1 ELSE 0)
    BY DEF SessionsInv, SessionTables, RequestsInv, LinkSpent
  <2>2. CASE k = l
    <3> DEFINE w == [NoLink EXCEPT !.made = TRUE]
    <3>1. link'[k] = w /\ w \in LinkRow /\ w.sets = 0
      BY <1>1, <2>2, NewLinkRow
    <3> HIDE DEF w
    <3> QED
      BY <3>1
  <2>3. CASE k # l /\ k \in seen
    <3> DEFINE w == [link[k] EXCEPT !.used = TRUE]
    <3>1. link'[k] = w /\ w \in LinkRow /\ w.used /\ w.sets = link[k].sets /\ link[k].sets \in Nat
      BY <1>1, <2>1, <2>3, LinkRowChange
    <3> HIDE DEF w
    <3> QED
      BY <2>1, <3>1
  <2>4. CASE k # l /\ k \notin seen
    BY <1>1, <2>1, <2>4
  <2> QED
    BY <2>2, <2>3, <2>4
<1>3. link' \in [Links -> LinkRow]
  BY <1>1, <1>2
<1>4. LinkSpent' /\ OneLinkEach' /\ resetter' \in [Resetters -> SUBSET Links]
  BY <1>2 DEF LinkSpent, SessionsInv, RequestsInv, OneLinkEach, ForgotPassword, SessionTables
<1> QED
  BY <1>3, <1>4, LinksStep DEF ForgotPassword

LEMMA ExpireLinkStep ==
    ASSUME SessionsAssumption, SessionsInv, NEW l \in Links, ExpireLink(l)
    PROVE  SessionsInv'
<1> DEFINE w == [link[l] EXCEPT !.expired = TRUE]
<1>1. w \in LinkRow /\ w.used = link[l].used /\ w.sets = link[l].sets
  BY LinkRowChange DEF SessionsInv, SessionTables
<1>2. link' = [link EXCEPT ![l] = w]
  BY DEF ExpireLink
<1> HIDE DEF w
<1>3. link' \in [Links -> LinkRow] /\ LinkSpent'
  BY <1>1, <1>2 DEF SessionsInv, SessionTables, RequestsInv, LinkSpent
<1>4. OneLinkEach' /\ resetter' \in [Resetters -> SUBSET Links]
  BY DEF SessionsInv, RequestsInv, OneLinkEach, ExpireLink, SessionTables
<1> QED
  BY <1>3, <1>4, LinksStep DEF ExpireLink

LEMMA ReadForResetStep ==
    ASSUME SessionsAssumption, SessionsInv, NEW r \in Resetters, NEW l \in Links,
           ReadForReset(r, l)
    PROVE  SessionsInv'
<1>1. resetter' \in [Resetters -> SUBSET Links] /\ OneLinkEach'
  BY DEF SessionsInv, SessionTables, RequestsInv, OneLinkEach, ReadForReset
<1>2. link' \in [Links -> LinkRow] /\ LinkSpent'
  BY DEF SessionsInv, SessionTables, RequestsInv, LinkSpent, ReadForReset
<1> QED
  BY <1>1, <1>2, LinksStep DEF ReadForReset

\* A new password: no row stays valid, so none has to know it.
LEMMA ResetRows ==
    ASSUME SessionTables, RowsInv, session' = allRevoked(session), UNCHANGED <<tokens, made>>,
           account'.password = account.password + 1
    PROVE  RowsInv'
<1>1. DOMAIN session = 1..MaxTokens /\ account.password \in Nat
  BY DEF SessionTables
<1>2. /\ session' \in [1..MaxTokens -> SessionRow]
      /\ \A s \in 1..MaxTokens : /\ ~session'[s].live /\ Stored(s)' => Stored(s)
      /\ \A s \in 1..MaxTokens : /\ session'[s].token = session[s].token
                                 /\ session'[s].verified = session[s].verified
      /\ \A s \in 1..MaxTokens : ~session'[s].live
      /\ \A s \in 1..MaxTokens : Stored(s)' => Stored(s)
  BY AllRevokedRows
<1>3. RowsTell'
  BY <1>1, <1>2 DEF RowsInv, RowsTell
<1>4. FreshTokens' /\ ExchangedOnce'
  BY DEF RowsInv, FreshTokens, ExchangedOnce
<1>5. ExchangedIsGone'
  BY <1>2 DEF RowsInv, ExchangedIsGone
<1>6. NoOldSession'
  BY <1>2 DEF NoOldSession, Valid
<1> QED
  BY <1>3, <1>4, <1>5, <1>6 DEF RowsInv

LEMMA ResetPasswordStep ==
    ASSUME SessionsAssumption, SessionsInv, NEW r \in Resetters, ResetPassword(r)
    PROVE  SessionsInv'
<1>1. PICK l \in Links : resetter[r] = {l}
  BY DEF ResetPassword, SessionsInv, RequestsInv, OneLinkEach
<1>2. (CHOOSE k \in resetter[r] : TRUE) = l
  BY <1>1
<1>3. resetter' \in [Resetters -> SUBSET Links] /\ OneLinkEach'
  BY DEF SessionsInv, SessionTables, RequestsInv, OneLinkEach, ResetPassword
<1>4. CASE ~claimable(l)
  <2>1. UNCHANGED <<account, session, link>>
    BY <1>2, <1>4 DEF ResetPassword
  <2>2. link' \in [Links -> LinkRow] /\ LinkSpent'
    BY <2>1 DEF SessionsInv, SessionTables, RequestsInv, LinkSpent
  <2> QED
    BY <1>3, <2>1, <2>2, LinksStep DEF ResetPassword
<1>5. CASE claimable(l)
  <2>1. /\ link' = [link EXCEPT ![l].used = TRUE, ![l].sets = @ + 1]
        /\ account' = [account EXCEPT !.password = @ + 1]
        /\ session' = allRevoked(session)
        /\ UNCHANGED <<tokens, cookie, tab, made>>
    BY <1>2, <1>5 DEF ResetPassword
  <2> DEFINE n == link[l].sets + 1
             w == [link[l] EXCEPT !.used = TRUE, !.sets = n]
  <2>2. link[l] \in LinkRow /\ ~link[l].used /\ link[l].sets <= 0
    BY <1>5 DEF SessionsInv, SessionTables, RequestsInv, LinkSpent, claimable, Open
  <2>14. link[l].sets \in Nat
    BY <2>2 DEF LinkRow
  <2>3. n \in Nat /\ n <= 1
    BY <2>2, <2>14
  <2>13. w \in LinkRow /\ w.used = TRUE /\ w.sets <= 1
    BY <2>2, <2>3, LinkRowSpent
  <2>4. link' = [link EXCEPT ![l] = w]
    BY <2>1, <2>2 DEF SessionsInv, SessionTables
  <2> HIDE DEF w, n
  <2>5. link' \in [Links -> LinkRow] /\ LinkSpent'
    BY <2>13, <2>4 DEF SessionsInv, SessionTables, RequestsInv, LinkSpent
  <2>6. account' \in [password : Nat] /\ account'.password = account.password + 1
    BY <2>1 DEF SessionsInv, SessionTables
  <2>7. RowsInv'
    BY <2>1, <2>6, ResetRows DEF SessionsInv
  <2>8. session' \in [1..MaxTokens -> SessionRow]
    BY <2>1, AllRevokedRows DEF SessionsInv
  <2>9. SessionTables'
    BY <1>3, <2>1, <2>5, <2>6, <2>8 DEF SessionsInv, SessionTables
  <2>10. OnlyKnownTokens'
    <3>1. 1..account.password \subseteq 1..account'.password
      BY <2>6, Knowledge DEF SessionsInv, SessionTables
    <3> QED
      BY <2>1, <3>1 DEF SessionsInv, RequestsInv, OnlyKnownTokens, Request, Step
  <2>11. Makers' \subseteq Makers
    BY <2>1 DEF Makers, MayMake, Request
  <2>12. RoomForTokens'
    BY <2>1, <2>11, RoomKept DEF SessionsInv, RequestsInv
  <2> QED
    BY <1>3, <2>5, <2>7, <2>9, <2>10, <2>12 DEF SessionsInv, RequestsInv
<1> QED
  BY <1>4, <1>5
-----------------------------------------------------------------------------
(* The specification.                                                      *)

LEMMA SessionsInit == SessionsAssumption /\ Init => SessionsInv
<1> SUFFICES ASSUME SessionsAssumption, Init PROVE SessionsInv
  OBVIOUS
<1>1. account \in [password : Nat]
  BY DEF Init
<1>2. \A s \in 1..MaxTokens : session[s] = NoSession
  BY DEF Init
<1>3. NoSession \in SessionRow
  BY NoSessionRow
<1>4. [status |-> "loading", request |-> Idle] \in TabRow
  BY DEF TabRow, RequestRow, Idle, Calls
<1>5. NoLink \in LinkRow /\ NoLink.sets = 0
  BY DEF NoLink, LinkRow
<1>6. \A n \in 1..MaxTokens : [from |-> 0, session |-> n] \in [from : Nat, session : Nat]
  BY DEF SessionsAssumption
<1>7. SessionTables
  BY <1>1, <1>3, <1>4, <1>5, <1>6 DEF Init, SessionTables
<1>8. RowsTell /\ NoOldSession
  BY <1>2 DEF RowsTell, NoOldSession, Stored, Init
<1>9. FreshTokens
  BY DEF Init, FreshTokens
<1>10. ExchangedIsGone /\ ExchangedOnce
  BY DEF Init, ExchangedIsGone, ExchangedOnce
<1>11. \A t \in Tabs : Request(t) = Idle
  BY DEF Init, Request
<1>12. OnlyKnownTokens
  BY <1>11 DEF Init, OnlyKnownTokens, Step, Request, Idle
<1>13. RoomForTokens
  <2>1. Makers = {}
    BY <1>11 DEF Makers, MayMake, Idle
  <2>2. Cardinality(Makers) = 0
    BY <2>1, FS_EmptySet
  <2> QED
    BY <2>2 DEF RoomForTokens, Init, SessionsAssumption
<1>14. OneLinkEach /\ LinkSpent
  BY <1>5 DEF Init, OneLinkEach, LinkSpent
<1> QED
  BY <1>7, <1>8, <1>9, <1>10, <1>12, <1>13, <1>14 DEF SessionsInv, RowsInv, RequestsInv

LEMMA SessionsNext == SessionsAssumption /\ SessionsInv /\ [Next]_sessionVars => SessionsInv'
<1> SUFFICES ASSUME SessionsAssumption, SessionsInv, [Next]_sessionVars PROVE SessionsInv'
  OBVIOUS
<1>1. CASE UNCHANGED sessionVars
  <2>1. UNCHANGED <<account, session, tokens, cookie, tab, link, resetter, made>>
    BY <1>1 DEF sessionVars
  <2>2. /\ link' \in [Links -> LinkRow] /\ resetter' \in [Resetters -> SUBSET Links]
        /\ OneLinkEach' /\ LinkSpent'
    BY <2>1 DEF SessionsInv, SessionTables, RequestsInv, OneLinkEach, LinkSpent
  <2> QED
    BY <2>1, <2>2, LinksStep
<1>2. ASSUME NEW t \in Tabs, RefreshSession(t) PROVE SessionsInv'
  BY <1>2, RequestLeaves DEF RefreshSession, Calls
<1>3. ASSUME NEW t \in Tabs, Login(t) PROVE SessionsInv'
  BY <1>3, RequestLeaves DEF Login, Calls
<1>4. ASSUME NEW t \in Tabs, Logout(t) PROVE SessionsInv'
  BY <1>4, RequestLeaves DEF Logout, Calls
<1>5. ASSUME NEW t \in Tabs, ServerStep(t) PROVE SessionsInv'
  BY <1>5, ReadForLoginStep, IssueSessionStep, ReadForRefreshStep, RotateStep, RevokeStep
     DEF ServerStep
<1>6. ASSUME NEW t \in Tabs, Register(t) \/ LogoutAll(t) \/ Answer(t) \/ Lose(t)
      PROVE  SessionsInv'
  BY <1>6, RegisterStep, LogoutAllStep, AnswerStep, LoseStep
<1>7. ASSUME NEW l \in Links, ForgotPassword(l) \/ ExpireLink(l) PROVE SessionsInv'
  BY <1>7, ForgotPasswordStep, ExpireLinkStep
<1>8. ASSUME NEW r \in Resetters, ResetPassword(r) PROVE SessionsInv'
  BY <1>8, ResetPasswordStep
<1>9. ASSUME NEW r \in Resetters, NEW l \in Links, ReadForReset(r, l) PROVE SessionsInv'
  BY <1>9, ReadForResetStep
<1>10. ASSUME NEW s \in DOMAIN session, ExpireSession(s) PROVE SessionsInv'
  BY <1>10, ExpireSessionStep
<1>11. CASE Cleanup
  BY <1>11, CleanupStep
<1> QED
  BY <1>1, <1>2, <1>3, <1>4, <1>5, <1>6, <1>7, <1>8, <1>9, <1>10, <1>11 DEF Next

LEMMA SessionsSafe ==
    SessionsAssumption /\ SessionsInv =>
        TypeOK /\ ExchangedOnce /\ NoOldSession /\ LinkSetsOnce
<1> SUFFICES ASSUME SessionsAssumption, SessionsInv
             PROVE  TypeOK /\ ExchangedOnce /\ NoOldSession /\ LinkSetsOnce
  OBVIOUS
<1>1. \A r \in Resetters : Cardinality(resetter[r]) <= 1
  <2>1. ASSUME NEW r \in Resetters PROVE Cardinality(resetter[r]) <= 1
    <3>1. CASE resetter[r] = {}
      BY <3>1, FS_EmptySet
    <3>2. CASE \E l \in Links : resetter[r] = {l}
      <4>1. PICK l \in Links : resetter[r] = {l}
        BY <3>2
      <4>2. Cardinality({l}) = 1
        BY FS_Singleton
      <4> QED
        BY <4>1, <4>2
    <3> QED
      BY <3>1, <3>2 DEF SessionsInv, RequestsInv, OneLinkEach
  <2> QED
    BY <2>1
<1>2. tokens \in 0..MaxTokens
  BY MakersFinite DEF SessionsInv, SessionTables, RequestsInv, RoomForTokens, SessionsAssumption
<1>3. \A b \in Browsers : cookie[b] \in 0..tokens
  BY DEF SessionsInv, SessionTables, RequestsInv, OnlyKnownTokens
<1>4. \A s \in DOMAIN session : Stored(s) =>
          /\ session[s].token \in 1..tokens /\ made[session[s].token].session = s
          /\ session[s].verified \in 1..account.password
  BY DEF SessionsInv, SessionTables, RowsInv, RowsTell
<1>5. \A t \in Tabs : tab[t].status \in {"loading", "anonymous", "authenticated"}
  BY DEF SessionsInv, SessionTables, TabRow
<1>6. LinkSetsOnce
  <2>1. ASSUME NEW l \in Links PROVE link[l].sets <= 1
    <3>1. link[l] \in LinkRow /\ link[l].sets <= (IF link[l].used THEN 1 ELSE 0)
      BY DEF SessionsInv, SessionTables, RequestsInv, LinkSpent
    <3>2. link[l].sets \in Nat
      BY <3>1, LinkRowChange
    <3> QED
      BY <3>1, <3>2
  <2> QED
    BY <2>1 DEF LinkSetsOnce
<1> QED
  BY <1>1, <1>2, <1>3, <1>4, <1>5, <1>6 DEF TypeOK, SessionsInv, RowsInv

\* No row or request is ever one the tables and the protocol do not know
\* (customer-auth.service.ts).
THEOREM SessionsTypeCorrect == ASSUME SessionsAssumption PROVE Spec => []TypeOK
<1>1. Init => SessionsInv
  BY SessionsInit
<1>2. SessionsInv /\ [Next]_sessionVars => SessionsInv'
  BY SessionsNext
<1>3. SessionsInv => TypeOK
  BY SessionsSafe
<1> QED
  BY <1>1, <1>2, <1>3, PTL DEF Spec

\* A refresh token is exchanged for one other token at most, however many tabs
\* send it at the same moment (refresh, customer-auth.service.ts).
THEOREM TokensExchangedOnce == ASSUME SessionsAssumption PROVE Spec => []ExchangedOnce
<1>1. Init => SessionsInv
  BY SessionsInit
<1>2. SessionsInv /\ [Next]_sessionVars => SessionsInv'
  BY SessionsNext
<1>3. SessionsInv => ExchangedOnce
  BY SessionsSafe
<1> QED
  BY <1>1, <1>2, <1>3, PTL DEF Spec

\* No session of before a change of password stays valid, and a recovery link
\* sets one password (resetPassword, customer-auth.service.ts).
THEOREM ResetsEndSessions ==
    ASSUME SessionsAssumption
    PROVE  Spec => []NoSessionOutlivesReset
<1>1. Init => SessionsInv
  BY SessionsInit
<1>2. SessionsInv /\ [Next]_sessionVars => SessionsInv'
  BY SessionsNext
<1>3. SessionsInv => NoSessionOutlivesReset
  BY SessionsSafe DEF NoSessionOutlivesReset
<1> QED
  BY <1>1, <1>2, <1>3, PTL DEF Spec

-----------------------------------------------------------------------------
(***************************************************************************)
(* What holds of the store across deployments, for every catalogue, every  *)
(* number of seeds at work, of orders and of deployments that empty it.    *)
(*                                                                         *)
(* The opening stock of a product is counted once because its level, which *)
(* is unique, is written with the movement of the import, and nothing is   *)
(* sold of a product without a level.  An order is kept because nothing    *)
(* but the deletion takes it away, and what the deletion finds was in the  *)
(* tables when the backup was made or was placed since.                    *)
(***************************************************************************)

SoldOf(c) == {o \in Orders : sold[o] = c}

Levels ==
    /\ level \in [Catalog -> Nat \cup {Absent}]
    /\ imported \in [Catalog -> Nat]
    /\ sold \in [Orders -> Catalog \cup {Absent}]
    /\ epoch \in Nat

\* Nothing was sold of a product that has no level.
SoldFromLevels == \A c \in Catalog : level[c] = Absent => SoldOf(c) = {}

\* Backups and late orders cover what a deletion is about to take.
DeletedIsCovered == script.at = "truncate" => current \subseteq saved \cup late

\* The script is idle or at one of its commands.
Commands == {"migrate", "backup", "truncate", "seed", "seeding", "validate", "publish"}
Scripts == {idle} \cup [at : Commands, seed : BOOLEAN, reset : BOOLEAN,
                       seeder : Seeders \cup {Absent}]

StockInv == Levels /\ SoldFromLevels /\ ImportedOnce
OrdersInv == DeletedIsCovered /\ OldOrdersAreKept
DeploymentInv == StockInv /\ OrdersInv /\ script \in Scripts

stockVars == <<level, imported, sold, epoch>>
orderVars == <<sold, epoch, saved, placed, late>>
-----------------------------------------------------------------------------
(* The stock.                                                              *)

LEMMA SoldFinite ==
    ASSUME SeedAssumption, NEW c
    PROVE  IsFiniteSet(SoldOf(c)) /\ Cardinality(SoldOf(c)) \in Nat
<1>1. SoldOf(c) \in SUBSET Orders
  BY DEF SoldOf
<1> QED
  BY <1>1, FS_Subset, FS_CardinalityType DEF SeedAssumption

LEMMA StockUntouched == ASSUME StockInv, UNCHANGED stockVars PROVE StockInv'
BY DEF StockInv, stockVars, Levels, SoldFromLevels, ImportedOnce, SoldOf

\* A level is created where there is none, with the movement that says so.
LEMMA CreateInventoryStock ==
    ASSUME SeedAssumption, StockInv, NEW s \in Seeders, NEW c \in Catalog,
           CreateInventory(s, c)
    PROVE  StockInv'
<1>1. /\ level[c] = Absent /\ SoldOf(c) = {} /\ imported[c] = 0
      /\ StockOf(c) \in Nat /\ Absent \notin Nat
  BY DEF CreateInventory, unique, StockInv, SoldFromLevels, ImportedOnce, SeedAssumption
<1>2. /\ level' = [level EXCEPT ![c] = StockOf(c)]
      /\ imported' = [imported EXCEPT ![c] = @ + StockOf(c)]
      /\ UNCHANGED <<sold, epoch>>
  BY DEF CreateInventory
<1>3. /\ level'[c] = StockOf(c) /\ imported'[c] = StockOf(c)
      /\ \A d \in Catalog \ {c} : level'[d] = level[d] /\ imported'[d] = imported[d]
  BY <1>1, <1>2 DEF StockInv, Levels
<1>4. Levels'
  BY <1>1, <1>2 DEF StockInv, Levels
<1>5. Cardinality(SoldOf(c)) = 0
  BY <1>1, FS_EmptySet
<1>6. SoldFromLevels'
  BY <1>1, <1>2, <1>3 DEF StockInv, SoldFromLevels, SoldOf
<1>7. ImportedOnce'
  BY <1>1, <1>2, <1>3, <1>5 DEF StockInv, ImportedOnce, SoldOf
<1> QED
  BY <1>4, <1>6, <1>7 DEF StockInv

\* A sale moves one unit from the shelf to the order.
LEMMA SellStock ==
    ASSUME SeedAssumption, StockInv, NEW o \in Orders, NEW c \in Catalog, Sell(o, c)
    PROVE  StockInv'
<1>1. /\ sold[o] = Absent /\ level[c] # Absent /\ level[c] # 0
      /\ level' = [level EXCEPT ![c] = @ - 1]
      /\ sold' = [sold EXCEPT ![o] = c]
      /\ UNCHANGED <<imported, epoch>>
  BY DEF Sell, sellable, ordered
<1>2. Absent \notin Catalog /\ Absent \notin Nat
  BY DEF SeedAssumption
<1>3. level[c] \in Nat /\ level[c] - 1 \in Nat
  BY <1>1 DEF StockInv, Levels
<1>4. /\ level'[c] = level[c] - 1
      /\ \A d \in Catalog \ {c} : level'[d] = level[d]
  BY <1>1 DEF StockInv, Levels
<1>5. Levels'
  BY <1>1, <1>3 DEF StockInv, Levels
<1>6. /\ SoldOf(c)' = SoldOf(c) \cup {o} /\ o \notin SoldOf(c)
      /\ \A d \in Catalog \ {c} : SoldOf(d)' = SoldOf(d)
  BY <1>1, <1>2 DEF SoldOf, StockInv, Levels
<1>7. Cardinality(SoldOf(c)') = Cardinality(SoldOf(c)) + 1
  BY <1>6, SoldFinite, FS_AddElement
<1>8. SoldFromLevels'
  BY <1>2, <1>3, <1>4, <1>6 DEF StockInv, SoldFromLevels
<1>9. ImportedOnce'
  <2>1. ASSUME NEW d \in Catalog
        PROVE  /\ imported'[d] = IF level'[d] = Absent THEN 0 ELSE StockOf(d)
               /\ level'[d] # Absent => level'[d] + Cardinality(SoldOf(d)') = StockOf(d)
    <3>1. /\ imported[d] = IF level[d] = Absent THEN 0 ELSE StockOf(d)
          /\ level[d] # Absent => level[d] + Cardinality(SoldOf(d)) = StockOf(d)
      BY DEF StockInv, ImportedOnce, SoldOf
    <3>2. CASE d = c
      <4>1. Cardinality(SoldOf(c)) \in Nat
        BY SoldFinite
      <4> QED
        BY <1>1, <1>2, <1>3, <1>4, <1>7, <3>1, <3>2, <4>1
    <3>3. CASE d # c
      BY <1>1, <1>4, <1>6, <3>1, <3>3
    <3> QED
      BY <3>2, <3>3
  <2> QED
    BY <2>1 DEF ImportedOnce, SoldOf
<1> QED
  BY <1>5, <1>8, <1>9 DEF StockInv

LEMMA TruncateStock == ASSUME StockInv, SeedAssumption, Truncate PROVE StockInv'
<1>1. /\ level' = [c \in Catalog |-> Absent] /\ imported' = [c \in Catalog |-> 0]
      /\ sold' = [o \in Orders |-> Absent] /\ epoch' = epoch + 1
  BY DEF Truncate
<1>2. Levels'
  BY <1>1 DEF StockInv, Levels
<1>3. \A c \in Catalog : SoldOf(c)' = {}
  BY <1>1 DEF SoldOf, SeedAssumption
<1>4. SoldFromLevels' /\ ImportedOnce'
  BY <1>1, <1>3 DEF SoldFromLevels, ImportedOnce
<1> QED
  BY <1>2, <1>4 DEF StockInv
-----------------------------------------------------------------------------
(* The script.                                                             *)

LEMMA IdleScript == idle \in Scripts /\ idle.at = "idle"
BY DEF idle, Scripts

LEMMA GoStep ==
    ASSUME script \in Scripts, script.at # "idle", NEW at \in Commands, Go(at)
    PROVE  script' \in Scripts /\ script'.at = at
<1>1. script \in [at : Commands, seed : BOOLEAN, reset : BOOLEAN,
                 seeder : Seeders \cup {Absent}]
  BY IdleScript DEF Scripts
<1> QED
  BY <1>1 DEF Go, Scripts

LEMMA RunSeedScript ==
    ASSUME script \in Scripts, NEW s \in Seeders, RunSeed(s)
    PROVE  script' \in Scripts /\ script'.at = "seeding"
<1>1. /\ script.at = "seed"
      /\ script' = [script EXCEPT !.at = "seeding", !.seeder = s]
  BY DEF RunSeed
<1>2. script \in [at : Commands, seed : BOOLEAN, reset : BOOLEAN,
                 seeder : Seeders \cup {Absent}]
  BY <1>1, IdleScript DEF Scripts
<1> QED
  BY <1>1, <1>2 DEF Scripts, Commands

\* The commands that write no table of the store: none of them but the backup
\* leads to the deletion.
NoTables ==
    \/ \E seed, reset \in BOOLEAN : Deploy(seed, reset)
    \/ Migrate \/ BackupFails \/ SeedEnds \/ Validate \/ Publish \/ Interrupt
    \/ \E s \in Seeders : RunSeed(s)

LEMMA NoTablesScript ==
    ASSUME script \in Scripts, NoTables
    PROVE  script' \in Scripts /\ script'.at # "truncate"
<1>1. ASSUME NEW seed \in BOOLEAN, NEW reset \in BOOLEAN, Deploy(seed, reset)
      PROVE  script' \in Scripts /\ script'.at # "truncate"
  BY <1>1 DEF Deploy, Scripts, Commands
<1>2. CASE Migrate
  BY <1>2, GoStep DEF Migrate, Commands
<1>3. CASE SeedEnds
  <2>1. CASE script' = idle
    BY <2>1, IdleScript
  <2>2. CASE Go("validate")
    BY <1>3, <2>2, GoStep DEF SeedEnds, Commands
  <2> QED
    BY <1>3, <2>1, <2>2 DEF SeedEnds, Go
<1>4. CASE Validate
  <2>1. CASE script' = idle
    BY <2>1, IdleScript
  <2>2. CASE Go("publish")
    BY <1>4, <2>2, GoStep DEF Validate, Commands
  <2> QED
    BY <1>4, <2>1, <2>2 DEF Validate, Go
<1>5. CASE BackupFails \/ Publish \/ Interrupt
  BY <1>5, IdleScript DEF BackupFails, afterFailedBackup, Publish, Interrupt
<1>6. ASSUME NEW s \in Seeders, RunSeed(s)
      PROVE  script' \in Scripts /\ script'.at # "truncate"
  BY <1>6, RunSeedScript
<1> QED
  BY <1>1, <1>2, <1>3, <1>4, <1>5, <1>6 DEF NoTables

LEMMA NoTablesWritten ==
    ASSUME NoTables
    PROVE  UNCHANGED <<stockVars, orderVars>>
<1>1. ASSUME NEW s \in Seeders, RunSeed(s)
      PROVE  UNCHANGED <<stockVars, orderVars>>
  BY <1>1 DEF RunSeed, data, stockVars, orderVars
<1> QED
  BY <1>1 DEF NoTables, Deploy, Migrate, BackupFails, SeedEnds, Validate, Publish, Interrupt,
          data, stockVars, orderVars
-----------------------------------------------------------------------------
(* The orders.                                                             *)

LEMMA OrdersUntouched ==
    ASSUME OrdersInv, UNCHANGED orderVars, script'.at = "truncate" => script.at = "truncate"
    PROVE  OrdersInv'
BY DEF OrdersInv, DeletedIsCovered, OldOrdersAreKept, orderVars, current, ordered

LEMMA BackupOrders == ASSUME OrdersInv, Backup PROVE OrdersInv'
<1>1. saved' = saved \cup current /\ current' = current /\ UNCHANGED <<placed, late>>
  BY DEF Backup, data, current, ordered
<1> QED
  BY <1>1 DEF OrdersInv, DeletedIsCovered, OldOrdersAreKept

LEMMA TruncateOrders ==
    ASSUME OrdersInv, Truncate, script'.at = "seed"
    PROVE  OrdersInv'
<1>1. UNCHANGED <<saved, placed, late>> /\ current \subseteq saved \cup late
  BY DEF Truncate, OrdersInv, DeletedIsCovered
<1> QED
  BY <1>1 DEF OrdersInv, DeletedIsCovered, OldOrdersAreKept

\* What a customer or an employee does leaves every order where it is, and an
\* order placed before a deletion is told apart.
LEMMA ServeOrders ==
    ASSUME OrdersInv, Serve, ordered \subseteq ordered', epoch' = epoch
    PROVE  OrdersInv'
<1>1. /\ placed' = placed \cup current'
      /\ late' = IF script.at = "truncate" THEN late \cup (placed' \ placed) ELSE late
      /\ UNCHANGED <<script, saved>>
  BY DEF Serve
<1>2. current \subseteq current'
  BY DEF current
<1>3. OldOrdersAreKept'
  BY <1>1, <1>2 DEF OrdersInv, OldOrdersAreKept
<1>4. DeletedIsCovered'
  <2>1. SUFFICES ASSUME script.at = "truncate", NEW p \in current'
                 PROVE  p \in saved \cup late'
    BY <1>1 DEF DeletedIsCovered
  <2>2. CASE p \in placed
    <3>1. placed \subseteq saved \cup late
      BY <2>1 DEF OrdersInv, DeletedIsCovered, OldOrdersAreKept
    <3> QED
      BY <1>1, <2>2, <3>1
  <2>3. CASE p \notin placed
    BY <1>1, <2>1, <2>3
  <2> QED
    BY <2>2, <2>3
<1> QED
  BY <1>3, <1>4 DEF OrdersInv
-----------------------------------------------------------------------------
(* The specification.                                                      *)

LEMMA SeedingStock ==
    ASSUME SeedAssumption, StockInv, NEW s \in Seeders, SeedStep(s)
    PROVE  StockInv' /\ UNCHANGED <<sold, epoch>>
<1>1. ASSUME NEW c \in Catalog, CreateInventory(s, c)
      PROVE  StockInv' /\ UNCHANGED <<sold, epoch>>
  BY <1>1, CreateInventoryStock DEF CreateInventory
<1>2. ASSUME NEW c \in Catalog,
             UpsertProduct(s, c) \/ Relate(s, c) \/ UpsertVariant(s, c) \/ FindInventory(s, c)
      PROVE  UNCHANGED stockVars
  BY <1>2 DEF UpsertProduct, Relate, UpsertVariant, FindInventory, data, stockVars
<1>3. CASE SeedSetting(s) \/ NextBatch(s) \/ SeedFails(s)
  <2>1. UNCHANGED stockVars
    BY <1>3 DEF SeedSetting, NextBatch, SeedFails, data, stockVars
  <2> QED
    BY <2>1, StockUntouched DEF stockVars
<1>4. UNCHANGED stockVars => StockInv' /\ UNCHANGED <<sold, epoch>>
  BY StockUntouched DEF stockVars
<1> QED
  BY <1>1, <1>2, <1>3, <1>4 DEF SeedStep

LEMMA ServeStock ==
    ASSUME SeedAssumption, StockInv, Serve
    PROVE  StockInv' /\ ordered \subseteq ordered' /\ epoch' = epoch
<1>1. ASSUME NEW o \in Orders, NEW c \in Catalog, Sell(o, c)
      PROVE  StockInv' /\ ordered \subseteq ordered' /\ epoch' = epoch
  <2>1. /\ sold' = [sold EXCEPT ![o] = c] /\ epoch' = epoch
        /\ Absent \notin Catalog /\ sold \in [Orders -> Catalog \cup {Absent}]
    BY <1>1 DEF Sell, SeedAssumption, StockInv, Levels
  <2> QED
    BY <1>1, <2>1, SellStock DEF ordered
<1>2. CASE UNCHANGED stockVars
  BY <1>2, StockUntouched DEF stockVars, ordered
<1>3. (\E o \in Orders, c \in Catalog : Sell(o, c)) \/ UNCHANGED stockVars
  BY DEF Serve, StoreStep, EditSetting, EditPrice, Archive, AddProduct, Edit, stockVars
<1> QED
  BY <1>1, <1>2, <1>3

LEMMA DeploymentInit == SeedAssumption /\ InitDeployment => DeploymentInv
<1> SUFFICES ASSUME SeedAssumption, InitDeployment PROVE DeploymentInv
  OBVIOUS
<1>1. Levels
  BY DEF InitDeployment, SeedInit, Levels
<1>2. \A c \in Catalog : SoldOf(c) = {}
  BY DEF InitDeployment, SeedInit, SoldOf, SeedAssumption
<1>3. SoldFromLevels /\ ImportedOnce
  BY <1>2 DEF InitDeployment, SeedInit, SoldFromLevels, ImportedOnce
<1>4. OrdersInv /\ script \in Scripts
  BY IdleScript DEF InitDeployment, OrdersInv, DeletedIsCovered, OldOrdersAreKept
<1> QED
  BY <1>1, <1>3, <1>4 DEF DeploymentInv, StockInv

LEMMA DeploymentStep ==
    SeedAssumption /\ DeploymentInv /\ [DeployNext]_storeVars => DeploymentInv'
<1> SUFFICES ASSUME SeedAssumption, DeploymentInv, [DeployNext]_storeVars
             PROVE  DeploymentInv'
  OBVIOUS
<1>1. CASE UNCHANGED storeVars
  <2>1. UNCHANGED <<stockVars, orderVars, script>>
    BY <1>1 DEF storeVars, data, control, stockVars, orderVars
  <2> QED
    BY <2>1, StockUntouched, OrdersUntouched DEF DeploymentInv
<1>2. CASE NoTables
  BY <1>2, NoTablesScript, NoTablesWritten, StockUntouched, OrdersUntouched DEF DeploymentInv
<1>3. CASE Backup
  <2>1. UNCHANGED stockVars
    BY <1>3 DEF Backup, data, stockVars
  <2>2. script' \in Scripts
    BY <1>3, GoStep DEF Backup, DeploymentInv, Commands
  <2> QED
    BY <1>3, <2>1, <2>2, StockUntouched, BackupOrders DEF DeploymentInv
<1>4. CASE Truncate
  <2>1. script' \in Scripts /\ script'.at = "seed"
    BY <1>4, GoStep DEF Truncate, DeploymentInv, Commands
  <2> QED
    BY <1>4, <2>1, TruncateStock, TruncateOrders DEF DeploymentInv
<1>5. ASSUME NEW s \in Seeders, Seeding(s)
      PROVE  DeploymentInv'
  <2>1. StockInv' /\ UNCHANGED <<sold, epoch>> /\ UNCHANGED control
    BY <1>5, SeedingStock DEF Seeding, DeploymentInv
  <2>2. UNCHANGED <<orderVars, script>>
    BY <2>1 DEF control, orderVars
  <2> QED
    BY <2>1, <2>2, OrdersUntouched DEF DeploymentInv
<1>6. CASE Serve
  BY <1>6, ServeStock, ServeOrders DEF DeploymentInv, Serve
<1> QED
  BY <1>1, <1>2, <1>3, <1>4, <1>5, <1>6 DEF DeployNext, ScriptStep, NoTables

\* However often deployments stop, are run again, overlap and empty the store,
\* what was sold and what is on the shelf make up the opening stock of every
\* product, and an order is in the tables, in a backup or was placed between the
\* backup and the deletion (prisma/seed.ts, deploy/reset-store-data.sh).
THEOREM StoreSurvivesDeployments ==
    ASSUME SeedAssumption
    PROVE  DeploySpec => []StoreIsKept
<1>1. InitDeployment => DeploymentInv
  BY DeploymentInit
<1>2. DeploymentInv /\ [DeployNext]_storeVars => DeploymentInv'
  BY DeploymentStep
<1>3. DeploymentInv => StoreIsKept
  BY DEF DeploymentInv, StockInv, OrdersInv, StoreIsKept
<1> QED
  BY <1>1, <1>2, <1>3, PTL DEF DeploySpec

\* A version is published with every product of the file for sale, unless
\* products that employees added made up for the number
\* (deploy/validate-inventory.sql counts).
THEOREM PublishedIsComplete ==
    ASSUME SeedAssumption
    PROVE  DeploySpec => [][ValidatedIsComplete]_storeVars
<1>1. ASSUME [DeployNext]_storeVars, script.at = "validate", script'.at = "publish"
      PROVE  inventoryValid
  <2>1. CASE UNCHANGED script
    BY <1>1, <2>1
  <2>2. CASE script' = idle
    BY <1>1, <2>2, IdleScript
  <2>3. CASE Validate
    BY <1>1, <2>3, IdleScript DEF Validate
  <2>4. script # idle
    BY <1>1, IdleScript
  <2>5. UNCHANGED script \/ script' = idle \/ Validate
    BY <1>1, <2>4 DEF storeVars, control, DeployNext, ScriptStep, Deploy, Migrate, Backup,
       Truncate, SeedEnds, Publish, RunSeed, BackupFails, afterFailedBackup, Interrupt,
       Seeding, Serve
  <2> QED
    BY <2>1, <2>2, <2>3, <2>5
<1>2. ASSUME inventoryValid, extra = 0, NEW c \in Catalog
      PROVE  complete(c)
  <2> DEFINE active == {d \in Catalog : product[d].status = "ACTIVE"}
             variants == {d \in Catalog : product[d].variant}
             levels == {d \in Catalog : level[d] # Absent}
  <2>1. ASSUME NEW S \in SUBSET Catalog, Cardinality(S) + extra = Cardinality(Catalog)
        PROVE  S = Catalog
    <3>1. IsFiniteSet(Catalog) /\ Cardinality(S) \in Nat
      BY FS_Subset, FS_CardinalityType DEF SeedAssumption
    <3> QED
      BY <1>2, <2>1, <3>1, FS_Subset
  <2>2. active = Catalog /\ variants = Catalog /\ levels = Catalog
    BY <1>2, <2>1 DEF inventoryValid
  <2>3. product[c].status = "ACTIVE" /\ product[c].variant /\ level[c] # Absent
    BY <2>2
  <2>4. product[c].related
    BY <1>2, <2>3 DEF inventoryValid
  <2> QED
    BY <2>3, <2>4 DEF complete
<1>3. [DeployNext]_storeVars => [ValidatedIsComplete]_storeVars
  BY <1>1, <1>2 DEF ValidatedIsComplete
<1> QED
  BY <1>3, PTL DEF DeploySpec
=============================================================================
