---------------------------- MODULE PurchaseProofs ----------------------------
(***************************************************************************)
(* Theorems about Purchase, for any number of orders, whatever the         *)
(* payloads and prices, and however often the bot polls.                   *)
(***************************************************************************)
EXTENDS Purchase, TLAPS

-----------------------------------------------------------------------------
(* The inductive invariant *)

RequestTypes ==
  /\ txn    \in [Orders -> Txns]
  /\ call   \in [Orders -> Calls]
  /\ late   \subseteq Orders
  /\ row    \in [Orders -> BOOLEAN]
  /\ req    \in [Orders -> {"none", "sent", "charge", "persist", "rollback",
                            "created", "failed"}]
  /\ status \in [Orders -> Status \cup {"NONE"}]

\* An answer, and a charge, tell of a transaction that is there.
Backed ==
  \A o \in Orders :
    /\ call[o] = "idle" => txn[o] = "none" /\ o \notin late
    /\ call[o] \in {"201", "406", "charged"} => txn[o] # "none"

\* A request that got past the charge has one, and past the INSERT its row.
Stored ==
  \A o \in Orders :
    /\ req[o] \in {"none", "sent"} => call[o] = "idle"
    /\ status[o] = "NONE" => req[o] \in {"none", "sent", "failed"}
    /\ req[o] = "persist" => call[o] = "charged"
    /\ req[o] = "created" => call[o] = "charged" /\ row[o]

RequestInv == RequestTypes /\ Backed /\ Stored

ChatTypes ==
  /\ bot     \in [Orders -> {"idle", "asking", "ack", "photo", "url", "text",
                             "over"}]
  /\ shown   \in [Orders -> BOOLEAN]
  /\ poll    \in [Orders -> {"none", "wait", "asking", "telling", "stopped",
                             "lost"}]
  /\ polls   \in [Orders -> Nat]
  /\ seen    \in [Orders -> Status]
  /\ notices \in [Orders -> Nat]
  /\ unsure  \in [Orders -> Nat]
  /\ refused \in [Orders -> BOOLEAN]

\* The bot has a code only from a request that was answered.
Answered ==
  \A o \in Orders :
    /\ bot[o] = "idle" => req[o] = "none"
    /\ bot[o] \in {"ack", "photo", "url", "text"} => req[o] = "created"
    /\ shown[o] \/ poll[o] # "none" => req[o] = "created"

\* Every message but the last went unacknowledged, and the last one ends the
\* poll.  A status other than PENDING is followed by an attempt to tell.
Told ==
  \A o \in Orders :
    /\ bot[o] # "over" => poll[o] = "none"
    /\ poll[o] # "stopped" => notices[o] <= unsure[o]
    /\ notices[o] <= unsure[o] + 1
    /\ poll[o] \notin {"telling", "lost"} /\ seen[o] # "PENDING" =>
         notices[o] > 0 \/ refused[o]
    /\ poll[o] = "stopped" /\ notices[o] = 0 => polls[o] > PollMax

ChatInv == ChatTypes /\ Answered /\ Told

PInv == RequestInv /\ ChatInv

LEMMA InitPInv == Init => PInv
<1> SUFFICES ASSUME Init
             PROVE  PInv
  OBVIOUS
<1>1. RequestInv
  BY DEF Init, ClientInit, RequestInv, RequestTypes, Backed, Stored, Txns, Calls,
         Status
<1>2. ChatTypes
  BY DEF Init, ChatTypes, Status
<1>3. Answered
  BY DEF Init, Answered
<1>4. Told
  <2>1. \A o \in Orders : /\ poll[o] = "none" /\ seen[o] = "PENDING"
                          /\ notices[o] = 0 /\ unsure[o] = 0
    BY DEF Init
  <2>2. 0 <= 0 /\ 0 <= 0 + 1
    OBVIOUS
  <2> QED BY <2>1, <2>2, Zenon DEF Told
<1> QED BY <1>1, <1>2, <1>3, <1>4 DEF PInv, ChatInv

-----------------------------------------------------------------------------
(* The request and the chat do not get into each other's way. *)

LEMMA ChatKept ==
  ASSUME ChatInv, UNCHANGED <<chat, polling>>,
         \A o \in Orders : bot[o] = "idle" \/ req[o] = "created" => req'[o] = req[o]
  PROVE  ChatInv'
BY DEF ChatInv, ChatTypes, Answered, Told, chat, polling

LEMMA RequestKept ==
  ASSUME RequestInv, UNCHANGED <<txn, call, late, row, req, status>>
  PROVE  RequestInv'
BY DEF RequestInv, RequestTypes, Backed, Stored

\* TemanQRIS: a conversion without a result opens nothing, and any other makes
\* the order payable.
LEMMA ConvertStep ==
  ASSUME NEW o \in Orders, Convert(o)
  PROVE  /\ req[o] = "charge" /\ call[o] = "idle"
         /\ UNCHANGED <<late, row, req, status>>
         /\ \/ call' = [call EXCEPT ![o] = "failed"] /\ txn' = txn
            \/ call' = [call EXCEPT ![o] = "charged"] /\ Open(o)
<1>1. /\ req[o] = "charge" /\ call[o] = "idle"
      /\ UNCHANGED <<late, row, req, status>>
  BY Zenon DEF Convert
<1>2. CASE Converted[payload, ordAmount[o]] = NoQR
  <2>1. call' = [call EXCEPT ![o] = "failed"] /\ txn' = txn
    BY <1>2, Zenon DEF Convert
  <2> QED BY <1>1, <2>1, Zenon
<1>3. CASE Converted[payload, ordAmount[o]] # NoQR
  <2>1. call' = [call EXCEPT ![o] = "charged"] /\ Open(o)
    BY <1>3, Zenon DEF Convert
  <2> QED BY <1>1, <2>1, Zenon
<1> QED BY <1>2, <1>3, Zenon

\* The steps of the request, of the client and of the gateway.
RequestSide(o) ==
  RequestNext(o) \/ CallNext(o) \/ ServerCrashes(o) \/ StoreMovesOn(o) \/ CustomerPays(o)

LEMMA RequestStep ==
  ASSUME PInv, NEW o \in Orders, RequestSide(o)
  PROVE  PInv'
<1> USE DEF RequestInv, RequestTypes, Backed, Stored, clientVars, order, Calls,
            Answers, Txns, Status, Open
<1>1. RequestInv
  BY DEF PInv
<1>2. UNCHANGED <<chat, polling>>
  BY DEF RequestSide, RequestNext, CallNext, ServerCrashes, StoreMovesOn,
         CustomerPays, CreateOrder, NoOrderCreated, Convert, Charged, ChargeFails,
         PersistPayment, PersistPaymentFails, CancelAndRelease
<1>15. \A q \in Orders : bot[q] = "idle" \/ req[q] = "created" => req'[q] = req[q]
  <2>1. \A q \in Orders : bot[q] = "idle" => req[q] = "none"
    BY DEF PInv, ChatInv, Answered
  <2>2. CASE Convert(o)
    BY <2>2, ConvertStep
  <2>3. CASE CreateOrder(o) \/ NoOrderCreated(o)
    <3>1. req[o] = "sent" /\ \E s : req' = [req EXCEPT ![o] = s]
      BY <2>3 DEF CreateOrder, NoOrderCreated
    <3> QED BY <1>1, <2>1, <3>1
  <2>4. CASE \/ Charged(o) \/ ChargeFails(o) \/ PersistPayment(o)
             \/ PersistPaymentFails(o) \/ CancelAndRelease(o) \/ ServerCrashes(o)
    <3>1. /\ req[o] \in {"charge", "persist", "rollback"}
          /\ \E s : req' = [req EXCEPT ![o] = s]
      BY <2>4 DEF Charged, ChargeFails, PersistPayment, PersistPaymentFails,
                  CancelAndRelease, ServerCrashes
    <3> QED BY <1>1, <2>1, <3>1
  <2>5. CASE CallNext(o) \/ StoreMovesOn(o) \/ CustomerPays(o)
    BY <2>5 DEF CallNext, StoreMovesOn, CustomerPays
  <2> HIDE DEF RequestInv
  <2> QED BY <2>2, <2>3, <2>4, <2>5 DEF RequestSide, RequestNext
<1>16. ChatInv'
  BY <1>2, <1>15, ChatKept DEF PInv
<1> SUFFICES RequestInv'
  BY <1>16 DEF PInv
<1>3. CASE CreateOrder(o)
  BY <1>1, <1>3 DEF CreateOrder, ClientStarts
<1>4. CASE NoOrderCreated(o)
  BY <1>1, <1>4 DEF NoOrderCreated
<1>5. CASE Convert(o)
  <2>1. /\ req[o] = "charge" /\ call[o] = "idle" /\ UNCHANGED <<late, row, req, status>>
        /\ \/ call' = [call EXCEPT ![o] = "failed"] /\ txn' = txn
           \/ call' = [call EXCEPT ![o] = "charged"] /\ Open(o)
    BY <1>5, ConvertStep
  <2> QED BY <1>1, <2>1
<1>6. CASE Charged(o)
  BY <1>1, <1>6 DEF Charged
<1>7. CASE ChargeFails(o)
  BY <1>1, <1>7 DEF ChargeFails
<1>8. CASE PersistPayment(o)
  BY <1>1, <1>8 DEF PersistPayment
<1>9. CASE PersistPaymentFails(o)
  BY <1>1, <1>9 DEF PersistPaymentFails
<1>10. CASE CancelAndRelease(o)
  BY <1>1, <1>10 DEF CancelAndRelease
<1>11. CASE CallNext(o)
  <2>1. UNCHANGED <<row, req, status>>
    BY <1>11 DEF CallNext
  <2>2. CASE req[o] = "charge" /\ Post(o)
    BY <1>1, <2>1, <2>2 DEF Post
  <2>3. CASE req[o] = "charge" /\ ConnectionFails(o)
    BY <1>1, <2>1, <2>3 DEF ConnectionFails
  <2>4. CASE req[o] = "charge" /\ RetryOnServerError(o)
    BY <1>1, <2>1, <2>4 DEF RetryOnServerError
  <2>5. CASE req[o] = "charge" /\ GiveUp(o)
    BY <1>1, <2>1, <2>5 DEF GiveUp
  <2>6. CASE req[o] = "charge" /\ ReadAnswer(o)
    BY <1>1, <2>1, <2>6 DEF ReadAnswer
  <2>7. CASE req[o] = "charge" /\ GatewayAnswers(o)
    BY <1>1, <2>1, <2>7 DEF GatewayAnswers
  <2>8. CASE GatewayHandlesLate(o)
    BY <1>1, <2>1, <2>8 DEF GatewayHandlesLate
  <2>9. CASE GatewayCloses(o)
    BY <1>1, <2>1, <2>9 DEF GatewayCloses
  <2> HIDE DEF RequestInv
  <2> QED
    BY <1>11, <2>2, <2>3, <2>4, <2>5, <2>6, <2>7, <2>8, <2>9
       DEF CallNext, ClientSteps
<1>12. CASE ServerCrashes(o)
  BY <1>1, <1>12 DEF ServerCrashes
<1>13. CASE StoreMovesOn(o)
  BY <1>1, <1>13 DEF StoreMovesOn
<1>14. CASE CustomerPays(o)
  BY <1>1, <1>14 DEF CustomerPays
<1> HIDE DEF RequestInv
<1> QED
  BY <1>3, <1>4, <1>5, <1>6, <1>7, <1>8, <1>9, <1>10, <1>11, <1>12, <1>13, <1>14
     DEF RequestSide, RequestNext

\* The steps of the bot but the first.
LEMMA BotStep ==
  ASSUME PInv, NEW o \in Orders, ChatNext(o) \/ PollNext(o)
  PROVE  PInv'
<1> USE PollMaxAssumption
    DEF ChatInv, ChatTypes, Answered, Told, clientVars, order, chat, polling, Status
<1>1. ChatInv
  BY DEF PInv
<1>2. UNCHANGED <<clientVars, row, req, status>>
  BY DEF ChatNext, PollNext, OrderRejected, OrderArrives, Acknowledge, Show,
         ShowFails, Tick, ReadStatus, PollFails, Notify, NotifyFails
<1>13. RequestInv'
  BY <1>2, RequestKept DEF PInv
<1> SUFFICES ChatInv'
  BY <1>13 DEF PInv
<1>3. CASE OrderRejected(o)
  BY <1>1, <1>3 DEF OrderRejected
<1>4. CASE OrderArrives(o)
  BY <1>1, <1>4 DEF OrderArrives
<1>5. CASE Acknowledge(o)
  <2>1. PICK next \in {"photo", "url", "text", "over"} :
          bot[o] = "ack" /\ bot' = [bot EXCEPT ![o] = next]
    BY <1>5 DEF Acknowledge, FirstTry
  <2>2. UNCHANGED <<req, shown, polling>>
    BY <1>5 DEF Acknowledge
  <2> QED BY <1>1, <2>1, <2>2
<1>6. CASE Show(o)
  BY <1>1, <1>6 DEF Show
<1>7. CASE ShowFails(o)
  BY <1>1, <1>7 DEF ShowFails, NextTry
<1>8. CASE Tick(o)
  BY <1>1, <1>8 DEF Tick
<1>9. CASE ReadStatus(o)
  <2>1. status[o] \in Status
    <3>1. poll[o] # "none"
      BY <1>9 DEF ReadStatus
    <3> QED
      BY <1>1, <3>1 DEF PInv, RequestInv, RequestTypes, Stored
  <2> QED BY <1>1, <1>9, <2>1 DEF ReadStatus
<1>10. CASE PollFails(o)
  BY <1>1, <1>10 DEF PollFails
<1>11. CASE Notify(o)
  BY <1>1, <1>11 DEF Notify
<1>12. CASE NotifyFails(o)
  <2>1. /\ poll[o] = "telling" /\ poll' = [poll EXCEPT ![o] = "wait"]
        /\ UNCHANGED <<chat, polls, seen, req>>
        /\ \/ /\ notices' = [notices EXCEPT ![o] = notices[o] + 1]
              /\ unsure'  = [unsure EXCEPT ![o] = unsure[o] + 1]
              /\ UNCHANGED refused
           \/ /\ refused' = [refused EXCEPT ![o] = TRUE]
              /\ UNCHANGED <<notices, unsure>>
    BY <1>12 DEF NotifyFails
  <2>2. ChatTypes'
    <3>1. notices[o] + 1 \in Nat /\ unsure[o] + 1 \in Nat
      BY <1>1
    <3> HIDE DEF Answered, Told
    <3> QED BY <1>1, <2>1, <3>1
  <2>3. Answered'
    BY <1>1, <2>1
  <2>4. \A q \in Orders : /\ notices'[q] \in Nat /\ unsure'[q] \in Nat
                          /\ notices[q] \in Nat /\ unsure[q] \in Nat
    BY <1>1, <2>2
  <2>5. \A q \in Orders \ {o} :
          /\ poll'[q] = poll[q] /\ refused'[q] = refused[q]
          /\ notices'[q] = notices[q] /\ unsure'[q] = unsure[q]
    BY <1>1, <2>1
  <2>6. /\ notices'[o] <= unsure'[o] /\ poll'[o] = "wait"
        /\ refused'[o] \/ notices'[o] > 0
    BY <1>1, <2>1
  <2>7. /\ bot[o] = "over" /\ UNCHANGED <<bot, polls, seen>>
    BY <1>1, <2>1
  <2>8. Told'
    BY <1>1, <2>4, <2>5, <2>6, <2>7
  <2> QED BY <2>2, <2>3, <2>8
<1> HIDE DEF ChatInv
<1> QED
  BY <1>3, <1>4, <1>5, <1>6, <1>7, <1>8, <1>9, <1>10, <1>11, <1>12
     DEF ChatNext, PollNext

LEMMA TapStep ==
  ASSUME PInv, NEW o \in Orders, Tap(o)
  PROVE  PInv'
<1>1. RequestInv'
  BY DEF PInv, RequestInv, RequestTypes, Backed, Stored, Tap, ChatInv, Answered,
         clientVars, order
<1>2. ChatInv'
  BY DEF PInv, ChatInv, ChatTypes, Answered, Told, Tap, chat, polling
<1> QED BY <1>1, <1>2 DEF PInv

LEMMA CrashStep == PInv /\ BotCrashes => PInv'
<1> SUFFICES ASSUME PInv, BotCrashes
             PROVE  PInv'
  OBVIOUS
<1>1. RequestInv'
  BY RequestKept DEF PInv, BotCrashes, clientVars, order
<1>2. /\ bot'  = [o \in Orders |-> IF bot[o] = "idle" THEN "idle" ELSE "over"]
      /\ poll' = [o \in Orders |-> IF poll[o] \in {"wait", "asking", "telling"}
                                  THEN "lost" ELSE poll[o]]
      /\ UNCHANGED <<req, shown, polls, seen, notices, unsure, refused>>
  BY DEF BotCrashes
<1>3. ChatTypes'
  BY <1>2 DEF PInv, ChatInv, ChatTypes
<1>4. Answered'
  BY <1>2 DEF PInv, ChatInv, ChatTypes, Answered
<1>5. \A o \in Orders :
        /\ bot'[o] # "over" => bot[o] # "over"
        /\ poll'[o] = "none" <=> poll[o] = "none"
        /\ poll'[o] = "stopped" <=> poll[o] = "stopped"
        /\ poll'[o] \notin {"telling", "lost"} => poll[o] \notin {"telling", "lost"}
  BY <1>2 DEF PInv, ChatInv, ChatTypes
<1>6. Told'
  BY <1>2, <1>3, <1>5 DEF PInv, ChatInv, ChatTypes, Told
<1> QED BY <1>1, <1>3, <1>4, <1>6 DEF PInv, ChatInv

LEMMA PurchaseInvariant == Spec => []PInv
<1>1. PInv /\ [Next]_vars => PInv'
  <2> SUFFICES ASSUME PInv, [Next]_vars
               PROVE  PInv'
    OBVIOUS
  <2>1. CASE UNCHANGED vars
    BY <2>1, ChatKept, RequestKept
       DEF PInv, vars, clientVars, order, chat, polling
  <2>2. CASE Next
    BY <2>2, RequestStep, BotStep, TapStep, CrashStep DEF Next, RequestSide
  <2> QED BY <2>1, <2>2
<1> QED BY <1>1, InitPInv, PTL DEF Spec

-----------------------------------------------------------------------------
(* Results *)

\* Whatever is lost, repeated or crashes between the bot, the API and the
\* gateway: the customer sees a code only of a charge that was made and whose
\* payment the store has on record.
THEOREM ShownCodesArePayable == Spec => []ShownIsPayable
<1>1. PInv => ShownIsPayable
  BY DEF PInv, RequestInv, ChatInv, Backed, Stored, Answered, ShownIsPayable
<1> QED BY <1>1, PurchaseInvariant, PTL

\* A message about an order is repeated only if Telegram left the last one
\* unacknowledged, however often the bot polls.
THEOREM NotifiedOnce == Spec => []OncePerOrder
<1>1. PInv => OncePerOrder
  BY DEF PInv, ChatInv, Told, OncePerOrder
<1> QED BY <1>1, PurchaseInvariant, PTL

\* A poll that ended without a message ran out of attempts.
THEOREM SilenceIsExhaustion == Spec => []ToldUnlessExhausted
<1>1. PInv => ToldUnlessExhausted
  BY DEF PInv, ChatInv, Told, ToldUnlessExhausted
<1> QED BY <1>1, PurchaseInvariant, PTL

-----------------------------------------------------------------------------
(* Purchase implements GatewayPromise. *)

Outcome == [o \in Orders |->
             IF call[o] \in {"charged", "failed"} THEN call[o] ELSE "none"]

\* Each step of the client and of the gateway is one that the promise allows.
LEMMA RequestKeepsPromise ==
  ASSUME PInv, NEW o \in Orders, RequestSide(o)
  PROVE  Promise!Next \/ UNCHANGED <<txn, Outcome>>
<1> USE DEF Outcome
<1>1. RequestTypes /\ Backed /\ Stored
  BY DEF PInv, RequestInv
<1>2. CASE UNCHANGED <<txn, call>>
  BY <1>2
<1>3. ASSUME NEW c \in Calls \ {"charged", "failed"}, txn' = txn,
             call[o] \notin {"charged", "failed"}, call' = [call EXCEPT ![o] = c]
      PROVE  UNCHANGED <<txn, Outcome>>
  BY <1>1, <1>3 DEF RequestTypes
\* A request reaches the gateway.
<1>4. ASSUME NEW c \in Calls, Open(o), txn[o] = "none", call[o] # "charged",
             call' = [call EXCEPT ![o] = c],
             c = call[o] \/ {c, call[o]} \cap {"charged", "failed"} = {}
      PROVE  Promise!Begin(o)
  BY <1>1, <1>4 DEF RequestTypes, Open, Promise!Begin
\* CreateCharge returns.
<1>5. ASSUME call[o] \notin {"charged", "failed"}, txn' = txn,
             call' = [call EXCEPT ![o] = "failed"]
      PROVE  Promise!Failed(o)
  BY <1>1, <1>5 DEF RequestTypes, Promise!Failed
<1>6. ASSUME call[o] \notin {"charged", "failed"}, txn[o] # "none" /\ txn' = txn,
             call' = [call EXCEPT ![o] = "charged"]
      PROVE  Promise!Charged(o)
  BY <1>1, <1>6 DEF RequestTypes, Promise!Charged
<1>7. ASSUME call[o] \notin {"charged", "failed"}, txn[o] = "none" /\ Open(o),
             call' = [call EXCEPT ![o] = "charged"]
      PROVE  Promise!Charged(o)
  BY <1>1, <1>7 DEF RequestTypes, Open, Promise!Charged
<1>8. ASSUME Post(o) \/ ConnectionFails(o) \/ RetryOnServerError(o)
      PROVE  UNCHANGED <<txn, Outcome>>
  BY <1>3, <1>8
     DEF Post, ConnectionFails, RetryOnServerError, Calls, Answers
<1>9. ASSUME GiveUp(o) \/ ReadAnswer(o)
      PROVE  Promise!Next
  BY <1>1, <1>5, <1>6, <1>9 DEF GiveUp, ReadAnswer, Backed, Promise!Next
<1>10. ASSUME GatewayAnswers(o)
       PROVE  Promise!Next \/ UNCHANGED <<txn, Outcome>>
  <2>1. call[o] = "out" /\ \E c \in Answers : call' = [call EXCEPT ![o] = c]
    BY <1>10 DEF GatewayAnswers, Answers
  <2>2. txn' = txn \/ (txn[o] = "none" /\ Open(o))
    BY <1>10 DEF GatewayAnswers
  <2> QED BY <1>3, <1>4, <2>1, <2>2 DEF Calls, Answers, Promise!Next
<1>11. ASSUME GatewayHandlesLate(o)
       PROVE  Promise!Next \/ UNCHANGED <<txn, Outcome>>
  <2>1. CASE txn[o] = "none"
    <3>1. Open(o) /\ call' = call
      BY <1>11, <2>1 DEF GatewayHandlesLate
    <3>2. call[o] # "charged" /\ call[o] \in Calls /\ call' = [call EXCEPT ![o] = call[o]]
      BY <1>1, <2>1, <3>1 DEF Backed, RequestTypes
    <3> QED BY <1>4, <2>1, <3>1, <3>2 DEF Promise!Next
  <2>2. CASE txn[o] # "none"
    BY <1>2, <1>11, <2>2 DEF GatewayHandlesLate
  <2> QED BY <2>1, <2>2
<1>12. ASSUME GatewayCloses(o)
       PROVE  Promise!Next
  BY <1>12 DEF GatewayCloses, Promise!Next, Promise!Close
<1>13. ASSUME CallNext(o)
       PROVE  Promise!Next \/ UNCHANGED <<txn, Outcome>>
  BY <1>8, <1>9, <1>10, <1>11, <1>12, <1>13 DEF CallNext, ClientSteps
<1>14. ASSUME Convert(o)
       PROVE  Promise!Next
  <2>1. call[o] = "idle" /\ txn[o] = "none"
    BY <1>1, <1>14, ConvertStep DEF Backed
  <2>2. \/ call' = [call EXCEPT ![o] = "failed"] /\ txn' = txn
        \/ call' = [call EXCEPT ![o] = "charged"] /\ Open(o)
    BY <1>14, ConvertStep
  <2> QED BY <1>5, <1>7, <2>1, <2>2 DEF Promise!Next
<1>15. ASSUME ServerCrashes(o)
       PROVE  Promise!Next \/ UNCHANGED <<txn, Outcome>>
  <2>1. CASE call[o] \in {"charged", "failed"}
    BY <1>1, <1>2, <1>15, <2>1 DEF ServerCrashes, RequestTypes
  <2>2. CASE call[o] \notin {"charged", "failed"}
    BY <1>1, <1>5, <1>15, <2>2 DEF ServerCrashes, RequestTypes, Promise!Next
  <2> QED BY <2>1, <2>2
<1>16. ASSUME CustomerPays(o)
       PROVE  Promise!Next
  <2>1. call[o] = "charged"
    BY <1>1, <1>16 DEF CustomerPays, PInv, ChatInv, Answered, Stored
  <2> QED BY <1>16, <2>1 DEF CustomerPays, Promise!Next, Promise!Settle
<1>17. ASSUME CreateOrder(o)
       PROVE  UNCHANGED <<txn, Outcome>>
  <2>1. /\ txn' = txn
        /\ \/ call' = call
           \/ call[o] = "idle" /\ call' = [call EXCEPT ![o] = "ready"]
    BY <1>17 DEF CreateOrder, ClientStarts, clientVars
  <2> QED BY <1>2, <1>3, <2>1 DEF Calls
<1>18. ASSUME \/ NoOrderCreated(o) \/ Charged(o) \/ ChargeFails(o)
              \/ PersistPayment(o) \/ PersistPaymentFails(o)
              \/ CancelAndRelease(o) \/ StoreMovesOn(o)
       PROVE  UNCHANGED <<txn, Outcome>>
  BY <1>18
     DEF NoOrderCreated, Charged, ChargeFails, PersistPayment,
         PersistPaymentFails, CancelAndRelease, StoreMovesOn, clientVars
<1> HIDE DEF Outcome
<1> QED
  BY <1>13, <1>14, <1>15, <1>16, <1>17, <1>18 DEF RequestSide, RequestNext

\* Whichever the gateway: CreateCharge reports a charge only if it was made, may
\* report failure for one that was, and only a reported one is ever paid.
THEOREM PurchaseKeepsPromise == Spec => KeepsPromise
<1>1. Init => Promise!Init
  <2> SUFFICES ASSUME Init
               PROVE  Promise!Init
    OBVIOUS
  <2>1. txn = [o \in Orders |-> "none"] /\ \A o \in Orders : call[o] = "idle"
    BY DEF Init, ClientInit
  <2> QED BY <2>1 DEF Promise!Init
<1>2. PInv /\ [Next]_vars => [Promise!Next]_<<txn, Outcome>>
  <2> SUFFICES ASSUME PInv, [Next]_vars
               PROVE  Promise!Next \/ UNCHANGED <<txn, Outcome>>
    OBVIOUS
  <2>1. UNCHANGED <<txn, call>> => UNCHANGED <<txn, Outcome>>
    BY DEF Outcome
  <2>2. ASSUME NEW o \in Orders, Tap(o) \/ ChatNext(o) \/ PollNext(o)
        PROVE  UNCHANGED <<txn, call>>
    BY <2>2
       DEF ChatNext, PollNext, Tap, OrderRejected, OrderArrives, Acknowledge, Show,
           ShowFails, Tick, ReadStatus, PollFails, Notify, NotifyFails, clientVars
  <2>3. BotCrashes \/ UNCHANGED vars => UNCHANGED <<txn, call>>
    BY DEF BotCrashes, vars, clientVars
  <2> QED
    BY <2>1, <2>2, <2>3, RequestKeepsPromise DEF Next, RequestSide
<1> QED
  BY <1>1, <1>2, PurchaseInvariant, PTL DEF Spec, KeepsPromise, Promise!Spec, Outcome
=============================================================================
